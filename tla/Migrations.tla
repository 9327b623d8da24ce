----------------------------- MODULE Migrations -----------------------------
(***************************************************************************)
(* The migration runner behind cmd/migrate: up, down and force, by several *)
(* invocations at once.                                                    *)
(*                                                                         *)
(* Every invocation reads the version once and works from its copy; each   *)
(* step of it is a transaction at READ COMMITTED, the SQL and then the row *)
(* of schema_migrations.  A CREATE, or a DROP that finds its table, keeps  *)
(* every other transaction away from the table until the commit, and the   *)
(* two statements are one step.  A DROP IF EXISTS that finds none locks    *)
(* nothing, not even a table that is being created: its DELETE is another  *)
(* step.                                                                   *)
(***************************************************************************)
EXTENDS Sequences, FiniteSetsExt, Integers

CONSTANTS
    Steps,       \* the migrations, by version: [version, table, refs]
    Runners,     \* invocations of cmd/migrate that can be in flight together
    ForceTo,     \* the versions that operators force; 0 clears the history
    MaxCommands  \* bound: how many commands are given

Versions == {Steps[i].version : i \in DOMAIN Steps}
TableNames == {Steps[i].table : i \in DOMAIN Steps}

\* NewRunner sorts the steps; each creates a table of its own and refers to
\* tables of earlier ones.
ASSUME MigrationsAssumption ==
    /\ Steps \in Seq([version : Nat \ {0}, table : STRING, refs : SUBSET STRING])
    /\ \A i, j \in DOMAIN Steps : i < j => Steps[i].version < Steps[j].version
    /\ \A i, j \in DOMAIN Steps : Steps[i].table = Steps[j].table => i = j
    /\ \A i, j \in DOMAIN Steps : Steps[i].table \in Steps[j].refs => i < j
    /\ ForceTo \subseteq Nat
    /\ MaxCommands \in Nat

VARIABLES
    history,  \* the rows of schema_migrations
    tables,   \* the tables that exist
    cmd,      \* cmd[r]: the command of runner r and how far it is
    commands, \* history: commands given
    forced,   \* history: the version was forced
    clash     \* history: an up and a down were in flight together

runnerVars == <<history, tables, cmd, commands, forced, clash>>

NoCommand == [pc |-> "idle"]

Command == [pc : {"up"}, at : 1..(Len(Steps) + 1)]
           \cup [pc : {"down"}, current : Nat, left : Nat, skipped : BOOLEAN]
           \cup {NoCommand}

MigrationsTypeOK ==
    /\ history \subseteq Versions \cup ForceTo
    /\ tables \subseteq TableNames
    /\ cmd \in [Runners -> Command]
    /\ commands \in 0..MaxCommands
    /\ forced \in BOOLEAN /\ clash \in BOOLEAN

MigrationsInit ==
    /\ history = {} /\ tables = {}
    /\ cmd = [r \in Runners |-> NoCommand]
    /\ commands = 0 /\ forced = FALSE /\ clash = FALSE

Goes(r, to) == cmd' = [cmd EXCEPT ![r] = to]

Given(r) ==
    /\ cmd[r] = NoCommand
    /\ commands < MaxCommands
    /\ commands' = commands + 1

\* A down that goes on from version, with count steps to go.
Reverting(version, count, skipped) ==
    [pc |-> "down", current |-> version, left |-> count, skipped |-> skipped]

\* Version: the newest row, not the number of rows.
Version == Max(history \cup {0})

FirstAfterIndex(version) == version + 1

FirstAfterNext(version) ==
    Min({i \in DOMAIN Steps : Steps[i].version > version + 1} \cup {Len(Steps) + 1})

\* The first step that Up does not skip.
FirstAfter(version) ==
    Min({i \in DOMAIN Steps : Steps[i].version > version} \cup {Len(Steps) + 1})

InFlight(kind) == \E r \in Runners : cmd[r].pc = kind
-----------------------------------------------------------------------------
Up(r) ==
    /\ Given(r)
    /\ Goes(r, [pc |-> "up", at |-> FirstAfter(Version)])
    /\ clash' = (clash \/ InFlight("down"))
    /\ UNCHANGED <<history, tables, forced>>

\* A step that would create what exists, or refer to what does not, fails and
\* ends the command; so does a row that is already there.
Creates(i) ==
    /\ Steps[i].table \notin tables
    /\ Steps[i].refs \subseteq tables
    /\ Steps[i].version \notin history

UpStep(r) ==
    /\ cmd[r].pc = "up" /\ cmd[r].at <= Len(Steps)
    /\ LET i == cmd[r].at
       IN  IF Creates(i)
           THEN /\ tables' = tables \cup {Steps[i].table}
                /\ history' = history \cup {Steps[i].version}
                /\ Goes(r, [pc |-> "up", at |-> i + 1])
           ELSE Goes(r, NoCommand) /\ UNCHANGED <<tables, history>>
    /\ UNCHANGED <<commands, forced, clash>>

UpReturns(r) ==
    /\ cmd[r].pc = "up" /\ cmd[r].at > Len(Steps)
    /\ Goes(r, NoCommand)
    /\ UNCHANGED <<history, tables, commands, forced, clash>>

Down(r, count) ==
    /\ Given(r)
    /\ Goes(r, Reverting(Version, count, FALSE))
    /\ clash' = (clash \/ InFlight("up"))
    /\ UNCHANGED <<history, tables, forced>>

previousVersion(i) == IF i = 1 THEN 0 ELSE Steps[i - 1].version

\* DROP TABLE, unless another table refers to it.
Drops(i) ==
    ~ \E j \in DOMAIN Steps : Steps[j].table \in tables /\ Steps[i].table \in Steps[j].refs

\* What Down reverts next: the steps go down the list, with or without a row.
Reverts(r, i) ==
    /\ cmd[r].pc = "down" /\ cmd[r].left > 0
    /\ Steps[i].version = cmd[r].current

NextDown(r, i) == Goes(r, Reverting(previousVersion(i), cmd[r].left - 1, FALSE))

\* The table is there: it goes, and its row with it.
DownStep(r, i) ==
    /\ Reverts(r, i) /\ ~ cmd[r].skipped
    /\ Steps[i].table \in tables
    /\ IF Drops(i)
       THEN /\ tables' = tables \ {Steps[i].table}
            /\ history' = history \ {Steps[i].version}
            /\ NextDown(r, i)
       ELSE Goes(r, NoCommand) /\ UNCHANGED <<tables, history>>
    /\ UNCHANGED <<commands, forced, clash>>

\* The table is not there, or not committed: IF EXISTS does nothing ...
DownSkips(r, i) ==
    /\ Reverts(r, i) /\ ~ cmd[r].skipped
    /\ Steps[i].table \notin tables
    /\ Goes(r, Reverting(cmd[r].current, cmd[r].left, TRUE))
    /\ UNCHANGED <<history, tables, commands, forced, clash>>

\* ... and DELETE takes the row that is committed by now.
DownDeletes(r, i) ==
    /\ Reverts(r, i) /\ cmd[r].skipped
    /\ history' = history \ {Steps[i].version}
    /\ NextDown(r, i)
    /\ UNCHANGED <<tables, commands, forced, clash>>

\* Nothing is left to revert, or the current version is not in the list.
DownReturns(r) ==
    /\ cmd[r].pc = "down"
    /\ cmd[r].left = 0 \/ cmd[r].current \notin Versions
    /\ Goes(r, NoCommand)
    /\ UNCHANGED <<history, tables, commands, forced, clash>>

\* Force: one transaction replaces the history and runs no SQL.
ForceVersion(r, version) ==
    /\ Given(r)
    /\ history' = IF version > 0 THEN {version} ELSE {}
    /\ forced' = TRUE
    /\ UNCHANGED <<tables, cmd, clash>>

CommandErrorAfterSQL(r) ==
    /\ cmd[r] # NoCommand
    /\ Goes(r, NoCommand)
    /\ tables' = IF cmd[r].pc = "up" /\ cmd[r].at <= Len(Steps) /\ Creates(cmd[r].at)
                 THEN tables \cup {Steps[cmd[r].at].table} ELSE tables
    /\ UNCHANGED <<history, commands, forced, clash>>

CommandErrorSkips(r) ==
    /\ cmd[r] # NoCommand
    /\ Goes(r, IF cmd[r].pc = "up" /\ cmd[r].at <= Len(Steps)
               THEN [pc |-> "up", at |-> cmd[r].at + 1] ELSE NoCommand)
    /\ UNCHANGED <<history, tables, commands, forced, clash>>

\* runInTx fails, or the invocation is killed: the transaction rolls back and
\* the command ends.
CommandError(r) ==
    /\ cmd[r] # NoCommand
    /\ Goes(r, NoCommand)
    /\ UNCHANGED <<history, tables, commands, forced, clash>>

Migrate(count) ==
    \E r \in Runners :
        \/ Up(r)
        \/ UpStep(r)
        \/ UpReturns(r)
        \/ Down(r, count)
        \/ \E i \in DOMAIN Steps : DownStep(r, i) \/ DownSkips(r, i) \/ DownDeletes(r, i)
        \/ DownReturns(r)
        \/ \E version \in ForceTo : ForceVersion(r, version)
        \/ CommandError(r)

Complete == tables = TableNames
-----------------------------------------------------------------------------
TablesOf(versions) == {Steps[i].table : i \in {j \in DOMAIN Steps : Steps[j].version \in versions}}

\* Until somebody forces a version, every row of schema_migrations has its
\* table, through errors, kills and whatever commands run side by side; and
\* every table has its row, unless an up and a down overlapped.  Where they
\* did, a down that found no table deletes the row of one that an up created
\* meanwhile: "there is never a partially-applied migration"
\* (migration/runner.go 5-9) holds of rows and not of tables.
HistoryMatchesTables ==
    ~ forced => /\ TablesOf(history) \subseteq tables
                /\ ~ clash => tables \subseteq TablesOf(history)

\* Applied migrations are a prefix of the list, whatever runs side by side,
\* except after a force or where an up and a down overlapped: then an up that
\* works from an old version leaves a gap that Version, the maximum, hides.
\* (migration/runner.go 95-107, 134-185.)
AppliedIsPrefix ==
    ~ forced /\ ~ clash =>
        \A i, j \in DOMAIN Steps :
            i < j /\ Steps[j].version \in history => Steps[i].version \in history

\* An up that is about to return nil has brought the schema to the end of the
\* list, also where others ran up at the same time; with the exceptions above.
UpMeansComplete ==
    \A r \in Runners :
        cmd[r].pc = "up" /\ cmd[r].at > Len(Steps) /\ ~ forced /\ ~ clash => Complete
=============================================================================
