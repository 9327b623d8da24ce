----------------------------- MODULE Deployment -----------------------------
(***************************************************************************)
(* cmd/migrate, cmd/api and cmd/worker on one database: the schema, the    *)
(* start of the processes and what bootstrap writes.                       *)
(*                                                                         *)
(* Both processes run bootstrap.  Nothing restarts a process whose start   *)
(* failed: main exits, and docker-compose.yml has no restart policy.  An   *)
(* operator may start it again and need not.  Of the rows, only the mode   *)
(* matters here; how mode changes interleave is the subject of             *)
(* OperationalMode.                                                        *)
(***************************************************************************)
EXTENDS Modes, Config, Migrations

CONSTANTS
    Processes,    \* "api" and "worker"
    Environments, \* what a process may be started with
    DownCount,    \* how many steps a down reverts
    Targets,      \* the modes that operators ask for
    MaxFaults     \* bound: crashes, and errors during a start

ASSUME DeploymentAssumption ==
    /\ Processes \subseteq {"api", "worker"}
    /\ {"accounts", "operational_modes"} \subseteq TableNames
    /\ \A env \in Environments :
        DOMAIN env.set \subseteq DOMAIN Defaults /\ env.malformed \subseteq DOMAIN Defaults
    /\ DownCount \in Nat
    /\ Targets \subseteq Mode
    /\ MaxFaults \in Nat

None == "none"

VARIABLES
    account, \* operational_mode of the active account; None: no such row
    mode,    \* current_mode of the operational_modes row; None: no row
    proc,    \* proc[p]: where process p stands
    faults,  \* history: faults so far
    dropped  \* history: a down took a row away with its table

rows == <<account, mode>>
processVars == <<proc, faults>>
vars == <<runnerVars, rows, processVars, dropped>>

TypeOK ==
    /\ MigrationsTypeOK
    /\ account \in Mode \cup {None} /\ mode \in Mode \cup {None}
    /\ account # None => "accounts" \in tables
    /\ mode # None => "operational_modes" \in tables
    /\ proc \in [Processes -> {"down", "account", "newAccount", "mode", "newMode", "running"}]
    /\ faults \in 0..MaxFaults
    /\ dropped \in BOOLEAN

Init ==
    /\ MigrationsInit
    /\ account = None /\ mode = None
    /\ proc = [p \in Processes |-> "down"]
    /\ faults = 0 /\ dropped = FALSE

\* What a command does to the rows: a table takes its row along.
Migration ==
    /\ Migrate(DownCount)
    /\ account' = IF "accounts" \in tables' THEN account ELSE None
    /\ mode' = IF "operational_modes" \in tables' THEN mode ELSE None
    /\ dropped' = (dropped \/ account' # account \/ mode' # mode)
    /\ UNCHANGED processVars
-----------------------------------------------------------------------------
(* The start of a process. *)

ProcessGoes(p, to) == proc' = [proc EXCEPT ![p] = to]

\* Load, the factories and the first ping: what is refused goes no further.
Start(p, e) ==
    /\ proc[p] = "down"
    /\ Load(e) /\ Builds(p, Loaded(e))
    /\ ProcessGoes(p, "account")
    /\ UNCHANGED <<runnerVars, rows, faults, dropped>>

LoadAccountFirst(p) ==
    /\ proc[p] = "account"
    /\ ProcessGoes(p, IF "accounts" \notin tables THEN "down"
                      ELSE IF account = None THEN "newAccount" ELSE "running")
    /\ UNCHANGED <<runnerVars, rows, faults, dropped>>

LoadAccountAlwaysNew(p) ==
    /\ proc[p] = "account"
    /\ ProcessGoes(p, IF "accounts" \notin tables THEN "down" ELSE "newAccount")
    /\ UNCHANGED <<runnerVars, rows, faults, dropped>>

\* GetActive: a missing row is created, a missing table is an error.
LoadAccount(p) ==
    /\ proc[p] = "account"
    /\ ProcessGoes(p, IF "accounts" \notin tables THEN "down"
                      ELSE IF account = None THEN "newAccount" ELSE "mode")
    /\ UNCHANGED <<runnerVars, rows, faults, dropped>>

\* Save: accounts_single_active_idx refuses a second active account.
SaveAccount(p) ==
    /\ proc[p] = "newAccount"
    /\ IF "accounts" \in tables /\ account = None
       THEN account' = "PAPER" /\ ProcessGoes(p, "mode")
       ELSE ProcessGoes(p, "down") /\ UNCHANGED account
    /\ UNCHANGED <<runnerVars, mode, faults, dropped>>

LoadMode(p) ==
    /\ proc[p] = "mode"
    /\ ProcessGoes(p, IF "operational_modes" \notin tables THEN "down"
                      ELSE IF mode = None THEN "newMode" ELSE "running")
    /\ UNCHANGED <<runnerVars, rows, faults, dropped>>

SaveModeAnyVersion(p) ==
    /\ proc[p] = "newMode"
    /\ IF "operational_modes" \in tables
       THEN mode' = "PAPER" /\ ProcessGoes(p, "running")
       ELSE ProcessGoes(p, "down") /\ UNCHANGED mode
    /\ UNCHANGED <<runnerVars, account, faults, dropped>>

\* Save at version 1 replaces version 0 only: a row that appeared since stays,
\* and the start fails with ErrOptimisticLock.
SaveMode(p) ==
    /\ proc[p] = "newMode"
    /\ IF "operational_modes" \in tables /\ mode = None
       THEN mode' = "PAPER" /\ ProcessGoes(p, "running")
       ELSE ProcessGoes(p, "down") /\ UNCHANGED mode
    /\ UNCHANGED <<runnerVars, account, faults, dropped>>

\* A crash, or an error of the database during the start.
Crash(p) ==
    /\ proc[p] # "down"
    /\ faults < MaxFaults
    /\ faults' = faults + 1
    /\ ProcessGoes(p, "down")
    /\ UNCHANGED <<runnerVars, rows, dropped>>

\* An operator, through the API: both rows in one transaction.
ChangeMode(p, target) ==
    /\ p = "api" /\ proc[p] = "running"
    /\ account # None /\ mode # None
    /\ target # mode /\ CanTransition(mode, target)
    /\ account' = target /\ mode' = target
    /\ UNCHANGED <<runnerVars, processVars, dropped>>

\* A start that has begun.
Bootstrap(p) == LoadAccount(p) \/ SaveAccount(p) \/ LoadMode(p) \/ SaveMode(p)

Next ==
    \/ Migration
    \/ \E p \in Processes :
        \/ \E e \in Environments : Start(p, e)
        \/ Bootstrap(p)
        \/ Crash(p)
        \/ \E target \in Targets : ChangeMode(p, target)

Spec == Init /\ [][Next]_vars

\* A start that has begun runs on, since nothing in it waits.  Nobody owes a
\* start, a command, a crash or a mode change.
FairSpec == Spec /\ \A p \in Processes : WF_vars(Bootstrap(p))
-----------------------------------------------------------------------------
\* The mode on record follows the safety matrix through every restart and
\* every race of two bootstraps; the one thing that forgets it is a down that
\* drops its table.  A kill switch is not undone by a process that starts.
\* (app/lifecycle.go 53-62, operation/queries.go.)
ModeSurvivesRestarts ==
    [][mode' # mode /\ mode # None => mode' = None \/ CanTransition(mode, mode')]_vars

\* A process that runs finds both rows, and they agree, whoever else started,
\* crashed half way or changed the mode meanwhile; unless a down dropped them
\* under it, which bootstrap alone repairs and only at the next start.
\* (app/lifecycle.go 31-71.)
RunningIsBootstrapped ==
    ~ dropped =>
        /\ (\E p \in Processes : proc[p] = "running") => account # None /\ mode # None
        /\ account # None /\ mode # None => account = mode

\* A start begins, and the crashes are over.
Begins(p) == proc[p] = "account" /\ faults = MaxFaults

\* Bootstraps that race, on rows that a crash may have left half made, do not
\* all fail: whenever a process starts, somebody comes to run.  One that starts
\* when both rows are there comes to run itself: "on every subsequent restart
\* both lookups succeed and it does nothing" (app/lifecycle.go 31-33).  Only an
\* incomplete schema and another crash are excused.  The loser of either race,
\* at 47 or 58, fails, and stays down until somebody starts it again.
BootstrapSucceeds ==
    /\ (\E p \in Processes : Begins(p))
         ~> (\E p \in Processes : proc[p] = "running") \/ ~ Complete
    /\ \A p \in Processes :
         Begins(p) /\ account # None /\ mode # None ~> proc[p] = "running" \/ ~ Complete
=============================================================================
