-------------------------- MODULE OperationalMode --------------------------
(***************************************************************************)
(* The operational mode and the account row that caches it.                *)
(*                                                                         *)
(* The mode lives in the singleton row operational_modes; a copy in the    *)
(* row of the active account is what ExecuteApprovedOrder reads before it  *)
(* opens a position.  Every writer reads its rows, changes them in memory  *)
(* and saves them in one transaction, and a save replaces a row only while *)
(* its version is the one that was read.  The writers, all concurrent:     *)
(*                                                                         *)
(*  - ChangeOperationalMode, called by the pause, resume and close-only    *)
(*    endpoints, ActivateKillSwitch, and ReconcileBrokerState's            *)
(*    forceCloseOnly, which runs in two processes: both rows;              *)
(*  - ExecuteApprovedOrder, booking the margin of a fill: the account row  *)
(*    as it was when the execution started, mode included;                 *)
(*  - ResetPaperState: a fresh PAPER account in place of the row.          *)
(*                                                                         *)
(* A step is one statement or transaction at the database.  What a crash,  *)
(* a lost connection or a client that disconnects does to a request is     *)
(* Abandon.  Money is counted in units of margin.                          *)
(***************************************************************************)
EXTENDS Modes, Naturals

CONSTANTS
    Clients,         \* the requests that can be in flight together
    HomeMode,        \* cfg.Broker.Mode, the mode "resume" asks for
    StartingBalance, \* the available balance of a fresh paper account
    MaxVersion       \* bound: the last version of the account row

ASSUME ConstantsAssumption ==
    /\ HomeMode \in {"PAPER", "TESTNET", "REAL"}
    /\ StartingBalance \in Nat
    /\ MaxVersion \in Nat

VARIABLES
    modes,     \* row operational_modes: [mode, version]
    account,   \* row of the active account: [mode, version, available]
    incidents, \* versions of modes at which a KILL_SWITCH incident and its
               \* KillSwitchActivated outbox row were written
    client     \* client[c]: the request c is serving, and what it has in memory

vars == <<modes, account, incidents, client>>

State   == [mode : Mode, version : Nat]
Account == [mode : Mode, version : Nat, available : Nat]

\* The requests that change the mode: the pause, resume and close-only
\* endpoints, the kill-switch endpoint, and reconciliation's forced move.
Request(by, target) == [by |-> by, target |-> target]
Requests ==
    {Request("changeMode", target) : target \in {"PAUSED", HomeMode, "CLOSE_ONLY"}}
    \cup {Request("killSwitch", "KILL_SWITCH"), Request("reconcile", "CLOSE_ONLY")}

Idle == [pc |-> "idle"]
Client ==
    {Idle}
    \cup [pc : {"loadAccount"}, req : Requests, state : State]
    \cup [pc : {"commit"}, req : Requests, state : State, acct : Account]
    \cup [pc : {"fill", "reset"}, acct : Account]

TypeOK ==
    /\ modes \in State
    /\ account \in Account
    /\ incidents \subseteq Nat
    /\ client \in [Clients -> Client]
-----------------------------------------------------------------------------
\* bootstrap has run: NewState and NewPaperAccount.
Init ==
    /\ modes = [mode |-> "PAPER", version |-> 1]
    /\ account = [mode |-> "PAPER", version |-> 1, available |-> StartingBalance]
    /\ incidents = {}
    /\ client = [c \in Clients |-> Idle]

\* Repository.Save: the row is replaced iff nobody saved it since it was read.
SavesAnyVersion(row, obj) == TRUE
Saves(row, obj) == row.version = obj.version - 1

\* State.TransitionTo.  No caller passes the token that REAL requires, and
\* every caller passes an actor and a reason.
TransitionTo(state, target) == CanTransition(state.mode, target) /\ target # "REAL"

\* forceCloseOnly leaves the modes that are at least as strict alone.
Applies(req) ==
    req.by = "reconcile" => modes.mode \notin {"CLOSE_ONLY", "KILL_SWITCH"}

\* modes.Get, then TransitionTo on the copy: a refused transition ends the
\* request with an error and no effect.
LoadState(c, req) ==
    /\ client[c] = Idle
    /\ Applies(req)
    /\ TransitionTo(modes, req.target)
    /\ client' = [client EXCEPT ![c] =
           [pc |-> "loadAccount", req |-> req,
            state |-> [mode |-> req.target, version |-> modes.version + 1]]]
    /\ UNCHANGED <<modes, account, incidents>>

\* accounts.GetActive, then SetOperationalMode on the copy.
LoadAccount(c) ==
    /\ client[c].pc = "loadAccount"
    /\ client' = [client EXCEPT ![c] =
           [pc |-> "commit", req |-> client[c].req, state |-> client[c].state,
            acct |-> [mode |-> client[c].state.mode,
                      version |-> account.version + 1,
                      available |-> account.available]]]
    /\ UNCHANGED <<modes, account, incidents>>

CommitWithoutIncident(c) ==
    /\ client[c].pc = "commit"
    /\ Saves(modes, client[c].state)
    /\ Saves(account, client[c].acct)
    /\ account.version < MaxVersion
    /\ modes' = client[c].state
    /\ account' = client[c].acct
    /\ UNCHANGED incidents
    /\ client' = [client EXCEPT ![c] = Idle]

\* The transaction that ends the request: both rows, and for the kill switch
\* the incident and the outbox row as well.
Commit(c) ==
    /\ client[c].pc = "commit"
    /\ Saves(modes, client[c].state)
    /\ Saves(account, client[c].acct)
    /\ account.version < MaxVersion
    /\ modes' = client[c].state
    /\ account' = client[c].acct
    /\ incidents' = IF client[c].req.by = "killSwitch"
                    THEN incidents \cup {client[c].state.version} ELSE incidents
    /\ client' = [client EXCEPT ![c] = Idle]

\* ErrOptimisticLock: the transaction rolls back and the request reports it.
CommitConflict(c) ==
    /\ client[c].pc = "commit"
    /\ ~(Saves(modes, client[c].state) /\ Saves(account, client[c].acct))
    /\ client' = [client EXCEPT ![c] = Idle]
    /\ UNCHANGED <<modes, account, incidents>>
-----------------------------------------------------------------------------
\* ExecuteApprovedOrder loads the account once, when it starts.
LoadForFill(c) ==
    /\ client[c] = Idle
    /\ AllowsNewEntries(account.mode)
    /\ client' = [client EXCEPT ![c] = [pc |-> "fill", acct |-> account]]
    /\ UNCHANGED <<modes, account, incidents>>

\* Account.ReserveMargin: without enough available balance the account, its
\* version included, stays as it is.
ReserveMargin(acct, amount) ==
    IF amount > acct.available THEN acct
    ELSE [mode |-> acct.mode, version |-> acct.version + 1,
          available |-> acct.available - amount]

\* The account part of the transaction that books a fill.
SaveFill(c) ==
    /\ client[c].pc = "fill"
    /\ account.version < MaxVersion
    /\ LET acct == ReserveMargin(client[c].acct, 1)
       IN  account' = IF Saves(account, acct) THEN acct ELSE account
    /\ client' = [client EXCEPT ![c] = Idle]
    /\ UNCHANGED <<modes, incidents>>

\* ResetPaperState checks the mode of the row it loads ...
LoadForResetAnyMode(c) ==
    /\ client[c] = Idle
    /\ client' = [client EXCEPT ![c] = [pc |-> "reset", acct |-> account]]
    /\ UNCHANGED <<modes, account, incidents>>

LoadForReset(c) ==
    /\ client[c] = Idle
    /\ account.mode = "PAPER"
    /\ client' = [client EXCEPT ![c] = [pc |-> "reset", acct |-> account]]
    /\ UNCHANGED <<modes, account, incidents>>

\* ... and saves a NewPaperAccount under the next version.
SaveReset(c) ==
    /\ client[c].pc = "reset"
    /\ account.version < MaxVersion
    /\ LET fresh == [mode |-> "PAPER", version |-> client[c].acct.version + 1,
                     available |-> StartingBalance]
       IN  account' = IF Saves(account, fresh) THEN fresh ELSE account
    /\ client' = [client EXCEPT ![c] = Idle]
    /\ UNCHANGED <<modes, incidents>>

\* The request dies: process crash, database error, cancelled context.
Abandon(c) ==
    /\ client[c] # Idle
    /\ client' = [client EXCEPT ![c] = Idle]
    /\ UNCHANGED <<modes, account, incidents>>

Next ==
    \E c \in Clients :
        \/ \E req \in Requests : LoadState(c, req)
        \/ LoadAccount(c)
        \/ Commit(c)
        \/ CommitConflict(c)
        \/ LoadForFill(c)
        \/ SaveFill(c)
        \/ LoadForReset(c)
        \/ SaveReset(c)
        \/ Abandon(c)

Spec == Init /\ [][Next]_vars
-----------------------------------------------------------------------------
\* The mode in the account row, which is what gates new entries, is always
\* the mode of operational_modes: no writer of the account row alone, holding
\* a copy from before a mode change, can ever bring an old mode back.
ModeMirror == account.mode = modes.mode

\* Whenever the kill switch is on, the incident and the outbox row of its
\* latest activation exist: no other request moves the system into
\* KILL_SWITCH, and an activation that lost a race left nothing behind.
KillSwitchAudited ==
    /\ modes.mode = "KILL_SWITCH" => modes.version \in incidents
    /\ \A v \in incidents : v <= modes.version

\* The gate that ExecuteApprovedOrder reads behaves as the abstract mode
\* machine, in whatever order requests, fills and resets commit: it follows
\* the safety matrix, leaves KILL_SWITCH only for PAUSED and is never REAL.
Gate == INSTANCE ModeMachine WITH mode <- account.mode
GateFollowsMatrix == Gate!Spec
=============================================================================
