----------------------- MODULE OperationalModeProofs -----------------------
(***************************************************************************)
(* Proofs about OperationalMode, for any number of concurrent requests and *)
(* any bound.  Everything rests on one fact about optimistic locking, which *)
(* is the inductive invariant: a copy in some request's memory is never    *)
(* ahead of its row, and while it carries the row's next version the row   *)
(* has not changed since the copy was made.                                *)
(***************************************************************************)
EXTENDS OperationalMode, TLAPS

\* The copy of the mode row that a mode request will save.
StateCopy(c) ==
    client[c].pc \in {"loadAccount", "commit"} =>
        /\ client[c].state.mode = client[c].req.target
        /\ client[c].state.version <= modes.version + 1
        /\ Saves(modes, client[c].state) =>
               TransitionTo(modes, client[c].state.mode)

\* The copy of the account row that a mode request will save.
AccountCopy(c) ==
    client[c].pc = "commit" => client[c].acct.mode = client[c].state.mode

\* The account row as a fill or a reset loaded it.
LoadedCopy(c) ==
    client[c].pc \in {"fill", "reset"} =>
        /\ client[c].acct.version <= account.version
        /\ client[c].acct.version = account.version =>
               client[c].acct.mode = account.mode
        /\ client[c].pc = "reset" => client[c].acct.mode = "PAPER"

IInv ==
    /\ TypeOK
    /\ ModeMirror
    /\ KillSwitchAudited
    /\ \A c \in Clients : StateCopy(c) /\ AccountCopy(c) /\ LoadedCopy(c)

\* The rows bootstrap leaves, and no request under way.
LEMMA InitIInv == Init => IInv
  BY ConstantsAssumption
  DEF Init, IInv, TypeOK, ModeMirror, KillSwitchAudited, StateCopy, AccountCopy,
      LoadedCopy, State, Account, Client, Idle, Mode

\* What the HTTP handlers and the reconciliation may ask for.
LEMMA RequestType ==
  ASSUME NEW req \in Requests
  PROVE  /\ req.target \in Mode
         /\ req.target = "KILL_SWITCH" => req.by = "killSwitch"
  BY ConstantsAssumption DEF Requests, Request, Mode

\* What is known of the records a request keeps, by the point it has reached.
LEMMA ClientTypes ==
  ASSUME TypeOK, NEW c \in Clients
  PROVE  /\ client[c].pc = "loadAccount" =>
               client[c].req \in Requests /\ client[c].state \in State
         /\ client[c].pc = "commit" =>
               /\ client[c].req \in Requests
               /\ client[c].state \in State
               /\ client[c].acct \in Account
         /\ client[c].pc \in {"fill", "reset"} => client[c].acct \in Account
  <1>1. client[c] \in Client
    BY DEF TypeOK
  <1>2. QED
    BY <1>1 DEF Client, Idle

\* A client without a request is a client.
LEMMA IdleType == Idle \in Client
  BY DEF Client

\* ReserveMargin either leaves the account as it is or takes one unit of
\* margin and the next version; it never touches the mode.
LEMMA ReserveMarginResult ==
  ASSUME NEW acct \in Account
  PROVE  /\ ReserveMargin(acct, 1) \in Account
         /\ ReserveMargin(acct, 1).mode = acct.mode
         /\ ReserveMargin(acct, 1).version \in {acct.version, acct.version + 1}
  <1>1. CASE 1 > acct.available
    BY <1>1 DEF ReserveMargin, Account
  <1>2. CASE ~(1 > acct.available)
    <2>1. acct.available - 1 \in Nat
      BY <1>2 DEF Account
    <2>2. QED
      BY <1>2, <2>1 DEF ReserveMargin, Account
  <1>3. QED
    BY <1>1, <1>2

\* Every request leaves rows and copies of their types.
LEMMA TypeStep == TypeOK /\ [Next]_vars => TypeOK'
  <1> SUFFICES ASSUME TypeOK, [Next]_vars PROVE TypeOK'
    OBVIOUS
  <1>1. ASSUME NEW c \in Clients, NEW req \in Requests, LoadState(c, req)
        PROVE  TypeOK'
    <2>1. [pc |-> "loadAccount", req |-> req,
           state |-> [mode |-> req.target, version |-> modes.version + 1]] \in Client
      BY RequestType DEF TypeOK, Client, State
    <2>2. QED
      BY <1>1, <2>1 DEF LoadState, TypeOK
  <1>2. ASSUME NEW c \in Clients, LoadAccount(c)
        PROVE  TypeOK'
    <2>1. [pc |-> "commit", req |-> client[c].req, state |-> client[c].state,
           acct |-> [mode |-> client[c].state.mode, version |-> account.version + 1,
                     available |-> account.available]] \in Client
      BY <1>2, ClientTypes DEF LoadAccount, TypeOK, Client, State, Account
    <2>2. QED
      BY <1>2, <2>1 DEF LoadAccount, TypeOK
  <1>3. ASSUME NEW c \in Clients, Commit(c)
        PROVE  TypeOK'
    <2>1. /\ client[c].state \in State
          /\ client[c].acct \in Account
          /\ client[c].state.version \in Nat
      BY <1>3, ClientTypes DEF Commit, State
    <2>2. QED
      BY <1>3, <2>1, IdleType DEF Commit, TypeOK
  <1>4. ASSUME NEW c \in Clients, LoadForFill(c) \/ LoadForReset(c)
        PROVE  TypeOK'
    <2>1. /\ [pc |-> "fill", acct |-> account] \in Client
          /\ [pc |-> "reset", acct |-> account] \in Client
      BY DEF TypeOK, Client
    <2>2. QED
      BY <1>4, <2>1 DEF LoadForFill, LoadForReset, TypeOK
  <1>5. ASSUME NEW c \in Clients, SaveFill(c)
        PROVE  TypeOK'
    <2>1. ReserveMargin(client[c].acct, 1) \in Account
      BY <1>5, ClientTypes, ReserveMarginResult DEF SaveFill
    <2>2. QED
      BY <1>5, <2>1, IdleType DEF SaveFill, TypeOK
  <1>6. ASSUME NEW c \in Clients, SaveReset(c)
        PROVE  TypeOK'
    <2>1. [mode |-> "PAPER", version |-> client[c].acct.version + 1,
           available |-> StartingBalance] \in Account
      BY <1>6, ClientTypes, ConstantsAssumption DEF SaveReset, Account, Mode
    <2>2. QED
      BY <1>6, <2>1, IdleType DEF SaveReset, TypeOK
  <1>7. ASSUME NEW c \in Clients, CommitConflict(c) \/ Abandon(c)
        PROVE  TypeOK'
    BY <1>7, IdleType DEF CommitConflict, Abandon, TypeOK
  <1>8. CASE UNCHANGED vars
    BY <1>8 DEF vars, TypeOK
  <1>9. QED
    BY <1>1, <1>2, <1>3, <1>4, <1>5, <1>6, <1>7, <1>8 DEF Next

\* Every statement of every request keeps the invariant: a save that the
\* optimistic lock admits starts from the current row.
LEMMA InvStep == IInv /\ [Next]_vars => IInv'
  <1> SUFFICES ASSUME IInv, [Next]_vars PROVE IInv'
    OBVIOUS
  <1> USE DEF ModeMirror, KillSwitchAudited, StateCopy, AccountCopy, LoadedCopy
  <1>t. TypeOK /\ TypeOK'
    BY TypeStep DEF IInv
  <1>1. ASSUME NEW c \in Clients, NEW req \in Requests, LoadState(c, req)
        PROVE  IInv'
    BY <1>1, <1>t DEF IInv, LoadState, TypeOK, State, Saves, Idle
  <1>2. ASSUME NEW c \in Clients, LoadAccount(c)
        PROVE  IInv'
    BY <1>2, <1>t DEF IInv, LoadAccount, TypeOK, Saves
  <1>3. ASSUME NEW c \in Clients, Commit(c)
        PROVE  IInv'
    <2>1. /\ client[c].state \in State /\ client[c].acct \in Account
          /\ client[c].req \in Requests
      BY <1>3, <1>t, ClientTypes DEF Commit
    <2>2. /\ modes' = client[c].state /\ account' = client[c].acct
          /\ modes'.version = modes.version + 1
          /\ account'.version = account.version + 1
          /\ account'.mode = modes'.mode
      BY <1>3, <1>t, <2>1 DEF IInv, Commit, Saves, TypeOK, State, Account
    <2>3. KillSwitchAudited'
      BY <1>3, <1>t, <2>1, <2>2, RequestType DEF IInv, Commit, TypeOK, State
    <2>4. ASSUME NEW d \in Clients
          PROVE  (StateCopy(d) /\ AccountCopy(d) /\ LoadedCopy(d))'
      <3>1. CASE d = c
        BY <1>3, <1>t, <3>1 DEF Commit, Idle, TypeOK
      <3>2. CASE d # c
        <4>1. client'[d] = client[d]
          BY <1>3, <1>t, <3>2 DEF Commit, TypeOK
        <4>2. /\ client[d].pc \in {"loadAccount", "commit"} => client[d].state \in State
              /\ client[d].pc \in {"fill", "reset"} => client[d].acct \in Account
          BY <1>t, ClientTypes
        <4>3. QED
          BY <1>t, <2>2, <4>1, <4>2 DEF IInv, TypeOK, State, Account, Saves
      <3>3. QED
        BY <3>1, <3>2
    <2>5. QED
      BY <1>t, <2>2, <2>3, <2>4 DEF IInv
  <1>4. ASSUME NEW c \in Clients, LoadForFill(c) \/ LoadForReset(c)
        PROVE  IInv'
    BY <1>4, <1>t DEF IInv, LoadForFill, LoadForReset, TypeOK, Account
  <1>5. ASSUME NEW c \in Clients, SaveFill(c) \/ SaveReset(c)
        PROVE  IInv'
    <2>1. client[c].acct \in Account
      BY <1>5, <1>t, ClientTypes DEF SaveFill, SaveReset
    <2>2. /\ account' = account \/ account'.version = account.version + 1
          /\ account'.mode = account.mode
      <3>1. CASE SaveFill(c)
        BY <1>t, <2>1, <3>1, ReserveMarginResult
        DEF IInv, SaveFill, Saves, TypeOK, Account
      <3>2. CASE SaveReset(c)
        BY <1>t, <2>1, <3>2 DEF IInv, SaveReset, Saves, TypeOK, Account
      <3>3. QED
        BY <1>5, <3>1, <3>2
    <2>3. client' = [client EXCEPT ![c] = Idle] /\ UNCHANGED <<modes, incidents>>
      BY <1>5 DEF SaveFill, SaveReset
    <2>4. ASSUME NEW d \in Clients
          PROVE  (StateCopy(d) /\ AccountCopy(d) /\ LoadedCopy(d))'
      <3>1. CASE d = c
        BY <1>t, <2>3, <3>1 DEF Idle, TypeOK
      <3>2. CASE d # c
        <4>1. client'[d] = client[d]
          BY <1>t, <2>3, <3>2 DEF TypeOK
        <4>2. client[d].pc \in {"fill", "reset"} => client[d].acct \in Account
          BY <1>t, ClientTypes
        <4>3. QED
          BY <1>t, <2>2, <2>3, <4>1, <4>2 DEF IInv, TypeOK, Account, Saves
      <3>3. QED
        BY <3>1, <3>2
    <2>5. QED
      BY <1>t, <2>2, <2>3, <2>4 DEF IInv
  <1>6. ASSUME NEW c \in Clients, CommitConflict(c) \/ Abandon(c)
        PROVE  IInv'
    BY <1>6, <1>t DEF IInv, CommitConflict, Abandon, TypeOK, Idle, Saves
  <1>7. CASE UNCHANGED vars
    BY <1>7, <1>t DEF vars, IInv, Saves, TransitionTo
  <1>8. QED
    BY <1>1, <1>2, <1>3, <1>4, <1>5, <1>6, <1>7 DEF Next

\* The type invariant, for every number of clients and every bound.
THEOREM TypeCorrect == Spec => []TypeOK
  <1>1. IInv => TypeOK
    BY DEF IInv
  <1>2. QED
    BY InitIInv, InvStep, <1>1, PTL DEF Spec

\* The copy of the mode in the account row never departs from the mode row,
\* however the saves of mode changes, kill switches, fills and paper resets
\* interleave: internal/infrastructure/database/account/queries.go replaces
\* the row only at the version that was read.
THEOREM MirrorHolds == Spec => []ModeMirror
  <1>1. IInv => ModeMirror
    BY DEF IInv
  <1>2. QED
    BY InitIInv, InvStep, <1>1, PTL DEF Spec

\* An active kill switch always has its incident and outbox row
\* (activate_kill_switch.go commits them with the two rows).
THEOREM AuditHolds == Spec => []KillSwitchAudited
  <1>1. IInv => KillSwitchAudited
    BY DEF IInv
  <1>2. QED
    BY InitIInv, InvStep, <1>1, PTL DEF Spec

\* The account row's mode implements the atomic mode machine: every step of
\* OperationalMode is a legal move of it or leaves it alone.
THEOREM GateImplementsModeMachine == Spec => GateFollowsMatrix
  <1>1. Init => Gate!Init
    BY DEF Init, Gate!Init
  <1>2. IInv /\ IInv' /\ [Next]_vars => [Gate!Next]_(account.mode)
    <2> SUFFICES ASSUME IInv, IInv', [Next]_vars
                 PROVE  [Gate!Next]_(account.mode)
      OBVIOUS
    <2>t. TypeOK /\ ModeMirror /\ ModeMirror'
      BY DEF IInv
    <2>1. ASSUME NEW c \in Clients, Commit(c)
          PROVE  [Gate!Next]_(account.mode)
      <3>1. client[c].req \in Requests
        BY <2>1, <2>t, ClientTypes DEF Commit
      <3>2. /\ modes'.mode = client[c].req.target
            /\ TransitionTo(modes, client[c].req.target)
        BY <2>1 DEF IInv, StateCopy, Commit
      <3>3. QED
        BY <2>t, <3>1, <3>2, RequestType
        DEF ModeMirror, TransitionTo, Gate!Next, Gate!Move, Gate!CanTransition,
            CanTransition, Gate!Mode, Mode, Gate!allowedTransitions,
            allowedTransitions
    <2>2. ASSUME ~\E c \in Clients : Commit(c)
          PROVE  account'.mode = account.mode
      <3>1. UNCHANGED modes
        BY <2>2 DEF Next, vars, LoadState, LoadAccount, CommitConflict, LoadForFill,
                    SaveFill, LoadForReset, SaveReset, Abandon
      <3>2. QED
        BY <2>t, <3>1 DEF ModeMirror
    <2>3. QED
      BY <2>1, <2>2
  <1>3. QED
    BY <1>1, <1>2, InitIInv, InvStep, PTL DEF Spec, GateFollowsMatrix, Gate!Spec
=============================================================================
