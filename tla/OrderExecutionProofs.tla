------------------------ MODULE OrderExecutionProofs ------------------------
(***************************************************************************)
(* Proofs about OrderExecution, for any decisions, margins, number of      *)
(* concurrent executions, either broker and any bound.                     *)
(*                                                                         *)
(* The inductive invariant says who owns an order row: from the insert of  *)
(* the PENDING row on, one execution at most is working on a decision, and *)
(* what it holds in memory tells what the row can be; and that a copy of   *)
(* the account with the version of the row is the row.                     *)
(***************************************************************************)
EXTENDS OrderExecution, ArithmeticLemmas, TLAPS

\* The steps of an execution after it inserted the order row.
Owning == {"place", "lookup", "fail", "unknown", "incident", "submit", "book", "stop"}

\* The rows that can exist: the version says how far the order has come.
Row(status, version) == [status |-> status, version |-> version]
Rows == {NoOrder, NewPendingOrder, Row("SUBMITTED", 2), Row("FAILED", 2),
         Row("FILLED", 3), Row("CANCELLED", 3)}

\* The rows an order can have once it is SUBMITTED.
Submitted == {Row("SUBMITTED", 2), Row("FILLED", 3), Row("CANCELLED", 3)}

RowsOK == \A d \in Decisions : orders[d] \in Rows

\* What an execution holds of the order, by the point it has reached.
Holds(e) ==
    /\ exec[e].pc \in Owning => orders[exec[e].d] # NoOrder
    /\ exec[e].pc \in {"place", "lookup", "fail", "unknown", "submit"} =>
           exec[e].order = NewPendingOrder
    /\ exec[e].pc = "book" => /\ exec[e].order = Row("SUBMITTED", 2)
                              /\ orders[exec[e].d] \in Submitted
    /\ exec[e].pc = "place" => /\ orders[exec[e].d] = NewPendingOrder
                               /\ placements[exec[e].d] = 0
    /\ exec[e].pc = "lookup" /\ Venue = "PAPER" => placements[exec[e].d] = 0
    /\ exec[e].pc = "fail" => placements[exec[e].d] = 0

\* What it holds of the account.
AccountCopy(e) ==
    exec[e].pc \in Steps =>
        /\ exec[e].acct.version <= account.version
        /\ exec[e].acct.version = account.version => exec[e].acct = account
        /\ AllowsNewEntries(exec[e].acct.mode)

SoleOwner ==
    \A e, f \in Executors :
        e # f /\ exec[e].pc \in Owning /\ exec[f].pc \in Owning =>
            exec[e].d # exec[f].d

\* An exchange, unlike the simulator, never forgets an order.
VenueKeeps ==
    Venue = "BINANCE" => \A d \in Decisions : venue[d] = "NONE" => placements[d] = 0

\* What a reset holds: rows that existed, and the open positions that belong
\* to the account row it read.
ResetHolds ==
    /\ reset # Idle => Venue = "PAPER"
    /\ reset.pc \in {"positions", "orders", "commit"} =>
           /\ reset.acct.mode = "PAPER"
           /\ reset.acct.version <= account.version
           /\ reset.acct.version = account.version => reset.acct = account
    /\ reset.pc \in {"orders", "commit"} /\ reset.acct.version = account.version =>
           reset.open = {d \in Decisions : positions[d] = "OPEN"}
    /\ reset.pc = "commit" => \A d \in Decisions :
           /\ reset.rows[d] \in Rows
           /\ reset.rows[d] = Row("SUBMITTED", 2) => orders[d] \in Submitted

IInv ==
    /\ TypeOK
    /\ RowsOK
    /\ \A e \in Executors : Holds(e) /\ AccountCopy(e)
    /\ SoleOwner
    /\ VenueKeeps
    /\ ResetHolds
    /\ AtMostOnePlacement
    /\ PlacedIsOnRecord
    /\ EventsMatchRows
-----------------------------------------------------------------------------
\* A bootstrapped account, and no order anywhere.
LEMMA InitIInv == Init => IInv
  <1> SUFFICES ASSUME Init PROVE IInv
    OBVIOUS
  <1>1. TypeOK
    BY ExecutionAssumption
    DEF Init, TypeOK, Account, Order, NoOrder, Execution, Reset, Mode, Idle
  <1>2. QED
    BY <1>1
    DEF Init, IInv, RowsOK, Rows, Holds, AccountCopy, Owning, Steps, SoleOwner,
        VenueKeeps, ResetHolds, AtMostOnePlacement, PlacedIsOnRecord,
        EventsMatchRows, Idle, NoOrder

\* The fields of an execution that is running.
LEMMA ExecTypes ==
  ASSUME TypeOK, NEW e \in Executors, exec[e].pc \in Steps
  PROVE  /\ exec[e].d \in Decisions
         /\ exec[e].acct \in Account
         /\ exec[e].order \in Order
         /\ exec[e].reply \in {"NONE", "NEW", "FILLED"}
  <1>1. exec[e] \in Execution
    BY DEF TypeOK
  <1>2. QED
    BY <1>1 DEF Execution, Idle, Steps

\* An execution that continues keeps its decision and its account.
LEMMA ContinueResult ==
  ASSUME TypeOK, NEW e \in Executors, exec[e].pc \in Steps,
         NEW pc \in Steps, NEW order \in Order,
         NEW reply \in {"NONE", "NEW", "FILLED"},
         Continue(e, pc, order, reply)
  PROVE  /\ exec' \in [Executors -> Execution]
         /\ exec'[e].pc = pc
         /\ exec'[e].d = exec[e].d
         /\ exec'[e].acct = exec[e].acct
         /\ exec'[e].order = order
         /\ exec'[e].reply = reply
         /\ \A f \in Executors \ {e} : exec'[f] = exec[f]
  <1> DEFINE x == [pc |-> pc, d |-> exec[e].d, acct |-> exec[e].acct,
                   order |-> order, reply |-> reply]
  <1>1. x \in Execution
    BY ExecTypes DEF Execution
  <1>2. exec' = [exec EXCEPT ![e] = x] /\ exec \in [Executors -> Execution]
    BY DEF Continue, TypeOK
  <1>3. exec' \in [Executors -> Execution] /\ exec'[e] = x
        /\ \A f \in Executors \ {e} : exec'[f] = exec[f]
    BY <1>1, <1>2
  <1>4. QED
    BY <1>3

\* An execution that returns leaves the others where they are.
LEMMA ReturnResult ==
  ASSUME TypeOK, NEW e \in Executors, Return(e)
  PROVE  /\ exec' \in [Executors -> Execution]
         /\ exec'[e] = Idle
         /\ \A f \in Executors \ {e} : exec'[f] = exec[f]
  <1>1. Idle \in Execution
    BY DEF Execution
  <1>2. QED
    BY <1>1 DEF Return, TypeOK

\* A row that is there is an order.
LEMMA RowsAreOrders == Rows \subseteq Order
  BY DEF Rows, Order, Status, Row, NoOrder, NewPendingOrder

\* The transitions the code asks for, on the rows that exist.
LEMMA Transitions ==
  /\ Transition(NewPendingOrder, "SUBMITTED") = Row("SUBMITTED", 2)
  /\ Transition(NewPendingOrder, "FAILED") = Row("FAILED", 2)
  /\ Transition(NewPendingOrder, "UNKNOWN") = NewPendingOrder
  /\ Transition(Row("SUBMITTED", 2), "FILLED") = Row("FILLED", 3)
  /\ Transition(Row("SUBMITTED", 2), "CANCELLED") = Row("CANCELLED", 3)
  /\ \A o \in Rows : <<o.status, "CANCELLED">> \in allowedStatusTransitions =>
                       o = Row("SUBMITTED", 2)
  BY DEF Transition, NewPendingOrder, NoOrder, Row, Rows, allowedStatusTransitions

\* A row is replaced only by the next one of its history.
LEMMA RowSaves ==
  ASSUME NEW o \in Rows
  PROVE  /\ Saves(o, Row("SUBMITTED", 2)) <=> o = NewPendingOrder
         /\ Saves(o, Row("FAILED", 2)) <=> o = NewPendingOrder
         /\ Saves(o, NewPendingOrder) <=> o = NoOrder
         /\ Saves(o, Row("FILLED", 3)) <=> o \in {Row("SUBMITTED", 2), Row("FAILED", 2)}
         /\ Saves(o, Row("CANCELLED", 3)) <=> o \in {Row("SUBMITTED", 2), Row("FAILED", 2)}
  BY DEF Saves, Rows, Row, NoOrder, NewPendingOrder
-----------------------------------------------------------------------------
(* One lemma per action: the type invariant first, then the rest. *)

\* An execution reads the account, under a mode that allows entries.
LEMMA LoadStep ==
  ASSUME IInv, NEW e \in Executors, NEW d \in Decisions, Load(e, d)
  PROVE  IInv'
  <1> DEFINE x == [pc |-> "check", d |-> d, acct |-> account, order |-> NoOrder,
                   reply |-> "NONE"]
  <1>1. x \in Execution
    BY DEF IInv, TypeOK, Execution, Steps, Order, NoOrder
  <1>2. /\ exec' \in [Executors -> Execution]
        /\ exec'[e] = x
        /\ \A f \in Executors \ {e} : exec'[f] = exec[f]
    BY <1>1 DEF IInv, TypeOK, Load
  <1>3. TypeOK'
    BY <1>2 DEF IInv, TypeOK, Load, broker
  <1>4. \A f \in Executors : Holds(f)' /\ AccountCopy(f)'
    BY <1>2 DEF IInv, TypeOK, Account, Load, broker, Holds, AccountCopy, Owning
  <1>5. QED
    BY <1>2, <1>3, <1>4
    DEF IInv, Load, broker, RowsOK, SoleOwner, Owning, VenueKeeps, ResetHolds,
        AtMostOnePlacement, PlacedIsOnRecord, EventsMatchRows

\* Whatever ends an execution without touching rows or broker.
LEMMA ReturnStep ==
  ASSUME IInv, NEW e \in Executors, Return(e), keys' \subseteq Decisions,
         incidents' \subseteq Decisions, stops' \subseteq Decisions,
         UNCHANGED <<account, orders, positions, outbox, venue, seen, placements, reset>>
  PROVE  IInv'
  <1>1. /\ exec' \in [Executors -> Execution]
        /\ exec'[e] = Idle
        /\ \A f \in Executors \ {e} : exec'[f] = exec[f]
    BY ReturnResult DEF IInv
  <1>2. TypeOK'
    BY <1>1 DEF IInv, TypeOK
  <1>3. \A f \in Executors : Holds(f)' /\ AccountCopy(f)'
    BY <1>1 DEF IInv, Holds, AccountCopy, Owning, Steps, Idle
  <1>4. QED
    BY <1>1, <1>2, <1>3
    DEF IInv, RowsOK, SoleOwner, Owning, Idle, VenueKeeps, ResetHolds,
        AtMostOnePlacement, PlacedIsOnRecord, EventsMatchRows

\* A step that only moves an execution to its next call.
LEMMA ContinueStep ==
  ASSUME IInv, NEW e \in Executors, exec[e].pc \in Steps,
         NEW pc \in Steps, NEW order \in Order,
         NEW reply \in {"NONE", "NEW", "FILLED"},
         Continue(e, pc, order, reply), Holds(e)',
         pc \in Owning => exec[e].pc \in Owning,
         keys' \subseteq Decisions, incidents' \subseteq Decisions, stops' \subseteq Decisions,
         UNCHANGED <<account, orders, positions, outbox, venue, seen, placements, reset>>
  PROVE  IInv'
  <1>1. /\ exec' \in [Executors -> Execution]
        /\ exec'[e].pc = pc
        /\ exec'[e].d = exec[e].d
        /\ exec'[e].acct = exec[e].acct
        /\ \A f \in Executors \ {e} : exec'[f] = exec[f]
    BY ContinueResult DEF IInv
  <1>2. TypeOK'
    BY <1>1 DEF IInv, TypeOK
  <1>3. \A f \in Executors : Holds(f)' /\ AccountCopy(f)'
    BY <1>1 DEF IInv, Holds, AccountCopy
  <1>4. SoleOwner'
    BY <1>1 DEF IInv, SoleOwner
  <1>5. QED
    BY <1>2, <1>3, <1>4
    DEF IInv, RowsOK, VenueKeeps, ResetHolds, AtMostOnePlacement, PlacedIsOnRecord,
        EventsMatchRows

\* GetByClientOrderID: the decision has no order yet, or the execution returns.
LEMMA CheckExistingStep ==
  ASSUME IInv, NEW e \in Executors, CheckExisting(e)
  PROVE  IInv'
  <1>1. CASE Goto(e, "reserve")
    <2>1. exec[e].pc \in Steps /\ exec[e].pc \notin Owning
      BY DEF CheckExisting, At, Steps, Owning
    <2>2. Holds(e)'
      BY <1>1, <2>1, ExecTypes, ContinueResult DEF IInv, Goto, Holds, Owning, Steps
    <2>3. QED
      BY <1>1, <2>1, <2>2, ExecTypes, ContinueStep
      DEF IInv, TypeOK, CheckExisting, Goto, Owning, Steps, broker
  <1>2. CASE Return(e)
    BY <1>2, ReturnStep DEF IInv, TypeOK, CheckExisting, broker
  <1>3. QED
    BY <1>1, <1>2 DEF CheckExisting

\* The idempotency key is reserved, or the execution gives up.
LEMMA ReserveStep ==
  ASSUME IInv, NEW e \in Executors, Reserve(e)
  PROVE  IInv'
  <1>1. exec[e].pc \in Steps /\ exec[e].pc \notin Owning /\ keys' \subseteq Decisions
    BY ExecTypes DEF IInv, TypeOK, Reserve, At, Steps, Owning
  <1>2. CASE Goto(e, "persist")
    <2>2. Holds(e)'
      BY <1>1, <1>2, ExecTypes, ContinueResult DEF IInv, Goto, Holds, Owning, Steps
    <2>3. QED
      BY <1>1, <1>2, <2>2, ExecTypes, ContinueStep
      DEF IInv, TypeOK, Reserve, Goto, Owning, Steps, broker
  <1>3. CASE Return(e)
    BY <1>1, <1>3, ReturnStep DEF IInv, TypeOK, Reserve, broker
  <1>4. QED
    BY <1>2, <1>3 DEF Reserve

\* A key expires under an execution that relies on it.
LEMMA ExpireKeyStep ==
  ASSUME IInv, NEW d \in Decisions, ExpireKey(d)
  PROVE  IInv'
  BY DEF IInv, ExpireKey, broker, TypeOK, RowsOK, Holds, AccountCopy, SoleOwner, VenueKeeps,
         ResetHolds, AtMostOnePlacement, PlacedIsOnRecord, EventsMatchRows

\* A step about one decision does not disturb the executions of the others.
LEMMA OthersHold ==
  ASSUME IInv, NEW e \in Executors, NEW d \in Decisions,
         \A f \in Executors \ {e} : exec[f].pc \in Owning => exec[f].d # d,
         \A f \in Executors \ {e} : exec'[f] = exec[f],
         \A c \in Decisions \ {d} : orders'[c] = orders[c] /\ placements'[c] = placements[c]
  PROVE  \A f \in Executors \ {e} : Holds(f)'
  <1> TAKE f \in Executors \ {e}
  <1>1. exec[f].pc \in Owning => exec[f].d \in Decisions \ {d}
    BY ExecTypes DEF IInv, Owning, Steps
  <1>2. exec[f].pc \in Owning =>
          /\ orders'[exec[f].d] = orders[exec[f].d]
          /\ placements'[exec[f].d] = placements[exec[f].d]
    BY <1>1
  <1>3. Holds(f) /\ exec'[f] = exec[f]
    BY DEF IInv
  <1>4. QED
    BY <1>2, <1>3 DEF Holds, Owning

\* The order row goes in: the unique index on the client order id makes this
\* execution the only one past this point.
LEMMA PersistStep ==
  ASSUME IInv, NEW e \in Executors, Persist(e)
  PROVE  IInv'
  <1> DEFINE d == exec[e].d
  <1>1. exec[e].pc \in Steps /\ exec[e].pc \notin Owning /\ d \in Decisions
    BY ExecTypes DEF IInv, Persist, At, Steps, Owning
  <1>2. CASE orders[d] # NoOrder
    BY <1>2, ReturnStep DEF IInv, TypeOK, Persist, broker
  <1>3. CASE orders[d] = NoOrder
    <2>1. /\ orders' = [orders EXCEPT ![d] = NewPendingOrder]
          /\ outbox' = outbox \cup {<<"OrderCreated", d>>}
          /\ Continue(e, "place", NewPendingOrder, "NONE")
          /\ UNCHANGED <<account, positions, keys, incidents, venue, stops, seen,
                         placements, reset>>
      BY <1>3 DEF Persist, broker
    <2>2. NewPendingOrder \in Order /\ NewPendingOrder \in Rows /\ NewPendingOrder # NoOrder
      BY RowsAreOrders DEF Rows, NewPendingOrder, NoOrder
    <2>3. /\ exec' \in [Executors -> Execution]
          /\ exec'[e].pc = "place"
          /\ exec'[e].d = d
          /\ exec'[e].acct = exec[e].acct
          /\ exec'[e].order = NewPendingOrder
          /\ \A f \in Executors \ {e} : exec'[f] = exec[f]
      BY <1>1, <2>1, <2>2, ContinueResult DEF IInv, Steps
    <2>4. TypeOK' /\ RowsOK'
      BY <1>1, <2>1, <2>2, <2>3 DEF IInv, TypeOK, RowsOK, EventTypes
    <2>5. \A f \in Executors \ {e} : exec[f].pc \in Owning => exec[f].d # d
      BY <1>3 DEF IInv, Holds
    <2>6. placements[d] = 0
      BY <1>1, <1>3 DEF IInv, TypeOK, PlacedIsOnRecord, NoOrder
    <2>7. \A f \in Executors : Holds(f)'
      <3>1. Holds(e)'
        BY <1>1, <2>1, <2>2, <2>3, <2>6 DEF IInv, TypeOK, Holds
      <3>2. \A f \in Executors \ {e} : Holds(f)'
        BY <1>1, <2>1, <2>3, <2>5, OthersHold DEF IInv, TypeOK
      <3>3. QED
        BY <3>1, <3>2
    <2>8. \A f \in Executors : AccountCopy(f)'
      BY <1>1, <2>1, <2>3 DEF IInv, AccountCopy
    <2>9. SoleOwner'
      BY <2>3, <2>5 DEF IInv, SoleOwner, Owning
    <2>10. VenueKeeps' /\ AtMostOnePlacement'
      BY <2>1 DEF IInv, VenueKeeps, AtMostOnePlacement
    <2>11. PlacedIsOnRecord' /\ EventsMatchRows'
      BY <1>1, <1>3, <2>1, <2>2
      DEF IInv, TypeOK, PlacedIsOnRecord, EventsMatchRows, NewPendingOrder, NoOrder
    <2>12. ResetHolds'
      BY <1>3, <2>1 DEF IInv, TypeOK, ResetHolds, Submitted, NoOrder, Row
    <2>13. QED
      BY <2>4, <2>7, <2>8, <2>9, <2>10, <2>11, <2>12 DEF IInv
  <1>4. QED
    BY <1>2, <1>3

\* The broker takes the order; the reply arrives or is lost.
LEMMA PlaceAcceptedStep ==
  ASSUME IInv, NEW e \in Executors, NEW status \in {"NEW", "FILLED"},
         NEW replied \in BOOLEAN, PlaceAccepted(e, status, replied)
  PROVE  IInv'
  <1> DEFINE d == exec[e].d
             next == IF replied THEN "submit" ELSE "lookup"
             reply == IF replied THEN status ELSE exec[e].reply
  <1>1. /\ exec[e].pc = "place" /\ exec[e].pc \in Steps /\ exec[e].pc \in Owning
        /\ d \in Decisions
        /\ exec[e].order = NewPendingOrder /\ exec[e].order \in Order
        /\ exec[e].reply \in {"NONE", "NEW", "FILLED"}
        /\ orders[d] = NewPendingOrder
        /\ placements[d] = 0
    BY ExecTypes DEF IInv, Holds, PlaceAccepted, At, Steps, Owning
  <1>2. /\ venue' = [venue EXCEPT ![d] = status]
        /\ seen' = IF replied THEN seen \cup {d} ELSE seen
        /\ \/ placements' = placements /\ Venue = "PAPER"
           \/ placements' = [placements EXCEPT ![d] = @ + 1]
        /\ Venue = "PAPER" => replied
        /\ UNCHANGED <<account, orders, positions, keys, outbox, incidents, stops, reset>>
    BY DEF PlaceAccepted
  <1>3. Continue(e, next, exec[e].order, reply)
    BY DEF PlaceAccepted, Goto
  <1>4. next \in Steps /\ next \in Owning /\ reply \in {"NONE", "NEW", "FILLED"}
    BY <1>1 DEF Steps, Owning
  <1>5. /\ exec' \in [Executors -> Execution]
        /\ exec'[e].pc = next
        /\ exec'[e].d = d
        /\ exec'[e].acct = exec[e].acct
        /\ exec'[e].order = exec[e].order
        /\ \A f \in Executors \ {e} : exec'[f] = exec[f]
    BY <1>1, <1>3, <1>4, ContinueResult DEF IInv
  <1>6. /\ placements' \in [Decisions -> Nat]
        /\ placements'[d] \in {0, 1}
        /\ \A c \in Decisions \ {d} : placements'[c] = placements[c]
        /\ Venue = "BINANCE" => venue'[d] # "NONE"
        /\ \A c \in Decisions \ {d} : venue'[c] = venue[c]
    BY <1>1, <1>2 DEF IInv, TypeOK
  <1>7. TypeOK'
    BY <1>1, <1>2, <1>5, <1>6 DEF IInv, TypeOK
  <1>8. \A f \in Executors \ {e} : Holds(f)'
    <2>1. \A f \in Executors \ {e} : exec[f].pc \in Owning => exec[f].d # d
      BY <1>1 DEF IInv, SoleOwner
    <2>2. QED
      BY <1>1, <1>2, <1>5, <1>6, <2>1, OthersHold
  <1>9. Holds(e)'
    BY <1>1, <1>2, <1>5 DEF Holds, NewPendingOrder, NoOrder
  <1>10. \A f \in Executors : AccountCopy(f)'
    BY <1>1, <1>2, <1>5 DEF IInv, AccountCopy
  <1>11. SoleOwner'
    BY <1>1, <1>5 DEF IInv, SoleOwner
  <1>12. VenueKeeps' /\ AtMostOnePlacement' /\ PlacedIsOnRecord'
    BY <1>1, <1>2, <1>6
    DEF IInv, VenueKeeps, AtMostOnePlacement, PlacedIsOnRecord, NewPendingOrder
  <1>13. RowsOK' /\ ResetHolds' /\ EventsMatchRows'
    BY <1>2 DEF IInv, RowsOK, ResetHolds, EventsMatchRows
  <1>14. QED
    BY <1>7, <1>8, <1>9, <1>10, <1>11, <1>12, <1>13 DEF IInv

\* The broker refuses the order.
LEMMA PlaceRefusedStep ==
  ASSUME IInv, NEW e \in Executors, PlaceRefused(e)
  PROVE  IInv'
  <1>1. exec[e].pc = "place" /\ exec[e].pc \in Steps /\ exec[e].pc \in Owning
    BY DEF PlaceRefused, At, Steps, Owning
  <1>2. Holds(e)'
    BY <1>1, ExecTypes, ContinueResult
    DEF IInv, PlaceRefused, broker, Goto, Holds, Steps, Owning
  <1>3. QED
    BY <1>1, <1>2, ExecTypes, ContinueStep
    DEF IInv, TypeOK, PlaceRefused, broker, Goto, Steps, Owning

\* The lookup after a placement that failed, whatever it finds.
LEMMA LookupStep ==
  ASSUME IInv, NEW e \in Executors, LookupFound(e) \/ LookupAbsent(e) \/ LookupError(e)
  PROVE  IInv'
  <1>1. /\ exec[e].pc = "lookup" /\ exec[e].pc \in Steps /\ exec[e].pc \in Owning
        /\ exec[e].d \in Decisions /\ exec[e].order \in Order
        /\ exec[e].reply \in {"NONE", "NEW", "FILLED"}
        /\ Holds(e) /\ TypeOK /\ VenueKeeps
    BY ExecTypes DEF IInv, LookupFound, LookupAbsent, LookupError, At, Steps, Owning
  <1>2. UNCHANGED <<account, orders, positions, keys, outbox, incidents, venue, stops,
                    seen, placements, reset>>
    BY DEF LookupFound, LookupAbsent, LookupError, broker
  <1>3. CASE LookupFound(e)
    <2>1. Continue(e, "submit", exec[e].order, venue[exec[e].d])
      BY <1>3 DEF LookupFound
    <2>2. venue[exec[e].d] \in {"NONE", "NEW", "FILLED"} /\ "submit" \in Steps
      BY <1>1 DEF TypeOK, Steps
    <2>3. Holds(e)'
      BY <1>1, <1>2, <2>1, <2>2, ContinueResult DEF Holds, Owning
    <2>4. QED
      BY <1>1, <1>2, <2>1, <2>2, <2>3, ContinueStep DEF TypeOK
  <1>4. CASE LookupAbsent(e)
    <2>1. Continue(e, "fail", exec[e].order, exec[e].reply) /\ "fail" \in Steps
      BY <1>4 DEF LookupAbsent, Goto, Steps
    <2>2. placements[exec[e].d] = 0
      BY <1>1, <1>4, ExecutionAssumption DEF VenueKeeps, Holds, LookupAbsent
    <2>3. Holds(e)'
      BY <1>1, <1>2, <2>1, <2>2, ContinueResult DEF Holds, Owning
    <2>4. QED
      BY <1>1, <1>2, <2>1, <2>3, ContinueStep DEF TypeOK
  <1>5. CASE LookupError(e)
    <2>1. Continue(e, "unknown", exec[e].order, exec[e].reply) /\ "unknown" \in Steps
      BY <1>5 DEF LookupError, Goto, Steps
    <2>2. Holds(e)'
      BY <1>1, <1>2, <2>1, ContinueResult DEF Holds, Owning
    <2>3. QED
      BY <1>1, <1>2, <2>1, <2>2, ContinueStep DEF TypeOK
  <1>6. QED
    BY <1>3, <1>4, <1>5

\* The exchange fills a resting order, or reports the open orders.
LEMMA VenueStep ==
  ASSUME IInv, ListOpenOrders \/ \E d \in Decisions : VenueFills(d)
  PROVE  IInv'
  <1>1. UNCHANGED <<account, orders, positions, keys, outbox, incidents, stops, placements,
                    exec, reset>>
    BY DEF ListOpenOrders, VenueFills
  <1>2. TypeOK'
    BY <1>1 DEF IInv, TypeOK, ListOpenOrders, VenueFills
  <1>3. VenueKeeps'
    BY <1>1 DEF IInv, TypeOK, VenueKeeps, ListOpenOrders, VenueFills
  <1>4. QED
    BY <1>1, <1>2, <1>3
    DEF IInv, RowsOK, Holds, AccountCopy, SoleOwner, ResetHolds, AtMostOnePlacement,
        PlacedIsOnRecord, EventsMatchRows

\* The order becomes FAILED where the row allows it.
LEMMA FailStep ==
  ASSUME IInv, NEW e \in Executors, Fail(e)
  PROVE  IInv'
  <1> DEFINE d == exec[e].d
  <1>1. /\ exec[e].pc \in Owning /\ d \in Decisions
        /\ exec[e].order = NewPendingOrder /\ placements[d] = 0
        /\ orders[d] \in Rows
    BY ExecTypes DEF IInv, RowsOK, Holds, Fail, At, Steps, Owning
  <1>2. Return(e) /\ UNCHANGED <<account, positions, keys, outbox, incidents, venue, stops,
                                 seen, placements, reset>>
    BY DEF Fail, broker
  <1>3. CASE ~Saves(orders[d], Row("FAILED", 2))
    BY <1>1, <1>2, <1>3, Transitions, ReturnStep DEF IInv, TypeOK, Fail, broker
  <1>4. CASE Saves(orders[d], Row("FAILED", 2))
    <2>1. orders' = [orders EXCEPT ![d] = Row("FAILED", 2)] /\ orders[d] = NewPendingOrder
      BY <1>1, <1>4, Transitions, RowSaves DEF Fail
    <2>2. Row("FAILED", 2) \in Rows /\ Row("FAILED", 2) \in Order
      BY RowsAreOrders DEF Rows
    <2>3. /\ exec' \in [Executors -> Execution]
          /\ exec'[e] = Idle
          /\ \A f \in Executors \ {e} : exec'[f] = exec[f]
      BY <1>2, ReturnResult DEF IInv
    <2>4. TypeOK' /\ RowsOK'
      BY <1>1, <1>2, <2>1, <2>2, <2>3 DEF IInv, TypeOK, RowsOK
    <2>5. \A f \in Executors : Holds(f)'
      <3>1. \A f \in Executors \ {e} : exec[f].pc \in Owning => exec[f].d # d
        BY <1>1 DEF IInv, SoleOwner
      <3>2. \A f \in Executors \ {e} : Holds(f)'
        BY <1>1, <1>2, <2>1, <2>3, <3>1, OthersHold DEF IInv, TypeOK
      <3>3. Holds(e)'
        BY <2>3 DEF Holds, Idle, Owning
      <3>4. QED
        BY <3>2, <3>3
    <2>6. SoleOwner' /\ \A f \in Executors : AccountCopy(f)'
      BY <1>2, <2>3 DEF IInv, SoleOwner, AccountCopy, Owning, Steps, Idle
    <2>7. VenueKeeps' /\ AtMostOnePlacement'
      BY <1>2 DEF IInv, VenueKeeps, AtMostOnePlacement
    <2>8. PlacedIsOnRecord' /\ EventsMatchRows'
      BY <1>1, <1>2, <2>1
      DEF IInv, TypeOK, PlacedIsOnRecord, EventsMatchRows, NewPendingOrder, NoOrder, Row
    <2>9. ResetHolds'
      BY <1>2, <2>1 DEF IInv, TypeOK, ResetHolds, Submitted, NewPendingOrder, Row
    <2>10. QED
      BY <2>4, <2>5, <2>6, <2>7, <2>8, <2>9 DEF IInv
  <1>5. QED
    BY <1>3, <1>4

\* Order.MarkUnknown refuses a PENDING order, and the save of the unchanged
\* copy finds a newer row: nothing is recorded.
LEMMA UnknownStep ==
  ASSUME IInv, NEW e \in Executors, Unknown(e)
  PROVE  IInv' /\ orders' = orders
  <1>1. /\ exec[e].pc \in Owning /\ exec[e].pc \in Steps /\ exec[e].d \in Decisions
        /\ exec[e].order = NewPendingOrder /\ exec[e].order \in Order
        /\ exec[e].reply \in {"NONE", "NEW", "FILLED"}
        /\ orders[exec[e].d] \in Rows \ {NoOrder}
    BY ExecTypes DEF IInv, RowsOK, Holds, Unknown, At, Steps, Owning
  <1>2. orders' = orders
    BY <1>1, Transitions, RowSaves DEF Unknown
  <1>3. Continue(e, "incident", exec[e].order, exec[e].reply)
        /\ "incident" \in Steps /\ "incident" \in Owning
    BY DEF Unknown, Goto, Steps, Owning
  <1>4. Holds(e)'
    BY <1>1, <1>2, <1>3, ContinueResult DEF IInv, Holds
  <1>5. QED
    BY <1>1, <1>2, <1>3, <1>4, ContinueStep DEF IInv, TypeOK, Unknown, broker

\* An incident is written, and the execution ends.
LEMMA RaiseIncidentStep ==
  ASSUME IInv, NEW e \in Executors, RaiseIncident(e)
  PROVE  IInv'
  BY ExecTypes, ReturnStep DEF IInv, TypeOK, RaiseIncident, At, Steps, broker

\* A statement fails, and the execution ends.
LEMMA DBErrorStep ==
  ASSUME IInv, NEW e \in Executors, DBError(e)
  PROVE  IInv'
  BY ReturnStep DEF IInv, TypeOK, DBError, broker

\* The fill transaction rolls back: the rows stay.
LEMMA RollbackFillStep ==
  ASSUME IInv, NEW e \in Executors, RollbackFill(e)
  PROVE  IInv'
  <1>1. exec[e].d \in Decisions
    BY ExecTypes DEF IInv, RollbackFill, At, Steps
  <1>2. incidents' \subseteq Decisions
    BY <1>1 DEF IInv, TypeOK, RollbackFill
  <1>3. QED
    BY <1>2, ReturnStep DEF IInv, TypeOK, RollbackFill, broker

\* The protective stop is placed, refused, or its reply is lost.
LEMMA PlaceStopStep ==
  ASSUME IInv, NEW e \in Executors, NEW placed \in BOOLEAN, NEW replied \in BOOLEAN,
         PlaceStop(e, placed, replied)
  PROVE  IInv'
  <1>1. /\ exec[e].pc = "stop" /\ exec[e].pc \in Steps /\ exec[e].pc \in Owning
        /\ exec[e].d \in Decisions /\ exec[e].order \in Order
        /\ exec[e].reply \in {"NONE", "NEW", "FILLED"}
        /\ stops' \subseteq Decisions
    BY ExecTypes DEF IInv, TypeOK, PlaceStop, At, Steps, Owning
  <1>2. UNCHANGED <<account, orders, positions, keys, outbox, incidents, venue, seen,
                    placements, reset>>
    BY DEF PlaceStop
  <1>3. CASE replied
    BY <1>1, <1>2, <1>3, ReturnStep DEF IInv, TypeOK, PlaceStop
  <1>4. CASE ~replied
    <2>1. Continue(e, "incident", exec[e].order, exec[e].reply)
          /\ "incident" \in Steps /\ "incident" \in Owning
      BY <1>4 DEF PlaceStop, Goto, Steps, Owning
    <2>2. Holds(e)'
      BY <1>1, <1>2, <2>1, ContinueResult DEF IInv, Holds
    <2>3. QED
      BY <1>1, <1>2, <2>1, <2>2, ContinueStep DEF IInv, TypeOK
  <1>5. QED
    BY <1>3, <1>4

\* The order becomes SUBMITTED.
LEMMA SubmitStep ==
  ASSUME IInv, NEW e \in Executors, Submit(e)
  PROVE  IInv'
  <1> DEFINE d == exec[e].d
  <1>1. /\ exec[e].pc = "submit" /\ exec[e].pc \in Owning /\ exec[e].pc \in Steps
        /\ d \in Decisions
        /\ exec[e].order = NewPendingOrder
        /\ orders[d] \in Rows
    BY ExecTypes DEF IInv, RowsOK, Holds, Submit, At, Steps, Owning
  <1>2. UNCHANGED <<account, positions, keys, incidents, venue, stops, seen, placements,
                    reset>>
    BY DEF Submit, broker
  <1>3. CASE ~Saves(orders[d], Row("SUBMITTED", 2))
    BY <1>1, <1>2, <1>3, Transitions, ReturnStep DEF IInv, TypeOK, Submit
  <1>4. CASE Saves(orders[d], Row("SUBMITTED", 2))
    <2>1. /\ orders' = [orders EXCEPT ![d] = Row("SUBMITTED", 2)]
          /\ orders[d] = NewPendingOrder
          /\ outbox' = outbox \cup {<<"OrderSubmitted", d>>}
          /\ \/ Continue(e, "book", Row("SUBMITTED", 2), "FILLED")
             \/ Return(e)
      BY <1>1, <1>4, Transitions, RowSaves DEF Submit
    <2>2. /\ Row("SUBMITTED", 2) \in Rows /\ Row("SUBMITTED", 2) \in Order
          /\ Row("SUBMITTED", 2) \in Submitted /\ Row("SUBMITTED", 2) # NoOrder
          /\ "book" \in Steps /\ "book" \in Owning
      BY RowsAreOrders DEF Rows, Submitted, Row, NoOrder, Steps, Owning
    <2>3. /\ exec' \in [Executors -> Execution]
          /\ \/ exec'[e] = Idle
             \/ /\ exec'[e].pc = "book"
                /\ exec'[e].d = d
                /\ exec'[e].acct = exec[e].acct
                /\ exec'[e].order = Row("SUBMITTED", 2)
          /\ \A f \in Executors \ {e} : exec'[f] = exec[f]
      BY <1>1, <2>1, <2>2, ContinueResult, ReturnResult DEF IInv
    <2>4. TypeOK' /\ RowsOK'
      BY <1>1, <1>2, <2>1, <2>2, <2>3 DEF IInv, TypeOK, RowsOK, EventTypes
    <2>5. \A f \in Executors : Holds(f)'
      <3>1. \A f \in Executors \ {e} : exec[f].pc \in Owning => exec[f].d # d
        BY <1>1 DEF IInv, SoleOwner
      <3>2. \A f \in Executors \ {e} : Holds(f)'
        BY <1>1, <1>2, <2>1, <2>3, <3>1, OthersHold DEF IInv, TypeOK
      <3>3. orders'[d] = Row("SUBMITTED", 2)
        BY <1>1, <2>1 DEF IInv, TypeOK
      <3>4. Holds(e)'
        BY <2>2, <2>3, <3>3 DEF Holds, Idle, Owning
      <3>5. QED
        BY <3>2, <3>4
    <2>6. SoleOwner' /\ \A f \in Executors : AccountCopy(f)'
      BY <1>1, <1>2, <2>3 DEF IInv, SoleOwner, AccountCopy, Owning, Steps, Idle
    <2>7. VenueKeeps' /\ AtMostOnePlacement'
      BY <1>2 DEF IInv, VenueKeeps, AtMostOnePlacement
    <2>8. PlacedIsOnRecord' /\ EventsMatchRows'
      BY <1>1, <1>2, <2>1
      DEF IInv, TypeOK, PlacedIsOnRecord, EventsMatchRows, NewPendingOrder, NoOrder, Row
    <2>9. ResetHolds'
      BY <1>2, <2>1, <2>2 DEF IInv, TypeOK, ResetHolds
    <2>10. QED
      BY <2>4, <2>5, <2>6, <2>7, <2>8, <2>9 DEF IInv
  <1>5. QED
    BY <1>3, <1>4

\* When the transaction that books a fill goes through, the account was not
\* touched since the execution began and the order is still SUBMITTED.
LEMMA FillIsCurrent ==
  ASSUME IInv, NEW e \in Executors, At(e, "book"), FillSaves(e)
  PROVE  /\ exec[e].d \in Decisions
         /\ AllowsNewEntries(account.mode)
         /\ Notional[exec[e].d] \in Nat
         /\ Notional[exec[e].d] <= account.available
         /\ MarginedAccount(e) = [mode |-> account.mode, version |-> account.version + 1,
                                  available |-> account.available - Notional[exec[e].d]]
         /\ orders[exec[e].d] = Row("SUBMITTED", 2)
         /\ FilledOrder(e) = Row("FILLED", 3)
         /\ positions[exec[e].d] = "NONE"
  <1> DEFINE d == exec[e].d
  <1>1. /\ exec[e].pc = "book" /\ exec[e].pc \in Steps
        /\ d \in Decisions /\ exec[e].acct \in Account
        /\ exec[e].order = Row("SUBMITTED", 2)
        /\ orders[d] \in Submitted /\ orders[d] \in Rows
    BY ExecTypes DEF IInv, RowsOK, Holds, At, Steps, Owning
  <1>2. FilledOrder(e) = Row("FILLED", 3)
    BY <1>1, Transitions DEF FilledOrder
  <1>3. orders[d] = Row("SUBMITTED", 2)
    BY <1>1, <1>2, RowSaves DEF FillSaves, Submitted, Row
  <1>4. positions[d] = "NONE"
    <2>1. orders[d].status # "FILLED"
      BY <1>3 DEF Row
    <2>2. orders[d].status = "FILLED" <=> positions[d] # "NONE"
      BY <1>1 DEF IInv, EventsMatchRows
    <2>3. QED
      BY <2>1, <2>2
  <1>5. Notional[d] \in Nat /\ account \in Account
    BY <1>1, ExecutionAssumption DEF IInv, TypeOK
  <1>6. /\ exec[e].acct.version <= account.version
        /\ exec[e].acct.version = account.version => exec[e].acct = account
        /\ AllowsNewEntries(exec[e].acct.mode)
    BY <1>1 DEF IInv, AccountCopy
  <1>7. account.version = MarginedAccount(e).version - 1
    BY DEF FillSaves, Saves
  <1>8. CASE Notional[d] > exec[e].acct.available
    <2>1. MarginedAccount(e) = exec[e].acct
      BY <1>8 DEF MarginedAccount, ReserveMargin
    <2>2. QED
      BY <1>1, <1>5, <1>6, <1>7, <2>1 DEF Account
  <1>9. CASE ~(Notional[d] > exec[e].acct.available)
    <2>1. MarginedAccount(e) = [mode |-> exec[e].acct.mode,
                                version |-> exec[e].acct.version + 1,
                                available |-> exec[e].acct.available - Notional[d]]
      BY <1>9 DEF MarginedAccount, ReserveMargin
    <2>2. exec[e].acct = account
      BY <1>1, <1>5, <1>6, <1>7, <2>1 DEF Account
    <2>3. Notional[d] <= account.available
      BY <1>5, <1>9, <2>2 DEF Account
    <2>4. QED
      BY <1>1, <1>2, <1>3, <1>4, <1>5, <1>6, <2>1, <2>2, <2>3
  <1>10. QED
    BY <1>8, <1>9

\* The fill transaction commits order, position and account together.
LEMMA RecordFillStep ==
  ASSUME IInv, NEW e \in Executors, RecordFill(e)
  PROVE  IInv'
  <1> DEFINE d == exec[e].d
  <1>1. /\ exec[e].pc = "book" /\ exec[e].pc \in Steps /\ exec[e].pc \in Owning
        /\ exec[e].order \in Order /\ exec[e].reply \in {"NONE", "NEW", "FILLED"}
    BY ExecTypes DEF IInv, RecordFill, At, Steps, Owning
  <1>2. /\ d \in Decisions
        /\ AllowsNewEntries(account.mode)
        /\ Notional[d] \in Nat /\ Notional[d] <= account.available
        /\ account' = [mode |-> account.mode, version |-> account.version + 1,
                       available |-> account.available - Notional[d]]
        /\ orders[d] = Row("SUBMITTED", 2)
        /\ orders' = [orders EXCEPT ![d] = Row("FILLED", 3)]
        /\ positions[d] = "NONE"
        /\ positions' = [positions EXCEPT ![d] = "OPEN"]
        /\ outbox' = outbox \cup {<<"OrderFilled", d>>, <<"PositionOpened", d>>}
    BY FillIsCurrent DEF RecordFill
  <1>3. Continue(e, "stop", exec[e].order, exec[e].reply)
        /\ "stop" \in Steps /\ "stop" \in Owning
    BY DEF RecordFill, Goto, Steps, Owning
  <1>4. UNCHANGED <<keys, incidents, venue, stops, seen, placements, reset>>
    BY DEF RecordFill, broker
  <1>5. /\ exec' \in [Executors -> Execution]
        /\ exec'[e].pc = "stop"
        /\ exec'[e].d = d
        /\ exec'[e].acct = exec[e].acct
        /\ \A f \in Executors \ {e} : exec'[f] = exec[f]
    BY <1>1, <1>3, ContinueResult DEF IInv
  <1>6. /\ Row("FILLED", 3) \in Rows /\ Row("FILLED", 3) \in Order
        /\ Row("FILLED", 3) \in Submitted /\ Row("FILLED", 3) # NoOrder
    BY RowsAreOrders DEF Rows, Submitted, Row, NoOrder
  <1>7. account' \in Account /\ account \in Account /\ account'.version = account.version + 1
    BY <1>2 DEF IInv, TypeOK, Account
  <1>8. TypeOK' /\ RowsOK'
    BY <1>2, <1>4, <1>5, <1>6, <1>7 DEF IInv, TypeOK, RowsOK, EventTypes
  <1>9. \A f \in Executors : Holds(f)'
    <2>1. \A f \in Executors \ {e} : exec[f].pc \in Owning => exec[f].d # d
      BY <1>1 DEF IInv, SoleOwner
    <2>2. \A f \in Executors \ {e} : Holds(f)'
      BY <1>2, <1>4, <1>5, <2>1, OthersHold DEF IInv, TypeOK
    <2>3. orders'[d] = Row("FILLED", 3)
      BY <1>2 DEF IInv, TypeOK
    <2>4. Holds(e)'
      BY <1>5, <1>6, <2>3 DEF Holds
    <2>5. QED
      BY <2>2, <2>4
  <1>10. \A f \in Executors : AccountCopy(f)'
    <2>1. ASSUME NEW f \in Executors, exec[f].pc \in Steps
          PROVE  exec[f].acct.version < account'.version /\ AllowsNewEntries(exec[f].acct.mode)
      BY <1>7, <2>1, ExecTypes DEF IInv, AccountCopy, Account
    <2>2. \A f \in Executors : exec'[f].pc \in Steps =>
            exec[f].pc \in Steps /\ exec'[f].acct = exec[f].acct
      BY <1>1, <1>5
    <2>3. QED
      BY <1>7, <2>1, <2>2, ExecTypes DEF IInv, AccountCopy, Account
  <1>11. SoleOwner'
    BY <1>1, <1>5 DEF IInv, SoleOwner
  <1>12. VenueKeeps' /\ AtMostOnePlacement'
    BY <1>4 DEF IInv, VenueKeeps, AtMostOnePlacement
  <1>13. PlacedIsOnRecord' /\ EventsMatchRows'
    <2>1. PlacedIsOnRecord'
      BY <1>2, <1>4 DEF IInv, TypeOK, PlacedIsOnRecord, Row
    <2>2. EventsMatchRows'
      <3> SUFFICES ASSUME NEW c \in Decisions
                   PROVE  /\ <<"OrderCreated", c>> \in outbox' <=> orders'[c] # NoOrder
                          /\ <<"OrderSubmitted", c>> \in outbox' <=>
                                orders'[c].status \in {"SUBMITTED", "FILLED", "CANCELLED"}
                          /\ <<"OrderFilled", c>> \in outbox' <=> orders'[c].status = "FILLED"
                          /\ <<"PositionOpened", c>> \in outbox' <=> positions'[c] # "NONE"
                          /\ orders'[c].status = "FILLED" <=> positions'[c] # "NONE"
        BY DEF EventsMatchRows
      <3>1. CASE c # d
        <4>1. orders'[c] = orders[c] /\ positions'[c] = positions[c]
          BY <1>2, <3>1 DEF IInv, TypeOK
        <4>2. \A type : <<type, c>> \in outbox' <=> <<type, c>> \in outbox
          BY <1>2, <3>1
        <4>3. QED
          BY <4>1, <4>2 DEF IInv, EventsMatchRows
      <3>2. CASE c = d
        <4>1. orders'[c] = Row("FILLED", 3) /\ positions'[c] = "OPEN"
          BY <1>2, <3>2 DEF IInv, TypeOK
        <4>2. <<"OrderCreated", c>> \in outbox /\ <<"OrderSubmitted", c>> \in outbox
          <5>1. orders[c] # NoOrder /\ orders[c].status = "SUBMITTED"
            BY <1>2, <3>2 DEF Row, NoOrder
          <5>2. EventsMatchRows
            BY DEF IInv
          <5>3. QED
            BY <5>1, <5>2 DEF EventsMatchRows
        <4>3. /\ <<"OrderCreated", c>> \in outbox' /\ <<"OrderSubmitted", c>> \in outbox'
              /\ <<"OrderFilled", c>> \in outbox' /\ <<"PositionOpened", c>> \in outbox'
          BY <1>2, <3>2, <4>2
        <4>4. QED
          BY <4>1, <4>3 DEF Row, NoOrder
      <3>3. QED
        BY <3>1, <3>2
    <2>3. QED
      BY <2>1, <2>2
  <1>14. ResetHolds'
    <2>1. reset \in Reset
      BY DEF IInv, TypeOK
    <2>2. reset.pc \in {"positions", "orders", "commit"} => reset.acct \in Account
      BY <2>1 DEF Reset, Idle
    <2>3. reset.pc \in {"positions", "orders", "commit"} =>
             reset.acct.version < account'.version
      BY <1>7, <2>2 DEF IInv, ResetHolds, Account
    <2>4. QED
      BY <1>2, <1>4, <1>6, <1>7, <2>2, <2>3 DEF IInv, TypeOK, ResetHolds, Account
  <1>15. QED
    BY <1>8, <1>9, <1>10, <1>11, <1>12, <1>13, <1>14 DEF IInv

\* The process forgets its executions, and the simulator all it has.
LEMMA RestartStep ==
  ASSUME IInv, Restart
  PROVE  IInv'
  <1>1. TypeOK'
    BY DEF IInv, TypeOK, Restart, Execution, Reset
  <1>2. VenueKeeps'
    BY DEF IInv, TypeOK, VenueKeeps, Restart
  <1>3. QED
    BY <1>1, <1>2
    DEF IInv, Restart, Idle, RowsOK, Holds, AccountCopy, Owning, Steps, SoleOwner,
        ResetHolds, AtMostOnePlacement, PlacedIsOnRecord, EventsMatchRows

\* Whoever replaces the account row leaves every copy of it behind.
LEMMA CopiesFallBehind ==
  ASSUME IInv, account' \in Account, account'.version = account.version + 1, exec' = exec
  PROVE  \A e \in Executors : AccountCopy(e)'
  <1> SUFFICES ASSUME NEW e \in Executors, exec[e].pc \in Steps
               PROVE  /\ exec[e].acct.version < account'.version
                      /\ AllowsNewEntries(exec[e].acct.mode)
    BY ExecTypes DEF IInv, AccountCopy, Account
  <1>1. QED
    BY ExecTypes DEF IInv, TypeOK, AccountCopy, Account

\* What a reset holds at each of its steps.
LEMMA ResetTypes ==
  ASSUME TypeOK
  PROVE  /\ reset.pc \in {"positions", "orders", "commit"} => reset.acct \in Account
         /\ reset.pc \in {"orders", "commit"} => reset.open \subseteq Decisions
         /\ reset.pc = "commit" => reset.rows \in [Decisions -> Order]
  <1>1. reset \in Reset
    BY DEF TypeOK
  <1>2. QED
    BY <1>1 DEF Reset, Idle

\* A mode change gives the account a new version.
LEMMA ChangeModeStep ==
  ASSUME IInv, NEW target \in Targets, ChangeMode(target)
  PROVE  IInv'
  <1>1. /\ account' \in Account /\ account \in Account
        /\ account'.version = account.version + 1
    BY ExecutionAssumption DEF IInv, TypeOK, ChangeMode, Account
  <1>2. UNCHANGED <<orders, positions, keys, outbox, incidents, venue, stops, seen,
                    placements, exec, reset>>
    BY DEF ChangeMode, broker
  <1>3. TypeOK'
    BY <1>1, <1>2 DEF IInv, TypeOK
  <1>4. \A e \in Executors : AccountCopy(e)'
    BY <1>1, <1>2, CopiesFallBehind
  <1>5. ResetHolds'
    BY <1>1, <1>2, ResetTypes DEF IInv, ResetHolds, Account
  <1>6. QED
    BY <1>2, <1>3, <1>4, <1>5
    DEF IInv, RowsOK, Holds, SoleOwner, VenueKeeps, AtMostOnePlacement,
        PlacedIsOnRecord, EventsMatchRows

\* The three reads of a reset, or its failure.
LEMMA ResetReadStep ==
  ASSUME IInv, ResetLoad \/ ResetPositions \/ ResetOrders \/ ResetError
  PROVE  IInv'
  <1>1. UNCHANGED <<account, orders, positions, keys, outbox, incidents, venue, stops,
                    seen, placements, exec>>
    BY DEF ResetLoad, ResetPositions, ResetOrders, ResetError, broker
  <1>2. reset' \in Reset /\ ResetHolds'
    <2>1. CASE ResetLoad
      BY <1>1, <2>1 DEF IInv, TypeOK, ResetLoad, Reset, ResetHolds, Account
    <2>2. CASE ResetPositions
      BY <1>1, <2>2, ResetTypes DEF IInv, ResetPositions, Reset, ResetHolds, Idle
    <2>3. CASE ResetOrders
      <3>1. reset'.rows \in [Decisions -> Order]
        BY <2>3 DEF IInv, TypeOK, ResetOrders, NoOrder, Order
      <3>2. \A d \in Decisions :
              /\ reset'.rows[d] \in Rows
              /\ reset'.rows[d] = Row("SUBMITTED", 2) => orders[d] \in Submitted
        BY <2>3 DEF IInv, RowsOK, ResetOrders, Rows, Submitted, Row, NoOrder
      <3>3. reset' = [pc |-> "commit", acct |-> reset.acct, open |-> reset.open,
                      rows |-> reset'.rows]
        BY <2>3 DEF ResetOrders
      <3>4. reset' \in Reset
        BY <2>3, <3>1, <3>3, ResetTypes DEF IInv, ResetOrders, Reset
      <3>5. QED
        BY <1>1, <2>3, <3>2, <3>3, <3>4 DEF IInv, ResetOrders, ResetHolds, Idle
    <2>4. CASE ResetError
      BY <2>4 DEF ResetError, Reset, ResetHolds, Idle
    <2>5. QED
      BY <2>1, <2>2, <2>3, <2>4
  <1>3. TypeOK'
    BY <1>1, <1>2 DEF IInv, TypeOK
  <1>4. QED
    BY <1>1, <1>2, <1>3
    DEF IInv, RowsOK, Holds, AccountCopy, SoleOwner, VenueKeeps, AtMostOnePlacement,
        PlacedIsOnRecord, EventsMatchRows

\* A reset wipes the simulator.
LEMMA ResetBrokerStep ==
  ASSUME IInv, ResetBroker
  PROVE  IInv'
  <1>1. Venue = "PAPER"
    BY DEF IInv, ResetHolds, ResetBroker, Idle
  <1>2. TypeOK'
    BY DEF IInv, TypeOK, ResetBroker, Reset
  <1>3. QED
    BY <1>1, <1>2
    DEF IInv, ResetBroker, Idle, RowsOK, Holds, AccountCopy, SoleOwner, VenueKeeps,
        ResetHolds, AtMostOnePlacement, PlacedIsOnRecord, EventsMatchRows

\* When the transaction of a reset goes through, the account was not touched
\* since the reset began, and only SUBMITTED rows become CANCELLED.
LEMMA ResetIsCurrent ==
  ASSUME IInv, ResetCommit, ResetSaves
  PROVE  /\ account.mode = "PAPER"
         /\ account' = [mode |-> "PAPER", version |-> account.version + 1,
                        available |-> StartingBalance]
         /\ positions' = [d \in Decisions |->
                IF positions[d] = "OPEN" THEN "CLOSED" ELSE positions[d]]
         /\ orders' \in [Decisions -> Order]
         /\ \A d \in Decisions :
                \/ orders'[d] = orders[d]
                \/ orders[d] = Row("SUBMITTED", 2) /\ orders'[d] = Row("CANCELLED", 3)
         /\ reset' = [pc |-> "broker"]
  <1>1. /\ reset.pc = "commit" /\ reset.acct \in Account /\ account \in Account
        /\ reset.acct.version <= account.version
        /\ reset.acct.mode = "PAPER"
        /\ reset.acct.version = account.version => reset.acct = account
    BY ResetTypes DEF IInv, TypeOK, ResetHolds, ResetCommit
  <1>2. reset.acct.version = account.version
    BY <1>1 DEF ResetSaves, FreshAccount, Saves, Account
  <1>3. account.mode = "PAPER"
    BY <1>1, <1>2
  <1>4. account' = [mode |-> "PAPER", version |-> account.version + 1,
                    available |-> StartingBalance]
    BY <1>2 DEF ResetCommit, FreshAccount
  <1>5. reset.open = {d \in Decisions : positions[d] = "OPEN"}
    BY <1>1, <1>2 DEF IInv, ResetHolds
  <1>6. positions' = [d \in Decisions |->
          IF positions[d] = "OPEN" THEN "CLOSED" ELSE positions[d]]
    BY <1>5 DEF ResetCommit
  <1>7. \A d \in Cancellable : reset.rows[d] = Row("SUBMITTED", 2)
    BY <1>1, Transitions DEF IInv, ResetHolds, Cancellable
  <1>8. \A d \in Cancellable : orders[d] = Row("SUBMITTED", 2)
    <2> TAKE d \in Cancellable
    <2>1. d \in Decisions
      BY DEF Cancellable
    <2>2. orders[d] \in Rows /\ orders[d] \in Submitted
      BY <1>1, <1>7, <2>1 DEF IInv, RowsOK, ResetHolds
    <2>3. Saves(orders[d], Row("CANCELLED", 3))
      BY <1>7, Transitions DEF ResetSaves
    <2>4. QED
      BY <2>2, <2>3, RowSaves DEF Submitted, Row
  <1>9. orders' = [d \in Decisions |->
                     IF d \in Cancellable THEN Row("CANCELLED", 3) ELSE orders[d]]
    <2>1. \A d \in Cancellable :
            Transition(reset.rows[d], "CANCELLED") = Row("CANCELLED", 3)
      BY <1>7, Transitions
    <2>2. orders' = [d \in Decisions |->
            IF d \in Cancellable THEN Transition(reset.rows[d], "CANCELLED") ELSE orders[d]]
      BY DEF ResetCommit
    <2>3. QED
      BY <2>1, <2>2
  <1>10. Row("CANCELLED", 3) \in Order
    BY RowsAreOrders DEF Rows
  <1>11. reset' = [pc |-> "broker"]
    BY DEF ResetCommit
  <1>12. QED
    BY <1>3, <1>4, <1>6, <1>8, <1>9, <1>10, <1>11 DEF IInv, TypeOK

\* A reset cancels the orders it read, closes the positions and refills the
\* account, in one transaction.
LEMMA ResetCommitStep ==
  ASSUME IInv, ResetCommit
  PROVE  IInv'
  <1>1. UNCHANGED <<keys, outbox, incidents, venue, stops, seen, placements, exec>>
    BY DEF ResetCommit, broker
  <1>2. CASE ResetSaves
    <2>1. /\ account.mode = "PAPER"
          /\ account' = [mode |-> "PAPER", version |-> account.version + 1,
                         available |-> StartingBalance]
          /\ positions' = [d \in Decisions |->
                 IF positions[d] = "OPEN" THEN "CLOSED" ELSE positions[d]]
          /\ orders' \in [Decisions -> Order]
          /\ \A d \in Decisions :
                 \/ orders'[d] = orders[d]
                 \/ orders[d] = Row("SUBMITTED", 2) /\ orders'[d] = Row("CANCELLED", 3)
          /\ reset' = [pc |-> "broker"]
      BY <1>2, ResetIsCurrent
    <2>2. /\ account' \in Account /\ account \in Account
          /\ account'.version = account.version + 1
      BY <2>1, ExecutionAssumption DEF IInv, TypeOK, Account
    <2>3. /\ Row("CANCELLED", 3) \in Rows /\ Row("CANCELLED", 3) \in Submitted
          /\ Row("CANCELLED", 3) # NoOrder /\ Row("SUBMITTED", 2) # NewPendingOrder
      BY DEF Rows, Submitted, Row, NoOrder, NewPendingOrder
    <2>4. TypeOK' /\ RowsOK'
      BY <1>1, <2>1, <2>2, <2>3 DEF IInv, TypeOK, RowsOK, Reset
    <2>5. \A e \in Executors : Holds(e)'
      <3> TAKE e \in Executors
      <3>1. exec[e].pc \in Owning => exec[e].d \in Decisions
        BY ExecTypes DEF IInv, Owning, Steps
      <3>2. QED
        BY <1>1, <2>1, <2>3, <3>1 DEF IInv, Holds, Owning
    <2>6. \A e \in Executors : AccountCopy(e)'
      BY <1>1, <2>2, CopiesFallBehind
    <2>7. PlacedIsOnRecord'
      BY <1>1, <2>1 DEF IInv, PlacedIsOnRecord, Row
    <2>8. EventsMatchRows'
      <3> SUFFICES ASSUME NEW d \in Decisions
                   PROVE  /\ orders[d] = NoOrder <=> orders'[d] = NoOrder
                          /\ orders[d].status \in {"SUBMITTED", "FILLED", "CANCELLED"} <=>
                                orders'[d].status \in {"SUBMITTED", "FILLED", "CANCELLED"}
                          /\ orders[d].status = "FILLED" <=> orders'[d].status = "FILLED"
                          /\ positions[d] = "NONE" <=> positions'[d] = "NONE"
        BY <1>1 DEF IInv, EventsMatchRows
      <3>1. positions[d] = "NONE" <=> positions'[d] = "NONE"
        BY <2>1
      <3>2. QED
        BY <2>1, <3>1 DEF NoOrder, Row
    <2>9. ResetHolds'
      BY <2>1 DEF IInv, ResetHolds, ResetCommit, Idle
    <2>10. QED
      BY <1>1, <2>4, <2>5, <2>6, <2>7, <2>8, <2>9
      DEF IInv, SoleOwner, VenueKeeps, AtMostOnePlacement
  <1>3. CASE ~ResetSaves
    <2>1. reset' = Idle /\ UNCHANGED <<account, orders, positions>>
      BY <1>3 DEF ResetCommit
    <2>2. TypeOK'
      BY <1>1, <2>1 DEF IInv, TypeOK, Reset
    <2>3. QED
      BY <1>1, <2>1, <2>2
      DEF IInv, Idle, RowsOK, Holds, AccountCopy, SoleOwner, VenueKeeps, ResetHolds,
          AtMostOnePlacement, PlacedIsOnRecord, EventsMatchRows
  <1>4. QED
    BY <1>2, <1>3

\* Every step of executions, resets, operators and brokers keeps the invariant.
LEMMA InvStep == IInv /\ [Next]_vars => IInv'
  <1> SUFFICES ASSUME IInv, [Next]_vars PROVE IInv'
    OBVIOUS
  <1>1. ASSUME NEW e \in Executors, NEW d \in Decisions, Load(e, d) PROVE IInv'
    BY <1>1, LoadStep
  <1>2. ASSUME NEW e \in Executors, CheckExisting(e) \/ Reserve(e) \/ Persist(e) PROVE IInv'
    BY <1>2, CheckExistingStep, ReserveStep, PersistStep
  <1>3. ASSUME NEW e \in Executors, NEW status \in {"NEW", "FILLED"},
               NEW replied \in BOOLEAN, PlaceAccepted(e, status, replied) PROVE IInv'
    BY <1>3, PlaceAcceptedStep
  <1>4. ASSUME NEW e \in Executors,
               PlaceRefused(e) \/ LookupFound(e) \/ LookupAbsent(e) \/ LookupError(e)
        PROVE  IInv'
    BY <1>4, PlaceRefusedStep, LookupStep
  <1>5. ASSUME NEW e \in Executors,
               Fail(e) \/ Unknown(e) \/ RaiseIncident(e) \/ DBError(e)
        PROVE  IInv'
    BY <1>5, FailStep, UnknownStep, RaiseIncidentStep, DBErrorStep
  <1>6. ASSUME NEW e \in Executors, Submit(e) \/ RecordFill(e) \/ RollbackFill(e)
        PROVE  IInv'
    BY <1>6, SubmitStep, RecordFillStep, RollbackFillStep
  <1>7. ASSUME NEW e \in Executors, NEW placed \in BOOLEAN, NEW replied \in BOOLEAN,
               PlaceStop(e, placed, replied) PROVE IInv'
    BY <1>7, PlaceStopStep
  <1>8. ASSUME NEW d \in Decisions, ExpireKey(d) PROVE IInv'
    BY <1>8, ExpireKeyStep
  <1>9. CASE ListOpenOrders \/ \E d \in Decisions : VenueFills(d)
    BY <1>9, VenueStep
  <1>10. ASSUME NEW target \in Targets, ChangeMode(target) PROVE IInv'
    BY <1>10, ChangeModeStep
  <1>11. CASE ResetLoad \/ ResetPositions \/ ResetOrders \/ ResetCommit \/ ResetBroker
         \/ ResetError
    BY <1>11, ResetReadStep, ResetCommitStep, ResetBrokerStep
  <1>12. CASE Restart
    BY <1>12, RestartStep
  <1>13. CASE UNCHANGED vars
    BY <1>13
    DEF vars, broker, IInv, TypeOK, RowsOK, Holds, AccountCopy, SoleOwner, VenueKeeps, ResetHolds,
        AtMostOnePlacement, PlacedIsOnRecord, EventsMatchRows
  <1>14. QED
    BY <1>1, <1>2, <1>3, <1>4, <1>5, <1>6, <1>7, <1>8, <1>9, <1>10, <1>11, <1>12, <1>13
    DEF Next

\* The invariant holds always.
LEMMA Invariance == Spec => []IInv
  <1>1. Init => IInv
    BY InitIInv
  <1>2. IInv /\ [Next]_vars => IInv'
    BY InvStep
  <1>3. QED
    BY <1>1, <1>2, PTL DEF Spec
-----------------------------------------------------------------------------
\* Every value the executions, the reset and the database hold is well formed;
\* in particular the available balance never becomes negative.
THEOREM TypeCorrect == Spec => []TypeOK
  <1>1. IInv => TypeOK
    BY DEF IInv
  <1>2. QED
    BY <1>1, Invariance, PTL

\* PlaceOrder takes effect at most once per decision, for any number of
\* concurrent or repeated executions, expired keys, errors and crashes.
THEOREM PlacementIsUnique == Spec => []AtMostOnePlacement
  <1>1. IInv => AtMostOnePlacement
    BY DEF IInv
  <1>2. QED
    BY <1>1, Invariance, PTL

\* The write-ahead rule: what the broker has accepted is in the database, and
\* never as FAILED.
THEOREM PlacementIsRecorded == Spec => []PlacedIsOnRecord
  <1>1. IInv => PlacedIsOnRecord
    BY DEF IInv
  <1>2. QED
    BY <1>1, Invariance, PTL

\* The outbox rows that exist are the ones the order and position rows call for.
THEOREM EventsFollowRows == Spec => []EventsMatchRows
  <1>1. IInv => EventsMatchRows
    BY DEF IInv
  <1>2. QED
    BY <1>1, Invariance, PTL

\* The only steps that write an order row.
LEMMA RowWriters ==
  ASSUME [Next]_vars, orders' # orders
  PROVE  \/ \E e \in Executors : Persist(e) \/ Fail(e) \/ Unknown(e) \/ Submit(e)
                                  \/ RecordFill(e)
         \/ ResetCommit
  BY DEF Next, vars, broker, Load, CheckExisting, Reserve, PlaceAccepted, PlaceRefused, LookupFound,
         LookupAbsent, LookupError, RaiseIncident, RollbackFill, PlaceStop, DBError,
         ExpireKey, VenueFills, ListOpenOrders, ChangeMode, ResetLoad, ResetPositions,
         ResetOrders, ResetBroker, ResetError, Restart

\* Order rows follow allowedStatusTransitions one version at a time, although
\* executions and resets write them from copies.
THEOREM OrderHistory == Spec => OrderHistoryLegal
  <1> DEFINE Legal(old, new) ==
               IF old = NoOrder THEN new = NewPendingOrder
               ELSE /\ <<old.status, new.status>> \in allowedStatusTransitions
                    /\ new.version = old.version + 1
  <1>1. /\ Legal(NoOrder, NewPendingOrder)
        /\ Legal(NewPendingOrder, Row("SUBMITTED", 2))
        /\ Legal(NewPendingOrder, Row("FAILED", 2))
        /\ Legal(Row("SUBMITTED", 2), Row("FILLED", 3))
        /\ Legal(Row("SUBMITTED", 2), Row("CANCELLED", 3))
    BY DEF NoOrder, NewPendingOrder, Row, allowedStatusTransitions
  <1> HIDE DEF Legal
  <1>2. ASSUME IInv, [Next]_vars, NEW d \in Decisions, orders'[d] # orders[d]
        PROVE  Legal(orders[d], orders'[d])
    <2>1. CASE ResetCommit
      <3>1. ResetSaves
        BY <1>2, <2>1 DEF ResetCommit
      <3>2. QED
        BY <1>1, <1>2, <2>1, <3>1, ResetIsCurrent
    <2>2. ASSUME NEW e \in Executors,
                 Persist(e) \/ Fail(e) \/ Unknown(e) \/ Submit(e) \/ RecordFill(e)
          PROVE  Legal(orders[d], orders'[d])
      <3>1. /\ exec[e].pc \in Steps /\ exec[e].d \in Decisions
            /\ orders[exec[e].d] \in Rows
            /\ orders \in [Decisions -> Order]
        BY <1>2, <2>2, ExecTypes
        DEF IInv, TypeOK, RowsOK, Persist, Fail, Unknown, Submit, RecordFill, At, Steps
      <3>2. CASE Persist(e)
        BY <1>1, <1>2, <3>1, <3>2 DEF Persist
      <3>3. CASE Unknown(e)
        BY <1>2, <3>3, UnknownStep
      <3>4. CASE Fail(e)
        <4>1. exec[e].order = NewPendingOrder
          BY <1>2, <3>4 DEF IInv, Holds, Fail, At
        <4>2. QED
          BY <1>1, <1>2, <3>1, <3>4, <4>1, Transitions, RowSaves DEF Fail
      <3>5. CASE Submit(e)
        <4>1. exec[e].order = NewPendingOrder
          BY <1>2, <3>5 DEF IInv, Holds, Submit, At
        <4>2. QED
          BY <1>1, <1>2, <3>1, <3>5, <4>1, Transitions, RowSaves DEF Submit
      <3>6. CASE RecordFill(e)
        BY <1>1, <1>2, <3>1, <3>6, FillIsCurrent DEF RecordFill
      <3>7. QED
        BY <2>2, <3>2, <3>3, <3>4, <3>5, <3>6
    <2>3. orders' # orders
      BY <1>2
    <2>4. QED
      BY <1>2, <2>1, <2>2, <2>3, RowWriters
  <1>3. IInv /\ [Next]_vars =>
          [\A d \in Decisions :
             orders'[d] # orders[d] =>
               IF orders[d] = NoOrder THEN orders'[d] = NewPendingOrder
               ELSE /\ <<orders[d].status, orders'[d].status>> \in allowedStatusTransitions
                    /\ orders'[d].version = orders[d].version + 1]_vars
    BY <1>2 DEF Legal
  <1>4. QED
    BY <1>3, Invariance, PTL DEF Spec, OrderHistoryLegal

\* The only steps that touch the account or the positions.
LEMMA BookWriters ==
  ASSUME [Next]_vars
  PROVE  \/ UNCHANGED <<account, positions>>
         \/ \E e \in Executors : RecordFill(e)
         \/ \E target \in Targets : ChangeMode(target)
         \/ ResetCommit /\ ResetSaves
  BY DEF Next, vars, broker, Load, CheckExisting, Reserve, Persist, PlaceAccepted, PlaceRefused,
         LookupFound, LookupAbsent, LookupError, Fail, Unknown, RaiseIncident, Submit,
         RollbackFill, PlaceStop, DBError, ExpireKey, VenueFills, ListOpenOrders,
         ResetLoad, ResetPositions, ResetOrders, ResetCommit, ResetBroker,
         ResetError, Restart

\* Every step of the execution, of a reset and of a mode change is a step of
\* EntryBook, or leaves the book alone.
LEMMA BookStep == IInv /\ [Next]_vars => [Book!Next]_(Book!vars)
  <1> SUFFICES ASSUME IInv, [Next]_vars PROVE [Book!Next]_(Book!vars)
    OBVIOUS
  <1>1. CASE UNCHANGED <<account, positions>>
    BY <1>1 DEF Book!vars
  <1>2. ASSUME NEW e \in Executors, RecordFill(e) PROVE Book!Next
    <2> DEFINE d == exec[e].d
    <2>1. At(e, "book") /\ FillSaves(e)
      BY <1>2 DEF RecordFill
    <2>2. /\ d \in Decisions
          /\ AllowsNewEntries(account.mode)
          /\ positions[d] = "NONE"
          /\ Notional[d] <= account.available
          /\ account' = [mode |-> account.mode, version |-> account.version + 1,
                         available |-> account.available - Notional[d]]
          /\ positions' = [positions EXCEPT ![d] = "OPEN"]
      BY <1>2, <2>1, FillIsCurrent DEF RecordFill
    <2>3. \A c \in Decisions : SymbolOf[c] = SymbolOf[d] => positions[c] # "OPEN"
      BY <2>1 DEF FillSaves, OpenOn
    <2>4. Book!Book(d)
      BY <2>2, <2>3 DEF Book!Book, Book!AllowsNewEntries, AllowsNewEntries
    <2>5. QED
      BY <2>2, <2>4 DEF Book!Next
  <1>3. ASSUME NEW target \in Targets, ChangeMode(target) PROVE Book!Next
    <2>1. target \in Mode
      BY ExecutionAssumption
    <2>2. Book!Move(target)
      BY <1>3
      DEF ChangeMode, Book!Move, Book!CanTransition, Book!allowedTransitions,
          CanTransition, allowedTransitions
    <2>3. QED
      BY <2>1, <2>2 DEF Book!Next, Book!Mode, Mode
  <1>4. CASE ResetCommit /\ ResetSaves
    <2>1. Book!Clear
      BY <1>4, ResetIsCurrent DEF Book!Clear
    <2>2. QED
      BY <2>1 DEF Book!Next
  <1>5. QED
    BY <1>1, <1>2, <1>3, <1>4, BookWriters

\* OrderExecution implements EntryBook: a fill is booked in one atomic step
\* that is legal at that moment, whatever the execution read before, and a
\* reset frees exactly the margin of the positions it closes.
THEOREM ExecutionImplementsEntryBook == Spec => ImplementsEntryBook
  <1>1. Init => Book!Init
    BY DEF Init, Book!Init
  <1>2. QED
    BY <1>1, BookStep, Invariance, PTL DEF Spec, ImplementsEntryBook, Book!Spec

\* The positions that hold margin, which only a fill adds to: so they are
\* finitely many, and have a sum, however many decisions there are.
OpenPositions == {d \in Decisions : positions[d] = "OPEN"}
MarginInv == IsFiniteSet(OpenPositions) /\ MarginMatchesPositions

\* A fill reserves exactly the margin of the position it opens, and a reset
\* that closes every position gives back all of it: the step of the book that
\* an execution takes keeps the balance, because the book's guard has seen the
\* balance and the positions of that very moment.
LEMMA MarginStep == IInv /\ MarginInv /\ [Next]_vars => MarginInv'
<1> SUFFICES ASSUME IInv, MarginInv, [Next]_vars PROVE MarginInv'
  OBVIOUS
<1> USE DEF MarginInv, MarginMatchesPositions
<1>1. [Book!Next]_(Book!vars)
  BY BookStep
<1>2. /\ account.available \in Nat /\ StartingBalance \in Nat /\ Notional \in [Decisions -> Nat]
      /\ positions \in [Decisions -> {"NONE", "OPEN", "CLOSED"}]
  BY ExecutionAssumption DEF IInv, TypeOK, Account
<1>3. CASE UNCHANGED <<account.available, positions>>
  BY <1>3 DEF OpenPositions
<1>4. ASSUME NEW d \in Decisions, Book!Book(d) PROVE MarginInv'
  <2>1. /\ positions[d] = "NONE" /\ Notional[d] <= account.available
        /\ positions' = [positions EXCEPT ![d] = "OPEN"]
        /\ account.available' = account.available - Notional[d]
    BY <1>4 DEF Book!Book
  <2>2. OpenPositions' = OpenPositions \cup {d} /\ d \notin OpenPositions
    BY <1>2, <2>1 DEF OpenPositions
  <2>3. IsFiniteSet(OpenPositions')
    BY <2>2, FS_AddElement
  <2>4. SumFunctionOnSet(Notional, OpenPositions')
            = SumFunctionOnSet(Notional, OpenPositions) + Notional[d]
    <3>1. \A x \in OpenPositions : Notional[x] \in Int
      BY <1>2 DEF OpenPositions
    <3>2. QED
      BY <1>2, <2>2, <3>1, SumAdd
  <2>5. SumFunctionOnSet(Notional, OpenPositions) \in Nat
    <3>1. \A x \in OpenPositions : Notional[x] \in Nat
      BY <1>2 DEF OpenPositions
    <3>2. QED
      BY <3>1, SumType
  <2>6. account.available + SumFunctionOnSet(Notional, OpenPositions) = StartingBalance
    BY DEF OpenPositions
  <2>7. Notional[d] \in Nat
    BY <1>2
  <2>8. account.available' + SumFunctionOnSet(Notional, OpenPositions') = StartingBalance
    BY <1>2, <2>1, <2>4, <2>5, <2>6, <2>7
  <2>9. QED
    BY <2>3, <2>8 DEF OpenPositions
<1>5. CASE Book!Clear
  <2>1. OpenPositions' = {} /\ account.available' = StartingBalance
    BY <1>5 DEF Book!Clear, OpenPositions
  <2>2. SumFunctionOnSet(Notional, OpenPositions') = 0
    BY <2>1, SumEmpty
  <2>3. account.available' + SumFunctionOnSet(Notional, OpenPositions') = StartingBalance
    BY <1>2, <2>1, <2>2
  <2>4. QED
    BY <2>1, <2>3, FS_EmptySet DEF OpenPositions
<1>6. QED
  BY <1>1, <1>3, <1>4, <1>5 DEF Book!Next, Book!vars, Book!Move

\* Whatever executions, resets and mode changes run together, with accounts
\* they read long before, the balance not available is the margin of the open
\* positions (execute_approved_order.go 234-318, reset_paper_state.go).
THEOREM MarginIsPositions == Spec => []MarginMatchesPositions
<1>1. Init => MarginInv
  <2> SUFFICES ASSUME Init PROVE MarginInv
    OBVIOUS
  <2>1. OpenPositions = {} /\ account.available = StartingBalance
    BY DEF Init, OpenPositions
  <2>2. SumFunctionOnSet(Notional, OpenPositions) = 0
    BY <2>1, SumEmpty
  <2>3. account.available + SumFunctionOnSet(Notional, OpenPositions) = StartingBalance
    BY <2>1, <2>2, ExecutionAssumption
  <2>4. QED
    BY <2>1, <2>3, FS_EmptySet DEF MarginInv, MarginMatchesPositions, OpenPositions
<1>2. MarginInv => MarginMatchesPositions
  BY DEF MarginInv
<1>3. QED
  BY <1>1, <1>2, MarginStep, Invariance, PTL DEF Spec
=============================================================================
