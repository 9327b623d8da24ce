--------------------------- MODULE OrderExecution ---------------------------
(***************************************************************************)
(* ExecuteApprovedOrder: how an approved risk decision becomes an order at *)
(* the broker and a position in the database.                              *)
(*                                                                         *)
(* Executions run concurrently with each other (retries and races for the  *)
(* same decision included), with mode changes, with ResetPaperState and    *)
(* with crashes.  One step is one database statement or transaction, or    *)
(* one call of the broker.  An execution keeps in memory the account it    *)
(* loaded first, its own copy of the order and the broker's reply.         *)
(*                                                                         *)
(* An order row is named by its decision, since the client order id is the *)
(* decision id and unique.  The broker is either the in-process simulator  *)
(* (Venue = "PAPER") or the REST adapter of testnet and real ("BINANCE").  *)
(* The mode moves atomically here: OperationalMode shows that it does.     *)
(***************************************************************************)
EXTENDS Modes, Naturals, FiniteSetsExt

CONSTANTS
    Decisions,       \* approved risk decisions
    Symbols,
    SymbolOf,        \* the symbol each decision trades
    Notional,        \* the margin each decision's fill reserves
    Executors,       \* executions that can be in flight together
    Venue,           \* which adapter provideBroker built
    StartingBalance, \* the available balance of a fresh paper account
    Targets,         \* the modes that requests ask for
    MaxVersion       \* bound: mode changes and resets stop at this version

ASSUME ExecutionAssumption ==
    /\ SymbolOf \in [Decisions -> Symbols]
    /\ Notional \in [Decisions -> Nat]
    /\ Venue \in {"PAPER", "BINANCE"}
    /\ StartingBalance \in Nat
    /\ Targets \subseteq Mode
    /\ MaxVersion \in Nat

VARIABLES
    account,    \* row of the active account: [mode, version, available]
    orders,     \* orders[d]: the order row of d, or NoOrder
    positions,  \* positions[d]: the status of the position that d's fill opened
    keys,       \* decisions whose idempotency key is reserved and not expired
    outbox,     \* outbox rows written: <<event type, decision>>
    incidents,  \* decisions with an UNKNOWN_ORDER_STATE incident
    venue,      \* venue[d]: d's order as the broker knows it
    stops,      \* decisions whose protective stop rests at the broker
    seen,       \* client order ids in the adapter's symbolByClient cache
    placements, \* history: how many orders the broker accepted for d
    exec,       \* exec[e]: the execution e is running
    reset       \* the paper reset in flight

vars == <<account, orders, positions, keys, outbox, incidents, venue, stops,
          seen, placements, exec, reset>>
broker == <<venue, stops, seen, placements>>
-----------------------------------------------------------------------------
\* Order.Status and its legal transitions (allowedStatusTransitions).
Status == {"PENDING", "SUBMITTED", "PARTIALLY_FILLED", "FILLED", "CANCELLED",
           "REJECTED", "FAILED", "UNKNOWN"}

PendingIsCancellable ==
    {"PENDING"} \X {"SUBMITTED", "FAILED", "CANCELLED"}
    \cup {"SUBMITTED"} \X {"PARTIALLY_FILLED", "FILLED", "CANCELLED", "REJECTED", "UNKNOWN"}

allowedStatusTransitions ==
    {"PENDING"} \X {"SUBMITTED", "FAILED"}
    \cup {"SUBMITTED"} \X {"PARTIALLY_FILLED", "FILLED", "CANCELLED", "REJECTED", "UNKNOWN"}
    \cup {"PARTIALLY_FILLED"} \X {"FILLED", "CANCELLED", "UNKNOWN"}
    \cup {"UNKNOWN"} \X {"SUBMITTED", "PARTIALLY_FILLED", "FILLED", "CANCELLED",
                         "REJECTED", "FAILED"}

Terminal == {"FILLED", "CANCELLED", "REJECTED", "FAILED"}

NoOrder == [status |-> "NONE", version |-> 0]
NewPendingOrder == [status |-> "PENDING", version |-> 1]

\* Order.transition: an illegal transition is an error that changes nothing.
Transition(o, target) ==
    IF <<o.status, target>> \in allowedStatusTransitions
    THEN [status |-> target, version |-> o.version + 1]
    ELSE o

\* Repository.Save on an existing row: it must still be the one that was read.
SavesAnyVersion(row, obj) == TRUE
Saves(row, obj) == row.version = obj.version - 1

\* Account.ReserveMargin: refused, it leaves even the version as it was.
ReserveMargin(acct, amount) ==
    IF amount > acct.available THEN acct
    ELSE [mode |-> acct.mode, version |-> acct.version + 1,
          available |-> acct.available - amount]

OpenOn(symbol) ==
    {d \in Decisions : positions[d] = "OPEN" /\ SymbolOf[d] = symbol}
-----------------------------------------------------------------------------
Account == [mode : Mode, version : Nat, available : Nat]
Order   == [status : Status \cup {"NONE"}, version : Nat]

Idle == [pc |-> "idle"]

\* Where an execution stands: the next call it makes.
Steps == {"check", "reserve", "persist", "place", "lookup", "fail", "unknown",
          "incident", "submit", "book", "stop"}
Execution ==
    {Idle} \cup [pc : Steps, d : Decisions, acct : Account, order : Order,
                 reply : {"NONE", "NEW", "FILLED"}]

Reset ==
    {Idle}
    \cup [pc : {"positions"}, acct : Account]
    \cup [pc : {"orders"}, acct : Account, open : SUBSET Decisions]
    \cup [pc : {"commit"}, acct : Account, open : SUBSET Decisions,
          rows : [Decisions -> Order]]
    \cup [pc : {"broker"}]

EventTypes == {"OrderCreated", "OrderSubmitted", "OrderFilled", "PositionOpened"}

TypeOK ==
    /\ account \in Account
    /\ orders \in [Decisions -> Order]
    /\ positions \in [Decisions -> {"NONE", "OPEN", "CLOSED"}]
    /\ keys \subseteq Decisions
    /\ outbox \subseteq EventTypes \X Decisions
    /\ incidents \subseteq Decisions
    /\ venue \in [Decisions -> {"NONE", "NEW", "FILLED"}]
    /\ stops \subseteq Decisions
    /\ seen \subseteq Decisions
    /\ placements \in [Decisions -> Nat]
    /\ exec \in [Executors -> Execution]
    /\ reset \in Reset

Init ==
    /\ account = [mode |-> "PAPER", version |-> 1, available |-> StartingBalance]
    /\ orders = [d \in Decisions |-> NoOrder]
    /\ positions = [d \in Decisions |-> "NONE"]
    /\ keys = {}
    /\ outbox = {}
    /\ incidents = {}
    /\ venue = [d \in Decisions |-> "NONE"]
    /\ stops = {}
    /\ seen = {}
    /\ placements = [d \in Decisions |-> 0]
    /\ exec = [e \in Executors |-> Idle]
    /\ reset = Idle
-----------------------------------------------------------------------------
(* The execution, up to the call of the broker. *)

At(e, pc) == exec[e].pc = pc
Continue(e, pc, order, reply) ==
    exec' = [exec EXCEPT ![e] = [pc |-> pc, d |-> exec[e].d, acct |-> exec[e].acct,
                                 order |-> order, reply |-> reply]]
Goto(e, pc) == Continue(e, pc, exec[e].order, exec[e].reply)
Return(e) == exec' = [exec EXCEPT ![e] = Idle]

\* Load the decision, its signal and the account; skip unless the account's
\* mode allows new entries.  Decisions and signals never change.
Load(e, d) ==
    /\ exec[e] = Idle
    /\ AllowsNewEntries(account.mode)
    /\ exec' = [exec EXCEPT ![e] = [pc |-> "check", d |-> d, acct |-> account,
                                    order |-> NoOrder, reply |-> "NONE"]]
    /\ UNCHANGED <<account, orders, positions, keys, outbox, incidents, broker, reset>>

\* orders.GetByClientOrderID: skip if the decision already has an order.
CheckExisting(e) ==
    /\ At(e, "check")
    /\ IF orders[exec[e].d] = NoOrder THEN Goto(e, "reserve") ELSE Return(e)
    /\ UNCHANGED <<account, orders, positions, keys, outbox, incidents, broker, reset>>

\* idempotent.Reserve: the (scope, key) row is free or expired, or skip.
Reserve(e) ==
    /\ At(e, "reserve")
    /\ IF exec[e].d \in keys THEN Return(e) ELSE Goto(e, "persist")
    /\ keys' = keys \cup {exec[e].d}
    /\ UNCHANGED <<account, orders, positions, outbox, incidents, broker, reset>>

\* The ten minutes of a reservation pass.
ExpireKey(d) ==
    /\ d \in keys
    /\ keys' = keys \ {d}
    /\ UNCHANGED <<account, orders, positions, outbox, incidents, broker, exec, reset>>

PersistOverExisting(e) ==
    /\ At(e, "persist")
    /\ orders' = [orders EXCEPT ![exec[e].d] = NewPendingOrder]
    /\ outbox' = outbox \cup {<<"OrderCreated", exec[e].d>>}
    /\ Continue(e, "place", NewPendingOrder, "NONE")
    /\ UNCHANGED <<account, positions, keys, incidents, broker, reset>>

\* One transaction inserts the PENDING order and its outbox row, unless
\* orders_client_order_id_idx finds an order of the same decision.
Persist(e) ==
    /\ At(e, "persist")
    /\ IF orders[exec[e].d] = NoOrder
       THEN /\ orders' = [orders EXCEPT ![exec[e].d] = NewPendingOrder]
            /\ outbox' = outbox \cup {<<"OrderCreated", exec[e].d>>}
            /\ Continue(e, "place", NewPendingOrder, "NONE")
       ELSE Return(e) /\ UNCHANGED <<orders, outbox>>
    /\ UNCHANGED <<account, positions, keys, incidents, broker, reset>>
-----------------------------------------------------------------------------
(* The broker's answers to PlaceOrder and FindOrderByClientOrderID. *)

\* The broker accepts the order: the simulator fills it at once and returns
\* the order it has when it knows the client id already; the exchange starts a
\* new order, filled or resting, and its reply may be lost on the way back.
PlaceAccepted(e, status, replied) ==
    /\ At(e, "place")
    /\ Venue = "PAPER" => status = "FILLED" /\ replied
    /\ LET d     == exec[e].d
           known == Venue = "PAPER" /\ venue[d] # "NONE"
       IN  /\ venue' = [venue EXCEPT ![d] = status]
           /\ placements' = IF known THEN placements
                            ELSE [placements EXCEPT ![d] = @ + 1]
           /\ seen' = IF replied THEN seen \cup {d} ELSE seen
    /\ IF replied
       THEN Continue(e, "submit", exec[e].order, status)
       ELSE Goto(e, "lookup")
    /\ UNCHANGED <<account, orders, positions, keys, outbox, incidents, stops, reset>>

\* The broker refuses the order, or the request never reaches it: simulated
\* balance too small, API error, open circuit breaker, network failure.
PlaceRefused(e) ==
    /\ At(e, "place")
    /\ Venue = "PAPER" => venue[exec[e].d] = "NONE"
    /\ Goto(e, "lookup")
    /\ UNCHANGED <<account, orders, positions, keys, outbox, incidents, broker, reset>>

\* The simulator looks in its own books; the REST adapter can only ask about a
\* client order id whose symbol this process has seen.
CanLookUp(d) == Venue = "PAPER" \/ d \in seen

LookupFound(e) ==
    /\ At(e, "lookup")
    /\ CanLookUp(exec[e].d)
    /\ venue[exec[e].d] # "NONE"
    /\ Continue(e, "submit", exec[e].order, venue[exec[e].d])
    /\ UNCHANGED <<account, orders, positions, keys, outbox, incidents, broker, reset>>

LookupAbsent(e) ==
    /\ At(e, "lookup")
    /\ CanLookUp(exec[e].d)
    /\ venue[exec[e].d] = "NONE"
    /\ Goto(e, "fail")
    /\ UNCHANGED <<account, orders, positions, keys, outbox, incidents, broker, reset>>

LookupErrorAsAbsent(e) ==
    /\ At(e, "lookup")
    /\ Venue = "BINANCE"
    /\ Goto(e, "fail")
    /\ UNCHANGED <<account, orders, positions, keys, outbox, incidents, broker, reset>>

\* Any other error: a second network failure, or a symbol never seen.
LookupError(e) ==
    /\ At(e, "lookup")
    /\ Venue = "BINANCE"
    /\ Goto(e, "unknown")
    /\ UNCHANGED <<account, orders, positions, keys, outbox, incidents, broker, reset>>

\* A resting order fills at the exchange.
VenueFills(d) ==
    /\ venue[d] = "NEW"
    /\ venue' = [venue EXCEPT ![d] = "FILLED"]
    /\ UNCHANGED <<account, orders, positions, keys, outbox, incidents, stops, seen,
                   placements, exec, reset>>

\* The reconciliation scheduler lists the open orders, and the REST adapter
\* remembers the symbol of each.
ListOpenOrders ==
    /\ Venue = "BINANCE"
    /\ seen' = seen \cup {d \in Decisions : venue[d] = "NEW"}
    /\ UNCHANGED <<account, orders, positions, keys, outbox, incidents, venue, stops,
                   placements, exec, reset>>
-----------------------------------------------------------------------------
(* The execution, after the broker has answered. *)

\* The broker says there is no such order: Order.Fail, saved by itself; an
\* error of the save is ignored.
Fail(e) ==
    /\ At(e, "fail")
    /\ LET d == exec[e].d
           o == Transition(exec[e].order, "FAILED")
       IN  orders' = IF Saves(orders[d], o) THEN [orders EXCEPT ![d] = o] ELSE orders
    /\ Return(e)
    /\ UNCHANGED <<account, positions, keys, outbox, incidents, broker, reset>>

\* The outcome is unknown: Order.MarkUnknown, saved by itself; the errors of
\* both are ignored.
Unknown(e) ==
    /\ At(e, "unknown")
    /\ LET d == exec[e].d
           o == Transition(exec[e].order, "UNKNOWN")
       IN  orders' = IF Saves(orders[d], o) THEN [orders EXCEPT ![d] = o] ELSE orders
    /\ Goto(e, "incident")
    /\ UNCHANGED <<account, positions, keys, outbox, incidents, broker, reset>>

\* raiseUnknownStateIncident, the last thing an execution does.
RaiseIncident(e) ==
    /\ At(e, "incident")
    /\ incidents' = incidents \cup {exec[e].d}
    /\ Return(e)
    /\ UNCHANGED <<account, orders, positions, keys, outbox, broker, reset>>

\* One transaction records the acknowledgement and its outbox row.  Only an
\* order the broker reports as filled is followed further.
Submit(e) ==
    /\ At(e, "submit")
    /\ LET d == exec[e].d
           o == Transition(exec[e].order, "SUBMITTED")
       IN  IF Saves(orders[d], o)
           THEN /\ orders' = [orders EXCEPT ![d] = o]
                /\ outbox' = outbox \cup {<<"OrderSubmitted", d>>}
                /\ IF exec[e].reply = "FILLED"
                   THEN Continue(e, "book", o, "FILLED")
                   ELSE Return(e)
           ELSE Return(e) /\ UNCHANGED <<orders, outbox>>
    /\ UNCHANGED <<account, positions, keys, incidents, broker, reset>>

\* What reconcileFreshOrder is about to save, and whether all of it goes in:
\* the order and the account are as they were read, and
\* positions_open_symbol_idx finds no open position of the symbol.
FilledOrder(e) == Transition(exec[e].order, "FILLED")
MarginedAccount(e) == ReserveMargin(exec[e].acct, Notional[exec[e].d])
FillSaves(e) ==
    /\ Saves(orders[exec[e].d], FilledOrder(e))
    /\ OpenOn(SymbolOf[exec[e].d]) = {}
    /\ Saves(account, MarginedAccount(e))

\* One transaction: the filled order, the new position, the account with the
\* margin reserved, and two outbox rows.
RecordFill(e) ==
    /\ At(e, "book")
    /\ FillSaves(e)
    /\ LET d == exec[e].d
       IN  /\ orders' = [orders EXCEPT ![d] = FilledOrder(e)]
           /\ positions' = [positions EXCEPT ![d] = "OPEN"]
           /\ account' = MarginedAccount(e)
           /\ outbox' = outbox \cup {<<"OrderFilled", d>>, <<"PositionOpened", d>>}
    /\ Goto(e, "stop")
    /\ UNCHANGED <<keys, incidents, broker, reset>>

\* Or all of it rolls back and the execution ends with an error: the broker
\* keeps the fill.  A margin that cannot be reserved raises an incident first.
RollbackFill(e) ==
    /\ At(e, "book")
    /\ ~FillSaves(e)
    /\ incidents' = IF Notional[exec[e].d] > exec[e].acct.available
                    THEN incidents \cup {exec[e].d} ELSE incidents
    /\ Return(e)
    /\ UNCHANGED <<account, orders, positions, keys, outbox, broker, reset>>

\* broker.PlaceStop.  The simulator always accepts; at the exchange the stop
\* may be refused, or placed and its reply lost: both raise an incident.
PlaceStop(e, placed, replied) ==
    /\ At(e, "stop")
    /\ Venue = "PAPER" => placed /\ replied
    /\ replied => placed
    /\ stops' = IF placed THEN stops \cup {exec[e].d} ELSE stops
    /\ IF replied THEN Return(e) ELSE Goto(e, "incident")
    /\ UNCHANGED <<account, orders, positions, keys, outbox, incidents, venue, seen,
                   placements, reset>>

\* A database call of the execution fails, and with it the execution: nothing
\* was written, or it was and only the acknowledgement is lost, which leaves
\* the execution as if it had stopped one step further on.
DBError(e) ==
    /\ exec[e].pc \in {"check", "reserve", "persist", "place", "fail", "incident",
                       "submit", "book", "stop"}
    /\ Return(e)
    /\ UNCHANGED <<account, orders, positions, keys, outbox, incidents, broker, reset>>

\* The process crashes or restarts.  What is in its memory is lost: every
\* execution and reset, the symbol cache and all of the simulator.
Restart ==
    /\ exec' = [e \in Executors |-> Idle]
    /\ reset' = Idle
    /\ seen' = {}
    /\ venue' = IF Venue = "PAPER" THEN [d \in Decisions |-> "NONE"] ELSE venue
    /\ stops' = IF Venue = "PAPER" THEN {} ELSE stops
    /\ UNCHANGED <<account, orders, positions, keys, outbox, incidents, placements>>

\* A committed change of the operational mode.
ChangeMode(target) ==
    /\ CanTransition(account.mode, target) /\ target # "REAL"
    /\ account.version < MaxVersion
    /\ account' = [mode |-> target, version |-> account.version + 1,
                   available |-> account.available]
    /\ UNCHANGED <<orders, positions, keys, outbox, incidents, broker, exec, reset>>
-----------------------------------------------------------------------------
(* ResetPaperState. *)

\* The account must be in PAPER mode and the broker the simulator.
ResetLoad ==
    /\ reset = Idle
    /\ Venue = "PAPER" /\ account.mode = "PAPER"
    /\ reset' = [pc |-> "positions", acct |-> account]
    /\ UNCHANGED <<account, orders, positions, keys, outbox, incidents, broker, exec>>

ResetPositions ==
    /\ reset.pc = "positions"
    /\ reset' = [pc |-> "orders", acct |-> reset.acct,
                 open |-> {d \in Decisions : positions[d] = "OPEN"}]
    /\ UNCHANGED <<account, orders, positions, keys, outbox, incidents, broker, exec>>

\* orders.ListOpen; a row that is terminal or absent is kept as NoOrder.
ResetOrders ==
    /\ reset.pc = "orders"
    /\ reset' = [pc |-> "commit", acct |-> reset.acct, open |-> reset.open,
                 rows |-> [d \in Decisions |->
                     IF orders[d].status \in Terminal THEN NoOrder ELSE orders[d]]]
    /\ UNCHANGED <<account, orders, positions, keys, outbox, incidents, broker, exec>>

\* The rows the reset cancels; Order.Cancel refuses the others, which are skipped.
Cancellable == {d \in Decisions :
                   <<reset.rows[d].status, "CANCELLED">> \in allowedStatusTransitions}

FreshAccountRebased == [mode |-> "PAPER", version |-> account.version + 1,
                        available |-> StartingBalance]
FreshAccount == [mode |-> "PAPER", version |-> reset.acct.version + 1,
                 available |-> StartingBalance]

ResetSaves ==
    /\ \A d \in reset.open : positions[d] = "OPEN"
    /\ \A d \in Cancellable : Saves(orders[d], Transition(reset.rows[d], "CANCELLED"))
    /\ Saves(account, FreshAccount)

\* One transaction closes the positions, cancels the orders and replaces the
\* account; or all of it rolls back.
ResetCommit ==
    /\ reset.pc = "commit"
    /\ account.version < MaxVersion
    /\ IF ResetSaves
       THEN /\ positions' = [d \in Decisions |->
                  IF d \in reset.open THEN "CLOSED" ELSE positions[d]]
            /\ orders' = [d \in Decisions |->
                  IF d \in Cancellable THEN Transition(reset.rows[d], "CANCELLED")
                  ELSE orders[d]]
            /\ account' = FreshAccount
            /\ reset' = [pc |-> "broker"]
       ELSE reset' = Idle /\ UNCHANGED <<account, orders, positions>>
    /\ UNCHANGED <<keys, outbox, incidents, broker, exec>>

\* Broker.Reset wipes the simulator, after the transaction.
ResetBroker ==
    /\ reset.pc = "broker"
    /\ venue' = [d \in Decisions |-> "NONE"]
    /\ stops' = {}
    /\ reset' = Idle
    /\ UNCHANGED <<account, orders, positions, keys, outbox, incidents, seen,
                   placements, exec>>

\* A database call of the reset fails, the commit possibly after it took effect.
ResetError ==
    /\ reset # Idle
    /\ reset' = Idle
    /\ UNCHANGED <<account, orders, positions, keys, outbox, incidents, broker, exec>>
-----------------------------------------------------------------------------
Next ==
    \/ \E e \in Executors :
          \/ \E d \in Decisions : Load(e, d)
          \/ CheckExisting(e) \/ Reserve(e) \/ Persist(e)
          \/ \E status \in {"NEW", "FILLED"}, replied \in BOOLEAN :
                PlaceAccepted(e, status, replied)
          \/ PlaceRefused(e)
          \/ LookupFound(e) \/ LookupAbsent(e) \/ LookupError(e)
          \/ Fail(e) \/ Unknown(e) \/ RaiseIncident(e)
          \/ Submit(e) \/ RecordFill(e) \/ RollbackFill(e)
          \/ \E placed, replied \in BOOLEAN : PlaceStop(e, placed, replied)
          \/ DBError(e)
    \/ \E d \in Decisions : ExpireKey(d) \/ VenueFills(d)
    \/ ListOpenOrders
    \/ \E target \in Targets : ChangeMode(target)
    \/ ResetLoad \/ ResetPositions \/ ResetOrders \/ ResetCommit \/ ResetBroker
    \/ ResetError
    \/ Restart

Spec == Init /\ [][Next]_vars
-----------------------------------------------------------------------------
\* However often a decision is executed, concurrently or again after its key
\* expired, a crash or an error, the broker accepts at most one order for it.
AtMostOnePlacement == \A d \in Decisions : placements[d] <= 1

\* An order the broker accepted is on record, never under a status that says
\* the broker has not got it: the row is written before the call, and FAILED
\* only on the broker's word that there is no such order.
PlacedIsOnRecord ==
    \A d \in Decisions : placements[d] > 0 => orders[d].status \notin {"NONE", "FAILED"}

\* The balance not available is the margin of the open positions, even when
\* fills and resets race with copies of the account read long before.
MarginMatchesPositions ==
    account.available
        + SumFunctionOnSet(Notional, {d \in Decisions : positions[d] = "OPEN"})
        = StartingBalance

\* The outbox tells what the rows say: an order was created iff it exists,
\* submitted iff the broker's acknowledgement is recorded, and filled iff it
\* opened a position; a reset that cancels a row cannot separate them.
EventsMatchRows ==
    \A d \in Decisions :
        /\ <<"OrderCreated", d>> \in outbox <=> orders[d] # NoOrder
        /\ <<"OrderSubmitted", d>> \in outbox <=>
               orders[d].status \in {"SUBMITTED", "FILLED", "CANCELLED"}
        /\ <<"OrderFilled", d>> \in outbox <=> orders[d].status = "FILLED"
        /\ <<"PositionOpened", d>> \in outbox <=> positions[d] # "NONE"
        /\ orders[d].status = "FILLED" <=> positions[d] # "NONE"

\* An order row never disappears and only moves along the legal transitions,
\* one version at a time, whoever writes it: an execution or a reset holding
\* an older copy.
OrderHistoryLegal ==
    [][\A d \in Decisions :
         orders'[d] # orders[d] =>
           IF orders[d] = NoOrder THEN orders'[d] = NewPendingOrder
           ELSE /\ <<orders[d].status, orders'[d].status>> \in allowedStatusTransitions
                /\ orders'[d].version = orders[d].version + 1]_vars

\* Positions, margin and mode behave as the abstract entry book: no position
\* is booked after the mode stopped allowing entries, however long before
\* the execution read it, and a reset closes exactly what it frees.
Book == INSTANCE EntryBook WITH mode <- account.mode, available <- account.available
ImplementsEntryBook == Book!Spec

\* "Activate the kill switch (blocks all new entries; overrides every other
\* mode)": no order reaches the broker while the kill switch is on.
KillSwitchBlocksEntries ==
    [][placements' # placements => account.mode # "KILL_SWITCH"]_vars

\* An outcome nobody could determine is recorded: an order with an incident
\* about an unknown state is not left PENDING, as if never sent.
UnknownIsRecorded ==
    \A d \in incidents : orders[d].status # "PENDING"
=============================================================================
