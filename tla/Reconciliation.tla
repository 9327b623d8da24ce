--------------------------- MODULE Reconciliation ---------------------------
(***************************************************************************)
(* ReconcileBrokerState against the executions and resets it watches.      *)
(*                                                                         *)
(* cmd/api executes orders one after the other (HandleCandle returns when  *)
(* the execution does), serves mode changes and paper resets, and runs a   *)
(* reconciliation pass every 30 seconds; cmd/worker only runs passes.  In  *)
(* PAPER each process has a simulator of its own, lost when it restarts;   *)
(* otherwise both talk to the one exchange, whose calls can fail.          *)
(*                                                                         *)
(* A step is one call of the broker or one database statement or           *)
(* transaction.  The steps of an execution that neither the broker nor a   *)
(* pass can see are in OrderExecution; the two rows of a mode change are   *)
(* in OperationalMode and move together here, in the account.  Passes of   *)
(* the two processes only meet where both force CLOSE_ONLY, which is in    *)
(* OperationalMode too: here one pass runs at a time.  The local balance   *)
(* and equity are StartingBalance always: no use case writes them but      *)
(* bootstrap and the reset.                                                *)
(***************************************************************************)
EXTENDS Modes, PaperBook

CONSTANTS
    Processes, \* "api", and "worker" where cmd/worker is deployed
    Tolerance, \* the relative tolerance, in thousandths
    Targets,   \* the modes that operators ask for
    MaxOrders, \* bound: how many of the decisions are executed
    MaxFaults  \* bound: restarts, failed calls and failed statements

ASSUME ReconciliationAssumption ==
    /\ Processes \subseteq {"api", "worker"} /\ "api" \in Processes
    /\ Tolerance \in Nat
    /\ Targets \subseteq Mode \ {"REAL"}
    /\ MaxOrders \in Nat
    /\ MaxFaults \in Nat

VARIABLES
    venue,     \* cfg.Broker.Mode: which adapter was built; never changes
    books,     \* books[p]: the broker as process p sees it
    mode,      \* the operational mode, in the account row and in its own
    orders,    \* orders[d]: the status of d's order row
    positions, \* positions[d]: the status of the position that d's fill opened
    exec,      \* the execution in flight
    reset,     \* the paper reset in flight: the next thing it does
    pass,      \* the reconciliation pass in flight
    stale,     \* which of them read an account row that was saved since
    incidents, \* severities of the divergence incidents raised so far
    lost,      \* history: fills that a restarted simulator has forgotten
    overtaken, \* history: fills a reset took from the simulator and left in the rows
    faults     \* history: faults so far

vars == <<venue, books, mode, orders, positions, exec, reset, pass, stale, incidents,
          lost, overtaken, faults>>
history == <<venue, incidents, lost, overtaken, faults>>

Idle == [pc |-> "idle"]
OrderStatus == {"NONE", "PENDING", "SUBMITTED", "FILLED", "FAILED", "CANCELLED"}
Passes ==
    {Idle} \cup [pc : {"commit"}, p : Processes]
    \cup [pc : {"positions", "brokerPositions", "orders", "raise"}, p : Processes,
          found : BOOLEAN, critical : BOOLEAN, open : SUBSET Decisions]

TypeOK ==
    /\ venue \in {"PAPER", "BINANCE"}
    /\ books \in [Processes -> Books]
    /\ mode \in Mode
    /\ orders \in [Decisions -> OrderStatus]
    /\ positions \in [Decisions -> {"NONE", "OPEN", "CLOSED"}]
    /\ exec \in {Idle} \cup [pc : {"place", "book"}, d : Decisions]
             \cup [pc : {"submit"}, d : Decisions, reply : {"NEW", "FILLED"}]
    /\ reset \in {"idle", "commit", "broker"}
    /\ pass \in Passes
    /\ stale \subseteq {"exec", "reset", "pass"}
    /\ incidents \subseteq {"MEDIUM", "CRITICAL"}
    /\ lost \subseteq Decisions /\ overtaken \subseteq Decisions
    /\ faults \in Nat

Init ==
    /\ venue \in {"PAPER", "BINANCE"}
    /\ books = [p \in Processes |-> EmptyBook]
    /\ mode = "PAPER"
    /\ orders = [d \in Decisions |-> "NONE"]
    /\ positions = [d \in Decisions |-> "NONE"]
    /\ exec = Idle /\ reset = "idle" /\ pass = Idle /\ stale = {}
    /\ incidents = {} /\ lost = {} /\ overtaken = {} /\ faults = 0

\* The broker behind p's adapter after it changed.
SetBook(p, book) ==
    books' = [q \in Processes |->
                IF q = p \/ venue = "BINANCE" THEN book ELSE books[q]]

\* Whoever saves the account row makes the copies of the others stale: their
\* own save finds another version and rolls back (ErrOptimisticLock).
Holders ==
    (IF exec = Idle THEN {} ELSE {"exec"})
    \cup (IF reset = "commit" THEN {"reset"} ELSE {})
    \cup (IF pass.pc = "commit" THEN {"pass"} ELSE {})
AccountSaved(by) == stale' = Holders \ {by}
Forget(by) == stale' = stale \ {by}
-----------------------------------------------------------------------------
(* ExecuteApprovedOrder, as far as the broker and a pass can tell. *)

\* The mode is checked on the account as loaded; the PENDING row goes in.
Load(d) ==
    /\ exec = Idle
    /\ orders[d] = "NONE"
    /\ Cardinality({x \in Decisions : orders[x] # "NONE"}) < MaxOrders
    /\ AllowsNewEntries(mode)
    /\ orders' = [orders EXCEPT ![d] = "PENDING"]
    /\ exec' = [pc |-> "place", d |-> d]
    /\ UNCHANGED <<books, mode, positions, reset, pass, stale, history>>

Rests(book, d) == [balance |-> book.balance, positions |-> book.positions,
                   orders |-> [book.orders EXCEPT ![d] = "NEW"]]

\* toBrokerOrder: a reply that carries no average price has none, and such an
\* order does not count as filled.
Reply(status, priced) == IF status = "FILLED" /\ priced THEN "FILLED" ELSE "NEW"

\* The simulator fills at once; the exchange may let the order rest, or say
\* nothing of the price.
Place(status, priced) ==
    /\ exec.pc = "place"
    /\ venue = "PAPER" => status = "FILLED" /\ priced /\ Affords(books["api"], exec.d)
    /\ SetBook("api", IF status = "FILLED" THEN Filled(books["api"], exec.d)
                      ELSE Rests(books["api"], exec.d))
    /\ exec' = [pc |-> "submit", d |-> exec.d, reply |-> Reply(status, priced)]
    /\ UNCHANGED <<mode, orders, positions, reset, pass, stale, history>>

RefusalIgnored ==
    /\ exec.pc = "place"
    /\ venue = "PAPER" /\ ~Affords(books["api"], exec.d)
    /\ exec' = [pc |-> "submit", d |-> exec.d, reply |-> "FILLED"]
    /\ UNCHANGED <<books, mode, orders, positions, reset, pass, stale, history>>

\* The simulated balance does not pay for it: the lookup finds no order, and
\* the row is FAILED.
Refuse ==
    /\ exec.pc = "place"
    /\ venue = "PAPER" /\ ~Affords(books["api"], exec.d)
    /\ orders' = [orders EXCEPT ![exec.d] = "FAILED"]
    /\ exec' = Idle /\ Forget("exec")
    /\ UNCHANGED <<books, mode, positions, reset, pass, history>>

\* The acknowledgement is recorded, and an order that did not fill at once left
\* alone.
Submit ==
    /\ exec.pc = "submit"
    /\ orders' = [orders EXCEPT ![exec.d] = "SUBMITTED"]
    /\ IF exec.reply = "NEW"
       THEN exec' = Idle /\ Forget("exec")
       ELSE exec' = [pc |-> "book", d |-> exec.d] /\ UNCHANGED stale
    /\ UNCHANGED <<books, mode, positions, reset, pass, history>>

OpenOn(s) == {d \in Decisions : positions[d] = "OPEN" /\ SymbolOf[d] = s}

\* The fill is booked in one transaction, or that rolls back: the account moved
\* on, a reset cancelled the order, or the symbol has an open position.
Book ==
    /\ exec.pc = "book"
    /\ IF /\ orders[exec.d] = "SUBMITTED"
          /\ OpenOn(SymbolOf[exec.d]) = {}
          /\ "exec" \notin stale
       THEN /\ orders' = [orders EXCEPT ![exec.d] = "FILLED"]
            /\ positions' = [positions EXCEPT ![exec.d] = "OPEN"]
            /\ AccountSaved("exec")
       ELSE Forget("exec") /\ UNCHANGED <<orders, positions>>
    /\ exec' = Idle
    /\ UNCHANGED <<books, mode, reset, pass, history>>

\* A resting order fills at the exchange: no use case ever books it.
VenueFills(d) ==
    /\ books["api"].orders[d] = "NEW"
    /\ SetBook("api", Filled(books["api"], d))
    /\ UNCHANGED <<mode, orders, positions, exec, reset, pass, stale, history>>
-----------------------------------------------------------------------------
(* Mode changes and ResetPaperState. *)

ChangeMode(target) ==
    /\ CanTransition(mode, target)
    /\ mode' = target
    /\ AccountSaved("operator")
    /\ UNCHANGED <<books, orders, positions, exec, reset, pass, history>>

ResetLoad ==
    /\ reset = "idle"
    /\ venue = "PAPER" /\ mode = "PAPER"
    /\ reset' = "commit"
    /\ UNCHANGED <<books, mode, orders, positions, exec, pass, stale, history>>

\* Positions closed, SUBMITTED orders cancelled, the account replaced.  Whoever
\* changes a position saves the account, so the positions are still those read.
ResetCommit ==
    /\ reset = "commit"
    /\ IF "reset" \notin stale
       THEN /\ positions' = [d \in Decisions |->
                  IF positions[d] = "OPEN" THEN "CLOSED" ELSE positions[d]]
            /\ orders' = [d \in Decisions |->
                  IF orders[d] = "SUBMITTED" THEN "CANCELLED" ELSE orders[d]]
            /\ mode' = "PAPER"
            /\ AccountSaved("reset")
            /\ reset' = "broker"
       ELSE reset' = "idle" /\ Forget("reset") /\ UNCHANGED <<mode, orders, positions>>
    /\ UNCHANGED <<books, exec, pass, history>>

\* Only then the simulator of this process is emptied.  What filled since, or
\* was not booked yet, goes with the rest although no position was closed for it.
ResetBroker ==
    /\ reset = "broker"
    /\ SetBook("api", EmptyBook)
    /\ overtaken' = overtaken \cup
           {d \in Decisions : Known(books["api"], d) /\ positions[d] # "CLOSED"}
    /\ reset' = "idle"
    /\ UNCHANGED <<venue, mode, orders, positions, exec, pass, stale, incidents, lost, faults>>
-----------------------------------------------------------------------------
(* ReconcileBrokerState.Execute, one pass of process p. *)

\* diverges: any difference from a local zero, else more than the tolerance.
Diverges(local, broker) ==
    IF local = 0 THEN broker # 0
    ELSE 1000 * (IF local > broker THEN local - broker ELSE broker - local)
             > Tolerance * local

\* What the adapter of process p answers.  The exchange lists every symbol, and
\* GetPositions skips those without an amount.
BrokerPositions(p) ==
    IF venue = "PAPER" THEN Held(books[p])
    ELSE {s \in Symbols : books[p].positions[s].quantity # 0}
BrokerOpenOrders(p) == OpenOrders(books[p])

\* Client.do returns an error: no connection, a timeout, an error status, a body
\* that cannot be read, an open circuit breaker.  The simulator never fails.
CallFails ==
    /\ venue = "BINANCE"
    /\ faults < MaxFaults /\ faults' = faults + 1

Pass(p, pc, found, critical, open) ==
    [pc |-> pc, p |-> p, found |-> found, critical |-> critical, open |-> open]

\* broker.GetAccount and accounts.GetActive: the balance and the equity.
CompareAccounts(p) ==
    /\ pass = Idle
    /\ LET found == \/ Diverges(StartingBalance, books[p].balance)
                    \/ Diverges(StartingBalance, Equity(books[p]))
       IN  pass' = Pass(p, "positions", found, FALSE, {})
    /\ UNCHANGED <<books, mode, orders, positions, exec, reset, stale, history>>

\* broker.GetAccount fails: a critical incident, and the pass ends before
\* forceCloseOnly.
AccountUnreachable ==
    /\ pass = Idle
    /\ CallFails
    /\ incidents' = incidents \cup {"CRITICAL"}
    /\ UNCHANGED <<venue, books, mode, orders, positions, exec, reset, pass, stale, lost,
                   overtaken>>

ReadPositions ==
    /\ pass.pc = "positions"
    /\ pass' = Pass(pass.p, "brokerPositions", pass.found, FALSE,
                    {d \in Decisions : positions[d] = "OPEN"})
    /\ UNCHANGED <<books, mode, orders, positions, exec, reset, stale, history>>

MissingOrOtherSide ==
    {d \in pass.open : books[pass.p].positions[SymbolOf[d]].side # SideOf[d]}

\* Every local position is looked up by symbol among the broker's: missing is
\* critical, a different quantity is not, and the side is not compared.
Missing == {d \in pass.open : SymbolOf[d] \notin BrokerPositions(pass.p)}
QuantityDiverges ==
    \E d \in pass.open \ Missing :
        Diverges(QuantityOf[d], books[pass.p].positions[SymbolOf[d]].quantity)

ComparePositions ==
    /\ pass.pc = "brokerPositions"
    /\ pass' = Pass(pass.p, "orders", pass.found \/ Missing # {} \/ QuantityDiverges,
                    Missing # {}, {})
    /\ UNCHANGED <<books, mode, orders, positions, exec, reset, stale, history>>

\* orders.ListOpen, whose rows with a broker id are the SUBMITTED ones, and
\* broker.GetOpenOrders, in one step: a missing order is never critical.
CompareOrders ==
    /\ pass.pc = "orders"
    /\ pass' = IF \/ pass.found
                  \/ \E d \in Decisions :
                         orders[d] = "SUBMITTED" /\ d \notin BrokerOpenOrders(pass.p)
               THEN Pass(pass.p, "raise", TRUE, pass.critical, {})
               ELSE Idle
    /\ UNCHANGED <<books, mode, orders, positions, exec, reset, stale, history>>

\* broker.GetPositions or GetOpenOrders fails: critical, and the pass goes on.
Unreachable ==
    /\ pass.pc \in {"brokerPositions", "orders"}
    /\ CallFails
    /\ pass' = Pass(pass.p, IF pass.pc = "orders" THEN "raise" ELSE "orders", TRUE, TRUE, {})
    /\ UNCHANGED <<venue, books, mode, orders, positions, exec, reset, stale, incidents,
                   lost, overtaken>>

RaiseAndForceOnce(saved) ==
    /\ pass.pc = "raise"
    /\ saved \/ faults < MaxFaults
    /\ incidents' = IF ~saved THEN incidents
                    ELSE incidents \cup {IF pass.critical THEN "CRITICAL" ELSE "MEDIUM"}
    /\ faults' = IF saved THEN faults ELSE faults + 1
    /\ pass' = IF pass.critical /\ "CRITICAL" \notin incidents
               THEN [pc |-> "commit", p |-> pass.p]
               ELSE Idle
    /\ UNCHANGED <<venue, books, mode, orders, positions, exec, reset, stale, lost, overtaken>>

\* raiseDivergence, the incident and its outbox row, whose error is ignored;
\* then forceCloseOnly reads the mode and leaves a stricter one alone ...
Raise(saved) ==
    /\ pass.pc = "raise"
    /\ saved \/ faults < MaxFaults
    /\ incidents' = IF ~saved THEN incidents
                    ELSE incidents \cup {IF pass.critical THEN "CRITICAL" ELSE "MEDIUM"}
    /\ faults' = IF saved THEN faults ELSE faults + 1
    /\ pass' = IF pass.critical /\ mode \notin {"CLOSE_ONLY", "KILL_SWITCH"}
               THEN [pc |-> "commit", p |-> pass.p]
               ELSE Idle
    /\ UNCHANGED <<venue, books, mode, orders, positions, exec, reset, stale, lost, overtaken>>

\* ... and saves CLOSE_ONLY; if someone saved the rows meanwhile the pass ends
\* with an error, and the next one tries again.
ForceCloseOnly ==
    /\ pass.pc = "commit"
    /\ IF "pass" \notin stale THEN mode' = "CLOSE_ONLY" /\ AccountSaved("pass")
       ELSE Forget("pass") /\ UNCHANGED mode
    /\ pass' = Idle
    /\ UNCHANGED <<books, orders, positions, exec, reset, history>>
-----------------------------------------------------------------------------
(* Faults. *)

\* A statement of the execution, of the reset or of the pass fails, and with it
\* all of it.
StatementError ==
    /\ faults < MaxFaults
    /\ faults' = faults + 1
    /\ \/ exec # Idle /\ exec' = Idle /\ Forget("exec") /\ UNCHANGED <<reset, pass>>
       \/ reset # "idle" /\ reset' = "idle" /\ Forget("reset") /\ UNCHANGED <<exec, pass>>
       \/ pass # Idle /\ pass' = Idle /\ Forget("pass") /\ UNCHANGED <<exec, reset>>
    /\ UNCHANGED <<venue, books, mode, orders, positions, incidents, lost, overtaken>>

\* Process p restarts: what it was doing is lost, and so is its simulator.
Restart(p) ==
    /\ faults < MaxFaults
    /\ faults' = faults + 1
    /\ pass' = IF pass # Idle /\ pass.p = p THEN Idle ELSE pass
    /\ IF p = "api" THEN exec' = Idle /\ reset' = "idle" ELSE UNCHANGED <<exec, reset>>
    /\ stale' = stale \ ((IF p = "api" THEN {"exec", "reset"} ELSE {})
                         \cup (IF pass # Idle /\ pass.p = p THEN {"pass"} ELSE {}))
    /\ IF venue = "PAPER"
       THEN /\ SetBook(p, EmptyBook)
            /\ lost' = lost \cup {d \in Decisions : Known(books[p], d)}
       ELSE UNCHANGED <<books, lost>>
    /\ UNCHANGED <<venue, mode, orders, positions, incidents, overtaken>>

Execution ==
    \/ \E d \in Decisions : Load(d)
    \/ \E status \in {"NEW", "FILLED"}, priced \in BOOLEAN : Place(status, priced)
    \/ Refuse \/ Submit \/ Book

Reconcile ==
    \/ ReadPositions \/ ComparePositions \/ CompareOrders \/ Raise(TRUE) \/ ForceCloseOnly

Next ==
    \/ Execution
    \/ \E d \in Decisions : VenueFills(d)
    \/ \E target \in Targets : ChangeMode(target)
    \/ ResetLoad \/ ResetCommit \/ ResetBroker
    \/ \E p \in Processes : CompareAccounts(p)
    \/ Reconcile
    \/ AccountUnreachable \/ Unreachable \/ Raise(FALSE)
    \/ StatementError
    \/ \E p \in Processes : Restart(p)

Spec == Init /\ [][Next]_vars

\* startReconciliationScheduler starts a pass every 30 seconds, in every mode,
\* and nothing makes a pass wait for ever.  Strong fairness, since the two
\* processes take turns here and do not wait for each other in the code.
FairSpec ==
    /\ Spec
    /\ WF_vars(Reconcile)
    /\ \A p \in Processes : SF_vars(CompareAccounts(p))
-----------------------------------------------------------------------------
\* Folding fills into positions loses nothing: on every symbol the position of
\* the simulator is the sum of its fills, and the balance is the cash they left
\* plus the cost of what is held, to the drift of the averages.  Opening,
\* adding, reducing, closing exactly and flipping must all agree on it.
BookMatchesFills ==
    \A p \in Processes :
        LET book == books[p]
            all  == {d \in Decisions : book.orders[d] = "FILLED"}
            owed == book.balance - StartingBalance - Cash(all)
                    - SumFunction(Costs(book))
        IN  /\ \A s \in Symbols :
                 /\ Sign(book.positions[s].side) * book.positions[s].quantity
                        = NetQuantity(FilledOn(book, s))
                 /\ book.positions[s] = Flat <=> book.positions[s].quantity = 0
            /\ -Drift(all) <= owed /\ owed <= Drift(all)

\* A local position stands on a fill of the broker that trades, unless a
\* restart lost it or a reset overtook it: whatever an execution's errors and
\* races are, nothing is booked that the broker never had.
OpenIsBacked ==
    \A d \in Decisions :
        positions[d] = "OPEN" =>
            books["api"].orders[d] = "FILLED" \/ d \in lost \/ d \in overtaken

\* The pass asks a simulator that never trades.
AsksOtherSimulator == pass.p = "worker" /\ venue = "PAPER"

\* d is open and the broker that trades does not have it: a restart lost the
\* fill, a reset overtook it, or fills of other orders netted it to nothing.
ReallyMissing(d) ==
    /\ positions[d] = "OPEN"
    /\ \/ d \in lost
       \/ d \in overtaken
       \/ LET fills == FilledOn(books["api"], SymbolOf[d])
          IN  d \in fills /\ NetQuantity(fills) = 0

\* When calls succeed, a pass calls a position missing in three cases only.
\* Two are false alarms, and the code does raise them: the pass of cmd/worker
\* in PAPER, and a position that a reset has closed since the pass read it.
\* In the third the position is open now and not at the broker.  Entries that
\* fill, are booked or are refused between the two reads never raise an alarm:
\* a fill is at the broker before it is local, and local positions are read
\* first.
AlarmHasCause ==
    [][pass.pc = "brokerPositions" /\ pass'.pc = "orders" /\ pass'.critical =>
         \/ faults' # faults
         \/ /\ Missing # {}
            /\ \A d \in Missing :
                   \/ AsksOtherSimulator
                   \/ positions[d] = "CLOSED"
                   \/ ReallyMissing(d)]_vars

\* A position that stays missing at the broker of some process stops entries
\* again and again, however often operators resume and whatever failed before:
\* a later pass forces CLOSE_ONLY, unless each one loses the race for the row.
Divergent ==
    \E p \in Processes, d \in Decisions :
        positions[d] = "OPEN" /\ SymbolOf[d] \notin BrokerPositions(p)
DivergenceStopsEntries ==
    <>[]Divergent => \/ []<>~AllowsNewEntries(mode)
                     \/ []<>("pass" \in stale)
=============================================================================
