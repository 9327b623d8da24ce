----------------------------- MODULE PaperBook -----------------------------
(***************************************************************************)
(* The book of the simulated broker: a balance, at most one position per   *)
(* symbol, and the orders by client id.  Every call holds the mutex of     *)
(* paper.Broker, so an operation is a function from a book to a book.      *)
(*                                                                         *)
(* Quantities are whole steps and reference prices whole ticks.  The       *)
(* slippage and the fee are given in percent, so an executed price is a    *)
(* whole number of hundredths of a tick and an amount of money a whole     *)
(* number of hundredths of (step * hundredth of a tick).  The one division *)
(* of the code, the average entry price, is rounded to its last digit,     *)
(* half away from zero, as decimal.Div rounds to its 16th.                 *)
(***************************************************************************)
EXTENDS Decimals, FiniteSetsExt

CONSTANTS
    Decisions,       \* client order ids: one per approved decision
    Symbols,
    SymbolOf,        \* the symbol, side, quantity and reference price of the
    SideOf,          \* order each decision sends
    QuantityOf,
    PriceOf,
    SlippagePct,
    FeePct,
    StartingBalance

ASSUME PaperBookAssumption ==
    /\ IsFiniteSet(Symbols)
    /\ SymbolOf \in [Decisions -> Symbols]
    /\ SideOf \in [Decisions -> {"BUY", "SELL"}]
    /\ QuantityOf \in [Decisions -> Nat \ {0}]
    /\ PriceOf \in [Decisions -> Nat \ {0}]
    /\ SlippagePct \in 0..99
    /\ FeePct \in Nat
    /\ StartingBalance \in Nat

Flat == [side |-> "NONE", quantity |-> 0, entry |-> 0, mark |-> 0]
Position == [side : {"NONE", "BUY", "SELL"}, quantity : Nat, entry : Nat, mark : Nat]
Status == {"NONE", "NEW", "FILLED"}
Books == [balance : Int, positions : [Symbols -> Position],
          orders : [Decisions -> Status]]

\* resetLocked: what NewBroker builds and Reset goes back to.
EmptyBook == [balance |-> StartingBalance, positions |-> [s \in Symbols |-> Flat],
              orders |-> [d \in Decisions |-> "NONE"]]

Sign(side) == IF side = "SELL" THEN -1 ELSE 1

\* applySlippage: buyers pay more, sellers receive less.
ExecPrice(d) == PriceOf[d] * (100 + Sign(SideOf[d]) * SlippagePct)

NotionalOf(d) == 100 * QuantityOf[d] * ExecPrice(d)
FeeOf(d) == FeePct * QuantityOf[d] * ExecPrice(d)

FlipAtOldPrice(pos, side, quantity, price) ==
    [side |-> side, quantity |-> quantity - pos.quantity, entry |-> pos.entry, mark |-> price]

FlipNegated(pos, side, quantity, price) ==
    [side |-> side, quantity |-> pos.quantity - quantity, entry |-> price, mark |-> price]

\* What is left when a fill takes more than the position on the other side.
Flip(pos, side, quantity, price) ==
    [side |-> side, quantity |-> quantity - pos.quantity, entry |-> price, mark |-> price]

\* applyFillLocked, the position: opened, added to at the average price, reduced
\* at the old entry price, deleted, or flipped.
ApplyFill(pos, side, quantity, price) ==
    CASE pos = Flat ->
           [side |-> side, quantity |-> quantity, entry |-> price, mark |-> price]
      [] pos.side = side ->
           [side |-> side, quantity |-> pos.quantity + quantity,
            entry |-> RoundedDiv(pos.quantity * pos.entry + quantity * price,
                                 pos.quantity + quantity),
            mark |-> price]
      [] pos # Flat /\ pos.side # side /\ quantity < pos.quantity ->
           [side |-> pos.side, quantity |-> pos.quantity - quantity,
            entry |-> pos.entry, mark |-> price]
      [] pos # Flat /\ pos.side # side /\ quantity = pos.quantity -> Flat
      [] pos # Flat /\ pos.side # side /\ quantity > pos.quantity ->
           Flip(pos, side, quantity, price)

\* applyFillLocked, the balance: what closing on the other side realizes.
Realized(pos, side, quantity, price) ==
    IF pos = Flat \/ pos.side = side THEN 0
    ELSE 100 * Sign(pos.side) * (price - pos.entry)
             * (IF quantity > pos.quantity THEN pos.quantity ELSE quantity)

\* Broker.PlaceOrder: an order known by its client id is answered from the
\* book, one the balance cannot pay for (notional and fee) is refused.
Known(book, d) == book.orders[d] # "NONE"
Affords(book, d) == book.balance >= NotionalOf(d) + FeeOf(d)

Filled(book, d) ==
    LET s   == SymbolOf[d]
        pos == book.positions[s]
    IN  [balance |-> book.balance - FeeOf(d)
                     + Realized(pos, SideOf[d], QuantityOf[d], ExecPrice(d)),
         positions |-> [book.positions EXCEPT
             ![s] = ApplyFill(pos, SideOf[d], QuantityOf[d], ExecPrice(d))],
         orders |-> [book.orders EXCEPT ![d] = "FILLED"]]

\* Broker.GetAccount: the equity marks every position at its last fill.
Unrealized(pos) == 100 * Sign(pos.side) * (pos.mark - pos.entry) * pos.quantity
Equity(book) ==
    book.balance + SumFunction([s \in Symbols |-> Unrealized(book.positions[s])])

\* Broker.GetPositions and GetOpenOrders, by symbol and by decision.
Held(book) == {s \in Symbols : book.positions[s] # Flat}
OpenOrders(book) == {d \in Decisions : book.orders[d] = "NEW"}
-----------------------------------------------------------------------------
\* The reference: what the filled orders of a book add up to, without folding
\* them into positions.
FilledOn(book, s) == {d \in Decisions : book.orders[d] = "FILLED" /\ SymbolOf[d] = s}
Signed == [d \in Decisions |-> Sign(SideOf[d]) * QuantityOf[d]]
NetQuantity(ds) == SumFunctionOnSet(Signed, ds)
CashFlow == [d \in Decisions |-> -Sign(SideOf[d]) * NotionalOf(d) - FeeOf(d)]
Cash(ds) == SumFunctionOnSet(CashFlow, ds)

\* The cost of a position at its entry price, and of all that a book holds.
CostOf(pos) == 100 * Sign(pos.side) * pos.quantity * pos.entry
Costs(book) == [s \in Symbols |-> CostOf(book.positions[s])]

\* How far the averages of n fills may have drifted: half a unit of price for
\* every step held, once per fill.
Drift(ds) ==
    50 * Cardinality(ds) * SumFunctionOnSet(QuantityOf, ds)
=============================================================================
