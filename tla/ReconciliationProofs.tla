------------------------ MODULE ReconciliationProofs ------------------------
(***************************************************************************)
(* Proofs about Reconciliation and the simulated book under it, for any    *)
(* decisions, symbols, prices, slippage, fee and number of orders.         *)
(*                                                                         *)
(* Two arguments meet here.  One is arithmetic: what applyFillLocked folds *)
(* into a position and a balance is what the fills add up to, but for the  *)
(* rounding of the averages, which each fill can only add half a unit of   *)
(* price per step to.  The other is about time: a fill is at the broker    *)
(* before an execution hears of it and before a row is written, and a      *)
(* position that a pass has read as open can only have been closed since.  *)
(***************************************************************************)
EXTENDS Reconciliation, ArithmeticLemmas, TLAPS

\* A fill the broker has, or had until a restart lost it or a reset overtook it.
Backed(d) == books["api"].orders[d] = "FILLED" \/ d \in lost \/ d \in overtaken

\* Both processes talk to the one exchange.
OneExchange == venue = "BINANCE" => \A p \in Processes : books[p] = books["api"]

\* The row of an order goes in before the broker hears of the order, and an
\* execution that is about to place its order is the first to.
RowsFirst ==
    /\ \A d \in Decisions : orders[d] = "NONE" => ~Known(books["api"], d)
    /\ exec # Idle => orders[exec.d] # "NONE"
    /\ exec.pc = "place" => ~Known(books["api"], exec.d)

\* A position comes after its order row and only from the execution of that
\* order, and one that a pass has read as open is open or was closed since.
PositionsLast ==
    /\ \A d \in Decisions : orders[d] = "NONE" => positions[d] = "NONE"
    /\ exec # Idle => positions[exec.d] = "NONE"
    /\ pass.pc = "brokerPositions" => \A d \in pass.open : positions[d] # "NONE"

\* What an execution was told is backed, and stays so: no reset has closed a
\* position for it yet.
ReportsBacked ==
    /\ exec.pc = "submit" /\ exec.reply = "FILLED" => Backed(exec.d)
    /\ exec.pc = "book" => Backed(exec.d)

Fills(book) == {d \in Decisions : book.orders[d] = "FILLED"}

\* A position has a side as long as it has a quantity.
PositionOK(pos) == pos \in Position /\ (pos.side = "NONE" => pos = Flat)
                   /\ (pos.quantity = 0 => pos = Flat)

Owed(book) == book.balance - StartingBalance - Cash(Fills(book)) - SumFunction(Costs(book))

\* No position is larger than all that was ever filled: this bounds what one
\* more average can round away.
BookOK(book) ==
    /\ IsFiniteSet(Fills(book))
    /\ \A s \in Symbols :
         /\ PositionOK(book.positions[s])
         /\ book.positions[s].quantity <= SumFunctionOnSet(QuantityOf, Fills(book))
         /\ Sign(book.positions[s].side) * book.positions[s].quantity
                = NetQuantity(FilledOn(book, s))
    /\ -Drift(Fills(book)) <= Owed(book) /\ Owed(book) <= Drift(Fills(book))

IInv ==
    /\ TypeOK
    /\ OneExchange
    /\ RowsFirst
    /\ PositionsLast
    /\ OpenIsBacked
    /\ ReportsBacked
    /\ \A p \in Processes : BookOK(books[p])
-----------------------------------------------------------------------------
(* applyFillLocked on one position. *)

\* What an order sends: one of two sides, and amounts that are positive.
LEMMA OrderTypes ==
    ASSUME NEW d \in Decisions
    PROVE  /\ SymbolOf[d] \in Symbols
           /\ SideOf[d] \in {"BUY", "SELL"}
           /\ QuantityOf[d] \in Nat /\ QuantityOf[d] > 0
           /\ ExecPrice(d) \in Nat
           /\ FeeOf(d) \in Nat /\ NotionalOf(d) \in Nat
           /\ Signed[d] = Sign(SideOf[d]) * QuantityOf[d] /\ Signed[d] \in Int
           /\ CashFlow[d] = -Sign(SideOf[d]) * NotionalOf(d) - FeeOf(d) /\ CashFlow[d] \in Int
<1>1. /\ SymbolOf[d] \in Symbols
      /\ SideOf[d] \in {"BUY", "SELL"}
      /\ QuantityOf[d] \in Nat /\ QuantityOf[d] > 0
      /\ PriceOf[d] \in Nat /\ SlippagePct \in 0 .. 99 /\ FeePct \in Nat
  BY PaperBookAssumption
<1>2. Sign(SideOf[d]) \in {1, -1}
  BY DEF Sign
<1>3. ExecPrice(d) \in Nat
  <2>1. 100 + Sign(SideOf[d]) * SlippagePct \in Nat
    BY <1>1, <1>2
  <2>2. QED
    BY <1>1, <2>1, Product DEF ExecPrice
<1>4. QuantityOf[d] * ExecPrice(d) \in Nat
  BY <1>1, <1>3, Product
<1>5. FeeOf(d) \in Nat /\ NotionalOf(d) \in Nat
  <2>1. FeeOf(d) = FeePct * (QuantityOf[d] * ExecPrice(d))
    BY <1>1, <1>3 DEF FeeOf
  <2>2. NotionalOf(d) = 100 * (QuantityOf[d] * ExecPrice(d))
    BY <1>1, <1>3 DEF NotionalOf
  <2>3. QED
    BY <1>1, <1>4, <2>1, <2>2, Product
<1>6. Signed[d] = Sign(SideOf[d]) * QuantityOf[d] /\ Signed[d] \in Int
  BY <1>1, <1>2 DEF Signed
<1>7. CashFlow[d] = -Sign(SideOf[d]) * NotionalOf(d) - FeeOf(d) /\ CashFlow[d] \in Int
  BY <1>2, <1>5 DEF CashFlow
<1>8. QED
  BY <1>1, <1>3, <1>5, <1>6, <1>7

\* What applyFillLocked owes the fills after one more of them: what it realizes
\* and the cash of the fill, less what the cost of the position grew by.
Slip(pos, side, k, x) ==
    Realized(pos, side, k, x) + Sign(side) * (100 * k * x)
        - (CostOf(ApplyFill(pos, side, k, x)) - CostOf(pos))

\* What a fill does to a position, whatever the two are.
FillOK(pos, side, k, x) ==
    LET new == ApplyFill(pos, side, k, x)
    IN  /\ PositionOK(new)
        /\ new.quantity <= pos.quantity + k
        /\ Sign(new.side) * new.quantity = Sign(pos.side) * pos.quantity + Sign(side) * k
        /\ Realized(pos, side, k, x) \in Int
        /\ CostOf(new) \in Int /\ CostOf(pos) \in Int
        /\ -(50 * (pos.quantity + k)) <= Slip(pos, side, k, x)
        /\ Slip(pos, side, k, x) <= 50 * (pos.quantity + k)

\* The first fill opens the position at its own price.
LEMMA FillOpens ==
    ASSUME NEW side \in {"BUY", "SELL"}, NEW k \in Nat, k > 0, NEW x \in Nat
    PROVE  FillOK(Flat, side, k, x)
<1> DEFINE new == [side |-> side, quantity |-> k, entry |-> x, mark |-> x]
<1>1. ApplyFill(Flat, side, k, x) = new
  BY DEF ApplyFill, Flat
<1>2. Realized(Flat, side, k, x) = 0 /\ CostOf(Flat) = 0
  BY DEF Realized, CostOf, Flat, Sign
<1>3. PositionOK(new)
  BY DEF PositionOK, Position, Flat
<1>4. Sign(side) \in {1, -1}
  BY DEF Sign
<1>5. CostOf(new) = Sign(side) * (100 * k * x) /\ CostOf(new) \in Int
  BY <1>4 DEF CostOf
<1>6. Slip(Flat, side, k, x) = 0
  BY <1>1, <1>2, <1>5 DEF Slip
<1>7. Sign(new.side) * new.quantity = Sign(Flat.side) * Flat.quantity + Sign(side) * k
  BY <1>4 DEF Flat, Sign
<1>8. QED
  BY <1>1, <1>2, <1>3, <1>5, <1>6, <1>7 DEF FillOK, Flat

\* A fill on the side of the position moves its entry to the rounded average.
LEMMA FillAdds ==
    ASSUME NEW pos, PositionOK(pos), pos # Flat, NEW k \in Nat, k > 0, NEW x \in Nat
    PROVE  FillOK(pos, pos.side, k, x)
<1> DEFINE q == pos.quantity
           e == pos.entry
           n == q * e + k * x
           r == RoundedDiv(n, q + k)
           new == [side |-> pos.side, quantity |-> q + k, entry |-> r, mark |-> x]
           sg == Sign(pos.side)
<1>1. /\ q \in Nat /\ e \in Nat /\ q > 0 /\ pos.side \in {"BUY", "SELL"}
  BY DEF PositionOK, Position
<1>2. n \in Nat /\ q + k \in Nat \ {0} /\ q * e \in Nat /\ k * x \in Nat
  BY <1>1, Product
<1>3. ApplyFill(pos, pos.side, k, x) = new
  BY DEF ApplyFill
<1>4. Realized(pos, pos.side, k, x) = 0
  BY DEF Realized
<1> HIDE DEF n
<1>5. /\ r \in Nat
      /\ 2 * ((q + k) * r) <= 2 * n + (q + k)
      /\ 2 * n <= 2 * ((q + k) * r) + (q + k)
  BY <1>2, RoundedBounds
<1> HIDE DEF r
<1>6. sg \in {1, -1}
  BY DEF Sign
<1>7. PositionOK(new)
  BY <1>1, <1>5 DEF PositionOK, Position, Flat
<1> DEFINE m == (q + k) * r
<1>8. m \in Nat
  BY <1>2, <1>5, Product
<1>9. CostOf(new) = sg * (100 * m) /\ CostOf(pos) = sg * (100 * (q * e))
  <2>1. CostOf(new) = 100 * sg * (q + k) * r /\ CostOf(pos) = 100 * sg * q * e
    BY DEF CostOf
  <2>2. QED
    BY <1>1, <1>5, <1>6, <2>1
<1>10. sg * (100 * k * x) = sg * (100 * (k * x))
  BY <1>6
<1>11. Slip(pos, pos.side, k, x) = sg * (100 * (k * x)) - (sg * (100 * m) - sg * (100 * (q * e)))
  BY <1>3, <1>4, <1>6, <1>8, <1>9, <1>10, <1>2 DEF Slip
<1> HIDE DEF m
<1>12. Slip(pos, pos.side, k, x) = sg * (100 * (n - m))
  BY <1>2, <1>6, <1>8, <1>11 DEF n
<1>13. 2 * m <= 2 * n + (q + k) /\ 2 * n <= 2 * m + (q + k)
  BY <1>5 DEF m
<1>14. /\ -(50 * (q + k)) <= Slip(pos, pos.side, k, x)
       /\ Slip(pos, pos.side, k, x) <= 50 * (q + k)
  BY <1>1, <1>2, <1>6, <1>8, <1>12, <1>13
<1>15. CostOf(new) \in Int /\ CostOf(pos) \in Int
  BY <1>2, <1>6, <1>8, <1>9
<1>16. sg * (q + k) = sg * q + sg * k
  BY <1>1, <1>6
<1>17. new.quantity = q + k /\ new.side = pos.side
  OBVIOUS
<1> HIDE DEF new
<1>18. Realized(pos, pos.side, k, x) \in Int /\ new.quantity <= q + k
  BY <1>1, <1>4, <1>17
<1>19. Sign(new.side) * new.quantity = sg * q + sg * k
  BY <1>16, <1>17
<1>20. QED
  BY <1>3, <1>7, <1>14, <1>15, <1>18, <1>19 DEF FillOK

\* Sides are opposite, and so are their signs.
LEMMA OppositeSigns ==
    ASSUME NEW a \in {"BUY", "SELL"}, NEW b \in {"BUY", "SELL"}, a # b
    PROVE  Sign(a) \in {1, -1} /\ Sign(b) = -Sign(a)
  BY DEF Sign

\* A smaller fill on the other side leaves the entry price alone.
LEMMA FillReduces ==
    ASSUME NEW pos, PositionOK(pos), pos # Flat, NEW side \in {"BUY", "SELL"}, pos.side # side,
           NEW k \in Nat, k > 0, NEW x \in Nat, k < pos.quantity
    PROVE  FillOK(pos, side, k, x)
<1> DEFINE q == pos.quantity
           e == pos.entry
           new == [side |-> pos.side, quantity |-> q - k, entry |-> e, mark |-> x]
           sg == Sign(pos.side)
<1>1. q \in Nat /\ e \in Nat /\ q > 0 /\ pos.side \in {"BUY", "SELL"}
  BY DEF PositionOK, Position
<1>2. sg \in {1, -1} /\ Sign(side) = -sg
  BY <1>1, OppositeSigns
<1>3. ApplyFill(pos, side, k, x) = new
  BY <1>1 DEF ApplyFill
<1>4. PositionOK(new)
  BY <1>1 DEF PositionOK, Position, Flat
<1>5. Realized(pos, side, k, x) = 100 * sg * (x - e) * k
  BY <1>1 DEF Realized
<1>6. CostOf(new) = 100 * sg * (q - k) * e /\ CostOf(pos) = 100 * sg * q * e
  BY DEF CostOf
<1>7. new.quantity = q - k /\ new.side = pos.side
  OBVIOUS
<1> HIDE DEF new, sg
<1>8. /\ Realized(pos, side, k, x) \in Int
      /\ CostOf(new) \in Int /\ CostOf(pos) \in Int
  BY <1>1, <1>2, <1>5, <1>6
<1>9. Slip(pos, side, k, x) = 0
  <2>1. Slip(pos, side, k, x) = 100 * sg * (x - e) * k + (-sg) * (100 * k * x)
                                - (100 * sg * (q - k) * e - 100 * sg * q * e)
    BY <1>2, <1>3, <1>5, <1>6 DEF Slip
  <2>2. QED
    BY <1>1, <1>2, <2>1
<1>10. new.quantity <= q + k /\ sg * new.quantity = sg * q + (-sg) * k
  BY <1>1, <1>2, <1>7
<1>11. -(50 * (q + k)) <= 0 /\ 0 <= 50 * (q + k)
  BY <1>1
<1>12. QED
  BY <1>2, <1>3, <1>4, <1>7, <1>8, <1>9, <1>10, <1>11 DEF FillOK, sg

\* One of the same size deletes the position.
LEMMA FillCloses ==
    ASSUME NEW pos, PositionOK(pos), pos # Flat, NEW side \in {"BUY", "SELL"}, pos.side # side,
           NEW k \in Nat, k > 0, NEW x \in Nat, k = pos.quantity
    PROVE  FillOK(pos, side, k, x)
<1> DEFINE q == pos.quantity
           e == pos.entry
           sg == Sign(pos.side)
<1>1. q \in Nat /\ e \in Nat /\ q > 0 /\ pos.side \in {"BUY", "SELL"}
  BY DEF PositionOK, Position
<1>2. sg \in {1, -1} /\ Sign(side) = -sg
  BY <1>1, OppositeSigns
<1>3. ApplyFill(pos, side, k, x) = Flat
  BY <1>1 DEF ApplyFill
<1>4. PositionOK(Flat) /\ CostOf(Flat) = 0 /\ Flat.quantity = 0 /\ Sign(Flat.side) = 1
  BY DEF PositionOK, Position, Flat, CostOf, Sign
<1>5. Realized(pos, side, k, x) = 100 * sg * (x - e) * q
  BY <1>1 DEF Realized
<1>6. CostOf(pos) = 100 * sg * q * e
  BY DEF CostOf
<1> HIDE DEF sg
<1>7. Realized(pos, side, k, x) \in Int /\ CostOf(pos) \in Int
  BY <1>1, <1>2, <1>5, <1>6
<1>8. Slip(pos, side, k, x) = 0
  <2>1. Slip(pos, side, k, x) = 100 * sg * (x - e) * q + (-sg) * (100 * q * x)
                                - (0 - 100 * sg * q * e)
    BY <1>2, <1>3, <1>4, <1>5, <1>6 DEF Slip
  <2>2. QED
    BY <1>1, <1>2, <2>1
<1>9. -(50 * (q + k)) <= 0 /\ 0 <= 50 * (q + k) /\ sg * q + (-sg) * k = 0
  BY <1>1, <1>2
<1>10. QED
  BY <1>1, <1>2, <1>3, <1>4, <1>7, <1>8, <1>9 DEF FillOK, sg

\* A larger one closes the position and opens the rest at its own price.
LEMMA FillFlips ==
    ASSUME NEW pos, PositionOK(pos), pos # Flat, NEW side \in {"BUY", "SELL"}, pos.side # side,
           NEW k \in Nat, k > 0, NEW x \in Nat, k > pos.quantity
    PROVE  FillOK(pos, side, k, x)
<1> DEFINE q == pos.quantity
           e == pos.entry
           new == [side |-> side, quantity |-> k - q, entry |-> x, mark |-> x]
           sg == Sign(pos.side)
<1>1. q \in Nat /\ e \in Nat /\ q > 0 /\ pos.side \in {"BUY", "SELL"}
  BY DEF PositionOK, Position
<1>2. sg \in {1, -1} /\ Sign(side) = -sg
  BY <1>1, OppositeSigns
<1>3. ApplyFill(pos, side, k, x) = new
  BY <1>1 DEF ApplyFill, Flip
<1>4. PositionOK(new)
  BY <1>1 DEF PositionOK, Position, Flat
<1>5. Realized(pos, side, k, x) = 100 * sg * (x - e) * q
  BY <1>1 DEF Realized
<1>6. CostOf(new) = 100 * (-sg) * (k - q) * x /\ CostOf(pos) = 100 * sg * q * e
  BY <1>2 DEF CostOf
<1>7. new.quantity = k - q /\ new.side = side
  OBVIOUS
<1> HIDE DEF new, sg
<1>8. /\ Realized(pos, side, k, x) \in Int
      /\ CostOf(new) \in Int /\ CostOf(pos) \in Int
  BY <1>1, <1>2, <1>5, <1>6
<1>9. Slip(pos, side, k, x) = 0
  <2>1. Slip(pos, side, k, x) = 100 * sg * (x - e) * q + (-sg) * (100 * k * x)
                                - (100 * (-sg) * (k - q) * x - 100 * sg * q * e)
    BY <1>2, <1>3, <1>5, <1>6 DEF Slip
  <2>2. QED
    BY <1>1, <1>2, <2>1
<1>10. new.quantity <= q + k /\ (-sg) * new.quantity = sg * q + (-sg) * k
  BY <1>1, <1>2, <1>7
<1>11. -(50 * (q + k)) <= 0 /\ 0 <= 50 * (q + k)
  BY <1>1
<1>12. QED
  BY <1>2, <1>3, <1>4, <1>7, <1>8, <1>9, <1>10, <1>11 DEF FillOK, sg

\* All five branches of applyFillLocked (paper/broker.go) agree: the position
\* moves by the quantity of the fill, and what is realized plus the cost of
\* what is held follows the cash of the fill, to half a unit of price for every
\* step held after it.
LEMMA FillIsSound ==
    ASSUME NEW pos, PositionOK(pos), NEW side \in {"BUY", "SELL"},
           NEW k \in Nat, k > 0, NEW x \in Nat
    PROVE  FillOK(pos, side, k, x)
<1>1. CASE pos = Flat
  BY <1>1, FillOpens
<1>2. CASE pos # Flat /\ pos.side = side
  BY <1>2, FillAdds
<1>3. CASE pos # Flat /\ pos.side # side
  <2>1. pos.quantity \in Nat
    BY DEF PositionOK, Position
  <2>2. CASE k < pos.quantity
    BY <1>3, <2>2, FillReduces
  <2>3. CASE k = pos.quantity
    BY <1>3, <2>3, FillCloses
  <2>4. CASE k > pos.quantity
    BY <1>3, <2>4, FillFlips
  <2>5. QED
    BY <2>1, <2>2, <2>3, <2>4
<1>4. QED
  BY <1>1, <1>2, <1>3
-----------------------------------------------------------------------------
(* The whole book: what PlaceOrder, a resting order and a reset do to it. *)

\* What adding up the fills of a set gives.
LEMMA SumTypes ==
    ASSUME NEW ds \in SUBSET Decisions, IsFiniteSet(ds)
    PROVE  /\ NetQuantity(ds) \in Int
           /\ Cash(ds) \in Int
           /\ SumFunctionOnSet(QuantityOf, ds) \in Nat
           /\ Cardinality(ds) \in Nat
           /\ Drift(ds) \in Nat
<1>1. \A d \in ds : Signed[d] \in Int /\ CashFlow[d] \in Int /\ QuantityOf[d] \in Nat
  BY OrderTypes
<1>2. NetQuantity(ds) \in Int
  BY <1>1, SumType DEF NetQuantity
<1>3. Cash(ds) \in Int
  BY <1>1, SumType DEF Cash
<1>4. SumFunctionOnSet(QuantityOf, ds) \in Nat
  BY <1>1, SumType
<1>5. Cardinality(ds) \in Nat
  BY FS_CardinalityType
<1>6. Drift(ds) \in Nat
  BY <1>4, <1>5, Product DEF Drift
<1>7. QED
  BY <1>2, <1>3, <1>4, <1>5, <1>6

\* The sums move by what one more fill brings, and the room for rounding by
\* enough for one more average of any position held so far.
LEMMA OneMoreFill ==
    ASSUME NEW ds \in SUBSET Decisions, IsFiniteSet(ds), NEW d \in Decisions, d \notin ds
    PROVE  /\ IsFiniteSet(ds \cup {d})
           /\ NetQuantity(ds \cup {d}) = NetQuantity(ds) + Signed[d]
           /\ Cash(ds \cup {d}) = Cash(ds) + CashFlow[d]
           /\ SumFunctionOnSet(QuantityOf, ds \cup {d})
                  = SumFunctionOnSet(QuantityOf, ds) + QuantityOf[d]
           /\ \A q \in Nat : q <= SumFunctionOnSet(QuantityOf, ds)
                  => Drift(ds \cup {d}) >= Drift(ds) + 50 * (q + QuantityOf[d])
<1>1. \A c \in ds \cup {d} : Signed[c] \in Int /\ CashFlow[c] \in Int /\ QuantityOf[c] \in Nat
  BY OrderTypes
<1>2. IsFiniteSet(ds \cup {d}) /\ Cardinality(ds \cup {d}) = Cardinality(ds) + 1
  BY FS_AddElement
<1>3. NetQuantity(ds \cup {d}) = NetQuantity(ds) + Signed[d]
  BY <1>1, SumAdd DEF NetQuantity
<1>4. Cash(ds \cup {d}) = Cash(ds) + CashFlow[d]
  BY <1>1, SumAdd DEF Cash
<1>5. SumFunctionOnSet(QuantityOf, ds \cup {d})
          = SumFunctionOnSet(QuantityOf, ds) + QuantityOf[d]
  BY <1>1, SumAdd
<1>6. ASSUME NEW q \in Nat, q <= SumFunctionOnSet(QuantityOf, ds)
      PROVE  Drift(ds \cup {d}) >= Drift(ds) + 50 * (q + QuantityOf[d])
  <2> DEFINE n == Cardinality(ds)
             t == SumFunctionOnSet(QuantityOf, ds)
             k == QuantityOf[d]
  <2>1. n \in Nat /\ t \in Nat /\ k \in Nat
    BY <1>1, SumTypes
  <2>2. Drift(ds) = 50 * n * t /\ Drift(ds \cup {d}) = 50 * (n + 1) * (t + k)
    BY <1>2, <1>5 DEF Drift
  <2> HIDE DEF n, t, k
  <2>3. n * t \in Nat /\ n * k \in Nat
    BY <2>1, Product
  <2>4. 50 * (n + 1) * (t + k) = 50 * (n * t) + 50 * (n * k) + 50 * t + 50 * k
    BY <2>1
  <2>5. 50 * n * t = 50 * (n * t)
    BY <2>1
  <2>6. q <= t
    BY <1>6 DEF t
  <2>7. Drift(ds \cup {d}) >= Drift(ds) + 50 * (q + k)
    BY <2>1, <2>2, <2>3, <2>4, <2>5, <2>6
  <2>8. QED
    BY <2>7 DEF k
<1>7. QED
  BY <1>2, <1>3, <1>4, <1>5, <1>6

\* An empty book owes nothing.
LEMMA EmptyBookOK == EmptyBook \in Books /\ BookOK(EmptyBook)
<1>1. EmptyBook \in Books
  BY PaperBookAssumption DEF EmptyBook, Books, Flat, Position, Status
<1>2. Fills(EmptyBook) = {} /\ \A s \in Symbols : FilledOn(EmptyBook, s) = {}
  BY DEF Fills, FilledOn, EmptyBook
<1>3. /\ NetQuantity({}) = 0 /\ Cash({}) = 0 /\ SumFunctionOnSet(QuantityOf, {}) = 0
  BY SumEmpty DEF NetQuantity, Cash
<1>4. Drift({}) \in Nat /\ IsFiniteSet({})
  BY SumTypes, FS_EmptySet
<1>5. SumFunction(Costs(EmptyBook)) = 0
  <2>1. CostOf(Flat) = 0
    BY DEF CostOf, Flat, Sign
  <2>2. DOMAIN Costs(EmptyBook) = Symbols /\ \A s \in Symbols : Costs(EmptyBook)[s] \in {0}
    BY <2>1 DEF Costs, EmptyBook
  <2>3. SumFunctionOnSet(Costs(EmptyBook), Symbols) \in {0}
    BY <2>2, PaperBookAssumption, SumType
  <2>4. QED
    BY <2>2, <2>3 DEF SumFunction
<1>6. EmptyBook.balance = StartingBalance /\ StartingBalance \in Nat
  BY PaperBookAssumption DEF EmptyBook
<1>7. Owed(EmptyBook) = 0
  BY <1>2, <1>3, <1>5, <1>6 DEF Owed
<1>8. ASSUME NEW s \in Symbols
      PROVE  /\ PositionOK(EmptyBook.positions[s])
             /\ EmptyBook.positions[s].quantity <= SumFunctionOnSet(QuantityOf, {})
             /\ Sign(EmptyBook.positions[s].side) * EmptyBook.positions[s].quantity = 0
  <2>1. EmptyBook.positions[s] = Flat
    BY DEF EmptyBook
  <2>2. PositionOK(Flat) /\ Flat.quantity = 0 /\ Sign(Flat.side) = 1
    BY DEF PositionOK, Position, Flat, Sign
  <2>3. QED
    BY <1>3, <2>1, <2>2
<1>9. -Drift({}) <= 0 /\ 0 <= Drift({})
  BY <1>4
<1>10. QED
  BY <1>1, <1>2, <1>3, <1>4, <1>7, <1>8, <1>9 DEF BookOK

\* An order that rests moves no money and no position.
LEMMA RestsOK ==
    ASSUME NEW book \in Books, BookOK(book), NEW d \in Decisions, ~Known(book, d)
    PROVE  Rests(book, d) \in Books /\ BookOK(Rests(book, d))
<1> DEFINE b == Rests(book, d)
<1>1. b \in Books /\ b.balance = book.balance /\ b.positions = book.positions
  BY DEF Rests, Books, Status
<1>2. Fills(b) = Fills(book) /\ \A s \in Symbols : FilledOn(b, s) = FilledOn(book, s)
  BY DEF Rests, Fills, FilledOn, Known, Books
<1> HIDE DEF b
<1>3. Costs(b) = Costs(book)
  BY <1>1 DEF Costs
<1>4. Owed(b) = Owed(book)
  BY <1>1, <1>2, <1>3 DEF Owed
<1>5. BookOK(b)
  BY <1>1, <1>2, <1>4 DEF BookOK
<1>6. QED
  BY <1>1, <1>5 DEF b

\* The cost of what a book holds is a sum of integers, and moves with the one
\* position that a fill touches.
LEMMA CostMoves ==
    ASSUME NEW book \in Books, NEW s \in Symbols, NEW new \in Position,
           NEW b, b.positions = [book.positions EXCEPT ![s] = new]
    PROVE  /\ SumFunction(Costs(book)) \in Int
           /\ SumFunction(Costs(b))
                  = SumFunction(Costs(book)) - CostOf(book.positions[s]) + CostOf(new)
<1>1. \A pos \in Position : CostOf(pos) \in Int
  BY DEF Position, CostOf, Sign
<1>2. Costs(book) \in [Symbols -> Int] /\ Costs(book)[s] = CostOf(book.positions[s])
  BY <1>1 DEF Costs, Books
<1>3. Costs(b) = [Costs(book) EXCEPT ![s] = CostOf(new)]
  BY DEF Costs, Books
<1>4. IsFiniteSet(Symbols) /\ CostOf(new) \in Int
  BY <1>1, PaperBookAssumption
<1>5. /\ SumFunctionOnSet([Costs(book) EXCEPT ![s] = CostOf(new)], Symbols)
             = SumFunctionOnSet(Costs(book), Symbols) - Costs(book)[s] + CostOf(new)
      /\ SumFunctionOnSet(Costs(book), Symbols) \in Int
  BY <1>2, <1>4, SumUpdate
<1>6. DOMAIN Costs(book) = Symbols /\ DOMAIN Costs(b) = Symbols
  BY <1>2, <1>3
<1>7. QED
  BY <1>2, <1>3, <1>5, <1>6 DEF SumFunction

\* PlaceOrder that fills, or a resting order that does: the book still is the
\* fold of its fills, with the new one among them.
LEMMA FilledOK ==
    ASSUME NEW book \in Books, BookOK(book), NEW d \in Decisions, book.orders[d] # "FILLED"
    PROVE  Filled(book, d) \in Books /\ BookOK(Filled(book, d))
<1> DEFINE s == SymbolOf[d]
           pos == book.positions[s]
           side == SideOf[d]
           k == QuantityOf[d]
           x == ExecPrice(d)
           new == ApplyFill(pos, side, k, x)
           gain == Realized(pos, side, k, x)
           b == Filled(book, d)
           ds == Fills(book)
<1>1. /\ s \in Symbols /\ side \in {"BUY", "SELL"} /\ k \in Nat /\ k > 0 /\ x \in Nat
      /\ FeeOf(d) \in Nat /\ NotionalOf(d) \in Nat
      /\ Signed[d] = Sign(side) * k /\ Signed[d] \in Int
      /\ CashFlow[d] = -Sign(side) * NotionalOf(d) - FeeOf(d) /\ CashFlow[d] \in Int
  BY OrderTypes
<1>2. /\ book.balance \in Int /\ book.positions \in [Symbols -> Position]
      /\ book.orders \in [Decisions -> Status]
  BY DEF Books
<1>3. PositionOK(pos) /\ pos.quantity <= SumFunctionOnSet(QuantityOf, ds)
  BY <1>1 DEF BookOK
<1>4. FillOK(pos, side, k, x)
  BY <1>1, <1>3, FillIsSound
<1>5. /\ b.balance = book.balance - FeeOf(d) + gain
      /\ b.positions = [book.positions EXCEPT ![s] = new]
      /\ b.orders = [book.orders EXCEPT ![d] = "FILLED"]
  BY DEF Filled
<1>6. /\ PositionOK(new) /\ new \in Position /\ gain \in Int
      /\ new.quantity <= pos.quantity + k
      /\ Sign(new.side) * new.quantity = Sign(pos.side) * pos.quantity + Sign(side) * k
      /\ CostOf(new) \in Int /\ CostOf(pos) \in Int
      /\ -(50 * (pos.quantity + k)) <= Slip(pos, side, k, x)
      /\ Slip(pos, side, k, x) <= 50 * (pos.quantity + k)
  BY <1>4 DEF FillOK, PositionOK
<1>7. b \in Books
  BY <1>1, <1>2, <1>5, <1>6 DEF Filled, Books, Status
<1> HIDE DEF b, new, gain
<1>8. Fills(b) = ds \cup {d} /\ d \notin ds /\ ds \in SUBSET Decisions
  BY <1>2, <1>5 DEF Fills
<1>9. /\ FilledOn(b, s) = FilledOn(book, s) \cup {d} /\ d \notin FilledOn(book, s)
      /\ \A c \in Symbols : c # s => FilledOn(b, c) = FilledOn(book, c)
  BY <1>2, <1>5 DEF FilledOn
<1>10. IsFiniteSet(ds)
  BY DEF BookOK
<1>11. \A c \in Symbols : FilledOn(book, c) \in SUBSET Decisions /\ IsFiniteSet(FilledOn(book, c))
  <2>1. \A c \in Symbols : FilledOn(book, c) \subseteq ds
    BY DEF FilledOn, Fills
  <2>2. QED
    BY <1>8, <1>10, <2>1, FS_Subset
<1>12. /\ IsFiniteSet(Fills(b))
       /\ Cash(Fills(b)) = Cash(ds) + CashFlow[d]
       /\ SumFunctionOnSet(QuantityOf, Fills(b)) = SumFunctionOnSet(QuantityOf, ds) + k
       /\ Drift(Fills(b)) >= Drift(ds) + 50 * (pos.quantity + k)
  <2>1. pos.quantity \in Nat
    BY <1>3 DEF PositionOK, Position
  <2>2. QED
    BY <1>3, <1>8, <1>10, <2>1, OneMoreFill
<1>13. NetQuantity(FilledOn(b, s)) = NetQuantity(FilledOn(book, s)) + Signed[d]
  BY <1>1, <1>9, <1>11, OneMoreFill
<1>14. /\ Cash(ds) \in Int /\ Drift(ds) \in Nat /\ Drift(Fills(b)) \in Nat
       /\ SumFunctionOnSet(QuantityOf, ds) \in Nat
  BY <1>8, <1>10, <1>12, SumTypes
<1>15. ASSUME NEW c \in Symbols
       PROVE  /\ PositionOK(b.positions[c])
              /\ b.positions[c].quantity <= SumFunctionOnSet(QuantityOf, Fills(b))
              /\ Sign(b.positions[c].side) * b.positions[c].quantity
                     = NetQuantity(FilledOn(b, c))
  <2>1. /\ PositionOK(book.positions[c])
        /\ book.positions[c].quantity <= SumFunctionOnSet(QuantityOf, ds)
        /\ Sign(book.positions[c].side) * book.positions[c].quantity
               = NetQuantity(FilledOn(book, c))
    BY DEF BookOK
  <2>2. book.positions[c].quantity \in Nat
    BY <2>1 DEF PositionOK, Position
  <2>3. CASE c = s
    <3>1. b.positions[c] = new /\ new.quantity \in Nat
      BY <1>1, <1>2, <1>5, <1>6, <2>3 DEF Position
    <3>2. new.quantity <= SumFunctionOnSet(QuantityOf, ds) + k
      BY <1>1, <1>6, <1>14, <2>1, <2>2, <2>3, <3>1
    <3>3. Sign(new.side) * new.quantity = NetQuantity(FilledOn(book, s)) + Sign(side) * k
      BY <1>6, <2>1, <2>3
    <3>4. QED
      BY <1>1, <1>6, <1>12, <1>13, <2>3, <3>1, <3>2, <3>3
  <2>4. CASE c # s
    <3>1. b.positions[c] = book.positions[c] /\ FilledOn(b, c) = FilledOn(book, c)
      BY <1>1, <1>2, <1>5, <1>9, <2>4
    <3>2. book.positions[c].quantity <= SumFunctionOnSet(QuantityOf, ds) + k
      BY <1>1, <1>14, <2>1, <2>2
    <3>3. QED
      BY <1>12, <2>1, <3>1, <3>2
  <2>5. QED
    BY <2>3, <2>4
<1>16. Owed(b) = Owed(book) + Slip(pos, side, k, x) /\ Owed(book) \in Int
  <2> DEFINE cost == SumFunction(Costs(book))
             half == 100 * k * x
  <2>1. cost \in Int /\ SumFunction(Costs(b)) = cost - CostOf(pos) + CostOf(new)
    BY <1>1, <1>5, <1>6, CostMoves
  <2>2. NotionalOf(d) = half
    BY DEF NotionalOf
  <2>3. Slip(pos, side, k, x) = gain + Sign(side) * half - (CostOf(new) - CostOf(pos))
    BY DEF Slip, new, gain
  <2>4. Owed(book) = book.balance - StartingBalance - Cash(ds) - cost
    BY DEF Owed
  <2>5. Owed(b) = (book.balance - FeeOf(d) + gain) - StartingBalance
                  - (Cash(ds) + (-Sign(side) * half - FeeOf(d)))
                  - (cost - CostOf(pos) + CostOf(new))
    BY <1>1, <1>5, <1>12, <2>1, <2>2 DEF Owed
  <2>6. Sign(side) \in {1, -1} /\ half \in Nat /\ StartingBalance \in Nat
    BY <1>1, <2>2, PaperBookAssumption DEF Sign
  <2> HIDE DEF cost, half
  <2>7. QED
    BY <1>1, <1>2, <1>6, <1>14, <2>1, <2>3, <2>4, <2>5, <2>6
<1>17. -Drift(Fills(b)) <= Owed(b) /\ Owed(b) <= Drift(Fills(b))
  <2>1. -Drift(ds) <= Owed(book) /\ Owed(book) <= Drift(ds)
    BY DEF BookOK
  <2>2. Slip(pos, side, k, x) \in Int /\ pos.quantity \in Nat
    <3>1. Sign(side) \in {1, -1} /\ 100 * k * x \in Int
      BY <1>1 DEF Sign
    <3>2. pos.quantity \in Nat
      BY <1>3 DEF PositionOK, Position
    <3>3. QED
      BY <1>6, <3>1, <3>2 DEF Slip, new, gain
  <2>3. QED
    BY <1>1, <1>6, <1>12, <1>14, <1>16, <2>1, <2>2
<1>18. BookOK(b)
  BY <1>12, <1>15, <1>17 DEF BookOK
<1>19. QED
  BY <1>7, <1>18 DEF b
-----------------------------------------------------------------------------
(* The brokers, as the steps of both processes change them. *)

\* What is known of the execution and of the pass from the step they are at.
LEMMA ExecCases ==
    ASSUME TypeOK
    PROVE  /\ exec.pc \in {"idle", "place", "submit", "book"}
           /\ exec.pc = "idle" <=> exec = Idle
           /\ exec # Idle => exec.d \in Decisions
           /\ exec.pc = "submit" => exec.reply \in {"NEW", "FILLED"}
  BY DEF TypeOK, Idle

\* What a pass has in hand at each of its steps.
LEMMA PassCases ==
    ASSUME TypeOK
    PROVE  /\ pass.pc \in {"idle", "positions", "brokerPositions", "orders", "raise", "commit"}
           /\ pass.pc = "idle" <=> pass = Idle
           /\ pass # Idle => pass.p \in Processes
           /\ pass.pc \in {"positions", "brokerPositions", "orders", "raise"} =>
                  pass.found \in BOOLEAN /\ pass.critical \in BOOLEAN
                  /\ pass.open \in SUBSET Decisions
  BY DEF TypeOK, Passes, Idle

\* An adapter's broker is replaced by another that is sound.
LEMMA SetBookOK ==
    ASSUME IInv, NEW p \in Processes, NEW book \in Books, BookOK(book), SetBook(p, book),
           UNCHANGED venue
    PROVE  /\ books' \in [Processes -> Books]
           /\ OneExchange'
           /\ \A q \in Processes : BookOK(books'[q])
           /\ books'["api"] = IF p = "api" \/ venue = "BINANCE" THEN book ELSE books["api"]
<1>1. "api" \in Processes
  BY ReconciliationAssumption
<1>2. books \in [Processes -> Books] /\ \A q \in Processes : BookOK(books[q])
  BY DEF IInv, TypeOK
<1>3. \A q \in Processes : books'[q] = book \/ books'[q] = books[q]
  BY DEF SetBook
<1>4. books' \in [Processes -> Books]
  BY <1>2 DEF SetBook
<1>5. OneExchange'
  BY <1>1 DEF SetBook, OneExchange
<1>6. books'["api"] = IF p = "api" \/ venue = "BINANCE" THEN book ELSE books["api"]
  BY <1>1 DEF SetBook
<1>7. QED
  BY <1>2, <1>3, <1>4, <1>5, <1>6

\* Who touches a broker or forgets a fill.
LEMMA BookWriters ==
    ASSUME [Next]_vars
    PROVE  \/ UNCHANGED <<venue, books, lost, overtaken>>
           \/ \E status \in {"NEW", "FILLED"}, priced \in BOOLEAN : Place(status, priced)
           \/ \E d \in Decisions : VenueFills(d)
           \/ ResetBroker
           \/ \E p \in Processes : Restart(p)
  BY DEF Next, vars, history, Execution, Reconcile, Load, Refuse, Submit, Book, ChangeMode,
         ResetLoad, ResetCommit, CompareAccounts, ReadPositions, ComparePositions,
         CompareOrders, Raise, ForceCloseOnly, AccountUnreachable, Unreachable,
         StatementError

\* What no step does to the brokers: none makes a book unsound, separates the
\* two views of the exchange, loses a fill whose position was not closed without
\* a trace, or makes an order known other than the execution that places it.
BooksKept ==
    /\ venue' = venue
    /\ books' \in [Processes -> Books]
    /\ lost' \in SUBSET Decisions /\ overtaken' \in SUBSET Decisions
    /\ OneExchange'
    /\ \A p \in Processes : BookOK(books'[p])
    /\ \A d \in Decisions : Backed(d) /\ positions[d] # "CLOSED" => Backed(d)'
    /\ \A d \in Decisions :
         Known(books'["api"], d) =>
             Known(books["api"], d) \/ (exec.pc = "place" /\ exec'.pc = "submit" /\ exec.d = d)

\* PlaceOrder of either broker, on the book of the api process.
LEMMA PlaceKeepsBooks ==
    ASSUME IInv, NEW status \in {"NEW", "FILLED"}, NEW priced \in BOOLEAN, Place(status, priced)
    PROVE  BooksKept /\ (status = "FILLED" => Backed(exec.d)')
<1> DEFINE d == exec.d
           old == books["api"]
           book == IF status = "FILLED" THEN Filled(old, d) ELSE Rests(old, d)
<1>1. exec.pc = "place" /\ d \in Decisions /\ "api" \in Processes
  BY ExecCases, ReconciliationAssumption DEF IInv, Place, Idle
<1>2. old \in Books /\ BookOK(old) /\ ~Known(old, d)
  BY <1>1 DEF IInv, TypeOK, RowsFirst
<1>3. book \in Books /\ BookOK(book)
  BY <1>1, <1>2, FilledOK, RestsOK DEF Known
<1>4. /\ venue' = venue /\ UNCHANGED <<lost, overtaken>> /\ SetBook("api", book)
      /\ exec'.pc = "submit" /\ exec'.d = d
  BY DEF Place, history
<1>5. old.orders \in [Decisions -> Status] /\ book.orders = [old.orders EXCEPT ![d] = status]
  BY <1>2 DEF Books, Filled, Rests
<1> HIDE DEF book
<1>6. /\ books' \in [Processes -> Books] /\ OneExchange'
      /\ \A p \in Processes : BookOK(books'[p])
      /\ books'["api"] = book
  BY <1>1, <1>3, <1>4, SetBookOK
<1>7. \A c \in Decisions : Backed(c) => Backed(c)'
  BY <1>1, <1>2, <1>4, <1>5, <1>6 DEF Backed, Known
<1>8. \A c \in Decisions : Known(books'["api"], c) => Known(old, c) \/ c = d
  BY <1>1, <1>5, <1>6 DEF Known
<1>9. status = "FILLED" => Backed(d)'
  BY <1>1, <1>4, <1>5, <1>6 DEF Backed
<1>10. lost \in SUBSET Decisions /\ overtaken \in SUBSET Decisions
  BY DEF IInv, TypeOK
<1>11. QED
  BY <1>1, <1>4, <1>6, <1>7, <1>8, <1>9, <1>10 DEF BooksKept

\* The exchange fills an order that was resting.
LEMMA VenueFillsKeepsBooks ==
    ASSUME IInv, NEW d \in Decisions, VenueFills(d)
    PROVE  BooksKept
<1> DEFINE old == books["api"]
           book == Filled(old, d)
<1>1. "api" \in Processes /\ old \in Books /\ BookOK(old) /\ old.orders[d] = "NEW"
  BY ReconciliationAssumption DEF IInv, TypeOK, VenueFills
<1>2. book \in Books /\ BookOK(book)
  BY <1>1, FilledOK
<1>3. venue' = venue /\ UNCHANGED <<lost, overtaken>> /\ SetBook("api", book)
  BY DEF VenueFills, history
<1>4. old.orders \in [Decisions -> Status] /\ book.orders = [old.orders EXCEPT ![d] = "FILLED"]
  BY <1>1 DEF Books, Filled
<1> HIDE DEF book
<1>5. /\ books' \in [Processes -> Books] /\ OneExchange'
      /\ \A p \in Processes : BookOK(books'[p])
      /\ books'["api"] = book
  BY <1>1, <1>2, <1>3, SetBookOK
<1>6. \A c \in Decisions : Backed(c) => Backed(c)'
  BY <1>1, <1>3, <1>4, <1>5 DEF Backed
<1>7. \A c \in Decisions : Known(books'["api"], c) => Known(old, c)
  BY <1>1, <1>4, <1>5 DEF Known
<1>8. lost \in SUBSET Decisions /\ overtaken \in SUBSET Decisions
  BY DEF IInv, TypeOK
<1>9. QED
  BY <1>3, <1>5, <1>6, <1>7, <1>8 DEF BooksKept

\* A simulator that is emptied leaves a trace of all that it knew and no reset
\* had closed.
LEMMA EmptiedKeepsBooks ==
    ASSUME IInv, NEW p \in Processes, SetBook(p, EmptyBook), UNCHANGED venue,
           lost \subseteq lost', overtaken \subseteq overtaken',
           lost' \subseteq Decisions, overtaken' \subseteq Decisions,
           \A d \in Decisions : Known(books[p], d) /\ positions[d] # "CLOSED"
                                  => d \in lost' \/ d \in overtaken'
    PROVE  BooksKept
<1>1. /\ books' \in [Processes -> Books] /\ OneExchange'
      /\ \A q \in Processes : BookOK(books'[q])
      /\ books'["api"] = IF p = "api" \/ venue = "BINANCE" THEN EmptyBook ELSE books["api"]
  BY EmptyBookOK, SetBookOK
<1>2. venue = "BINANCE" => books[p] = books["api"]
  BY DEF IInv, OneExchange
<1>3. books'["api"] = books["api"] \/ (books'["api"] = EmptyBook /\ books[p] = books["api"])
  BY <1>1, <1>2
<1>4. \A d \in Decisions : EmptyBook.orders[d] = "NONE"
  BY DEF EmptyBook
<1>5. \A d \in Decisions : Backed(d) /\ positions[d] # "CLOSED" => Backed(d)'
  BY <1>3 DEF Backed, Known
<1>6. \A d \in Decisions : Known(books'["api"], d) => Known(books["api"], d)
  BY <1>3, <1>4 DEF Known
<1>7. QED
  BY <1>1, <1>5, <1>6 DEF BooksKept

\* Every step of both processes keeps the books.
LEMMA BooksStep ==
    ASSUME IInv, [Next]_vars
    PROVE  BooksKept
<1>1. CASE UNCHANGED <<venue, books, lost, overtaken>>
  BY <1>1 DEF IInv, TypeOK, OneExchange, Backed, BooksKept
<1>2. ASSUME NEW p \in Processes, Restart(p) PROVE BooksKept
  <2>1. CASE venue = "PAPER"
    <3>1. /\ SetBook(p, EmptyBook) /\ UNCHANGED venue
          /\ lost' = lost \cup {d \in Decisions : Known(books[p], d)} /\ overtaken' = overtaken
      BY <1>2, <2>1 DEF Restart
    <3>2. lost \subseteq Decisions /\ overtaken \subseteq Decisions
      BY DEF IInv, TypeOK
    <3>3. QED
      BY <3>1, <3>2, EmptiedKeepsBooks
  <2>2. CASE venue # "PAPER"
    BY <1>1, <1>2, <2>2 DEF Restart
  <2>3. QED
    BY <2>1, <2>2
<1>3. CASE ResetBroker
  <2>1. /\ SetBook("api", EmptyBook) /\ UNCHANGED venue /\ lost' = lost
        /\ overtaken' = overtaken \cup
             {d \in Decisions : Known(books["api"], d) /\ positions[d] # "CLOSED"}
    BY <1>3 DEF ResetBroker
  <2>2. "api" \in Processes /\ lost \subseteq Decisions /\ overtaken \subseteq Decisions
    BY ReconciliationAssumption DEF IInv, TypeOK
  <2>3. QED
    BY <2>1, <2>2, EmptiedKeepsBooks
<1>4. QED
  BY <1>1, <1>2, <1>3, BookWriters, PlaceKeepsBooks, VenueFillsKeepsBooks
-----------------------------------------------------------------------------
(* Types. *)

\* Where a pass can go next.
LEMMA PassTypes ==
    ASSUME NEW p \in Processes, NEW found \in BOOLEAN, NEW critical \in BOOLEAN,
           NEW open \in SUBSET Decisions,
           NEW pc \in {"positions", "brokerPositions", "orders", "raise"}
    PROVE  /\ Pass(p, pc, found, critical, open) \in Passes
           /\ [pc |-> "commit", p |-> p] \in Passes
           /\ Idle \in Passes
  BY DEF Pass, Passes

\* What a step leaves to the variables that are not books.
RestTyped ==
    /\ mode' \in Mode
    /\ orders' \in [Decisions -> OrderStatus]
    /\ positions' \in [Decisions -> {"NONE", "OPEN", "CLOSED"}]
    /\ exec' \in {Idle} \cup [pc : {"place", "book"}, d : Decisions]
             \cup [pc : {"submit"}, d : Decisions, reply : {"NEW", "FILLED"}]
    /\ reset' \in {"idle", "commit", "broker"}
    /\ pass' \in Passes
    /\ stale' \subseteq {"exec", "reset", "pass"}
    /\ incidents' \subseteq {"MEDIUM", "CRITICAL"}
    /\ faults' \in Nat

\* Executions leave rows and copies of their types.
LEMMA ExecutionTyped ==
    ASSUME IInv, Execution \/ \E d \in Decisions : VenueFills(d)
    PROVE  RestTyped
<1> USE DEF RestTyped, history
<1>1. TypeOK
  BY DEF IInv
<1>2. ASSUME NEW d \in Decisions, Load(d) PROVE RestTyped
  BY <1>1, <1>2 DEF TypeOK, Load, OrderStatus
<1>3. ASSUME NEW status \in {"NEW", "FILLED"}, NEW priced \in BOOLEAN, Place(status, priced)
      PROVE  RestTyped
  <2>1. exec.d \in Decisions /\ Reply(status, priced) \in {"NEW", "FILLED"}
    BY <1>1, <1>3, ExecCases DEF Place, Reply, Idle
  <2>2. QED
    BY <1>1, <1>3, <2>1 DEF TypeOK, Place
<1>4. CASE Refuse
  BY <1>1, <1>4 DEF TypeOK, Refuse, OrderStatus, Forget
<1>5. CASE Submit
  <2>1. exec.d \in Decisions
    BY <1>1, <1>5, ExecCases DEF Submit, Idle
  <2>2. exec' = Idle \/ exec' = [pc |-> "book", d |-> exec.d]
    BY <1>5 DEF Submit
  <2>3. orders' \in [Decisions -> OrderStatus] /\ stale' \subseteq {"exec", "reset", "pass"}
    BY <1>1, <1>5, <2>1 DEF TypeOK, Submit, OrderStatus, Forget
  <2>4. QED
    BY <1>1, <1>5, <2>1, <2>2, <2>3 DEF TypeOK, Submit
<1>6. CASE Book
  <2>1. stale' \subseteq {"exec", "reset", "pass"}
    BY <1>1, <1>6 DEF TypeOK, Book, Forget, AccountSaved, Holders
  <2>2. QED
    BY <1>1, <1>6, <2>1 DEF TypeOK, Book, OrderStatus
<1>7. ASSUME NEW d \in Decisions, VenueFills(d) PROVE RestTyped
  BY <1>1, <1>7 DEF TypeOK, VenueFills
<1>8. QED
  BY <1>2, <1>3, <1>4, <1>5, <1>6, <1>7 DEF Execution

\* So do mode changes, resets, restarts and failed statements,
LEMMA OperatorTyped ==
    ASSUME IInv,
           \/ \E target \in Targets : ChangeMode(target)
           \/ ResetLoad \/ ResetCommit \/ ResetBroker \/ StatementError
           \/ \E p \in Processes : Restart(p)
    PROVE  RestTyped
<1> USE DEF RestTyped, history
<1>1. TypeOK
  BY DEF IInv
<1>2. Holders \subseteq {"exec", "reset", "pass"} /\ Idle \in Passes /\ "PAPER" \in Mode
  BY DEF Holders, Passes, Mode
<1>3. ASSUME NEW target \in Targets, ChangeMode(target) PROVE RestTyped
  BY <1>1, <1>2, <1>3, ReconciliationAssumption DEF TypeOK, ChangeMode, AccountSaved
<1>4. CASE ResetLoad
  BY <1>1, <1>4 DEF TypeOK, ResetLoad
<1>5. CASE ResetCommit
  <2>1. stale' \subseteq {"exec", "reset", "pass"} /\ mode' \in Mode
        /\ reset' \in {"idle", "commit", "broker"}
    BY <1>1, <1>2, <1>5 DEF TypeOK, ResetCommit, AccountSaved, Forget
  <2>2. /\ orders' \in [Decisions -> OrderStatus]
        /\ positions' \in [Decisions -> {"NONE", "OPEN", "CLOSED"}]
    BY <1>1, <1>5 DEF TypeOK, ResetCommit, OrderStatus
  <2>3. QED
    BY <1>1, <1>5, <2>1, <2>2 DEF TypeOK, ResetCommit
<1>6. CASE ResetBroker
  BY <1>1, <1>6 DEF TypeOK, ResetBroker
<1>7. CASE StatementError
  <2>1. /\ exec' = exec \/ exec' = Idle
        /\ reset' = reset \/ reset' = "idle"
        /\ pass' = pass \/ pass' = Idle
        /\ stale' \subseteq stale /\ faults' = faults + 1
        /\ UNCHANGED <<mode, orders, positions, incidents>>
    BY <1>7 DEF StatementError, Forget
  <2>2. QED
    BY <1>1, <1>2, <2>1 DEF TypeOK
<1>8. ASSUME NEW p \in Processes, Restart(p) PROVE RestTyped
  BY <1>1, <1>2, <1>8 DEF TypeOK, Restart
<1>9. QED
  BY <1>3, <1>4, <1>5, <1>6, <1>7, <1>8

\* and the reads and writes of a pass.
LEMMA PassTyped ==
    ASSUME IInv,
           \/ \E p \in Processes : CompareAccounts(p)
           \/ Reconcile \/ AccountUnreachable \/ Unreachable \/ Raise(FALSE)
    PROVE  RestTyped
<1> USE DEF RestTyped, history
<1>1. TypeOK
  BY DEF IInv
<1>2. /\ pass # Idle => pass.p \in Processes
      /\ pass.pc \in {"positions", "brokerPositions", "orders", "raise", "commit"} => pass # Idle
  BY <1>1, PassCases DEF Idle
<1>3. pass.pc \in {"positions", "brokerPositions", "orders", "raise"} =>
          /\ pass.found \in BOOLEAN /\ pass.critical \in BOOLEAN
          /\ pass.open \in SUBSET Decisions
  BY <1>1, PassCases
<1>4. Idle \in Passes /\ {} \in SUBSET Decisions
  BY DEF Passes
<1>5. ASSUME NEW p \in Processes, CompareAccounts(p) PROVE RestTyped
  <2>1. pass' \in Passes
    BY <1>4, <1>5, PassTypes DEF CompareAccounts
  <2>2. QED
    BY <1>1, <1>5, <2>1 DEF TypeOK, CompareAccounts
<1>6. CASE ReadPositions
  <2>1. {d \in Decisions : positions[d] = "OPEN"} \in SUBSET Decisions
    OBVIOUS
  <2>2. pass' \in Passes
    BY <1>2, <1>3, <1>6, <2>1, PassTypes DEF ReadPositions
  <2>3. QED
    BY <1>1, <1>6, <2>2 DEF TypeOK, ReadPositions
<1>7. CASE ComparePositions
  <2>1. (pass.found \/ Missing # {} \/ QuantityDiverges) \in BOOLEAN /\ (Missing # {}) \in BOOLEAN
    OBVIOUS
  <2>2. pass' \in Passes
    BY <1>2, <1>4, <1>7, <2>1, PassTypes DEF ComparePositions
  <2>3. QED
    BY <1>1, <1>7, <2>2 DEF TypeOK, ComparePositions
<1>8. CASE CompareOrders
  <2>1. pass' \in Passes
    BY <1>2, <1>3, <1>4, <1>8, PassTypes DEF CompareOrders
  <2>2. QED
    BY <1>1, <1>8, <2>1 DEF TypeOK, CompareOrders
<1>9. ASSUME NEW saved \in BOOLEAN, Raise(saved) PROVE RestTyped
  <2>1. pass' \in Passes
    BY <1>2, <1>3, <1>4, <1>9, PassTypes DEF Raise
  <2>2. incidents' \subseteq {"MEDIUM", "CRITICAL"} /\ faults' \in Nat
    BY <1>1, <1>9 DEF TypeOK, Raise
  <2>3. QED
    BY <1>1, <1>9, <2>1, <2>2 DEF TypeOK, Raise
<1>10. CASE ForceCloseOnly
  BY <1>1, <1>4, <1>10 DEF TypeOK, ForceCloseOnly, AccountSaved, Forget, Holders, Mode
<1>11. CASE AccountUnreachable
  BY <1>1, <1>11 DEF TypeOK, AccountUnreachable, CallFails
<1>12. CASE Unreachable
  <2>1. pass' \in Passes
    BY <1>2, <1>3, <1>4, <1>12, PassTypes DEF Unreachable
  <2>2. /\ faults' = faults + 1
        /\ UNCHANGED <<mode, orders, positions, exec, reset, stale, incidents>>
    BY <1>12 DEF Unreachable, CallFails
  <2>3. QED
    BY <1>1, <2>1, <2>2 DEF TypeOK
<1>13. QED
  BY <1>5, <1>6, <1>7, <1>8, <1>9, <1>10, <1>11, <1>12 DEF Reconcile

\* Every step keeps the types.
LEMMA TypeStep ==
    ASSUME IInv, [Next]_vars
    PROVE  TypeOK'
<1>1. BooksKept
  BY BooksStep
<1>2. CASE UNCHANGED vars
  BY <1>2 DEF IInv, TypeOK, vars
<1>3. CASE Next
  <2>1. RestTyped
    BY <1>3, ExecutionTyped, OperatorTyped, PassTyped DEF Next
  <2>2. QED
    BY <1>1, <2>1 DEF IInv, TypeOK, RestTyped, BooksKept
<1>4. QED
  BY <1>2, <1>3
-----------------------------------------------------------------------------
(* What executions and passes know. *)

\* No step takes a row of an order or a position away, and only the booking of
\* a reported fill makes a position.
LEMMA RowsMove ==
    ASSUME IInv, [Next]_vars
    PROVE  \A d \in Decisions :
             /\ orders'[d] = "NONE" => orders[d] = "NONE"
             /\ positions'[d] = "OPEN" => positions[d] = "OPEN" \/ (exec.pc = "book" /\ exec.d = d)
             /\ positions'[d] = "NONE" => positions[d] = "NONE"
             /\ positions[d] = "NONE" /\ positions'[d] # "NONE" =>
                    exec.pc = "book" /\ exec.d = d /\ exec' = Idle
<1>1. /\ orders \in [Decisions -> OrderStatus]
      /\ positions \in [Decisions -> {"NONE", "OPEN", "CLOSED"}]
      /\ exec # Idle => exec.d \in Decisions
  BY ExecCases DEF IInv, TypeOK
<1>2. CASE UNCHANGED <<orders, positions>>
  BY <1>2
<1>3. ASSUME NEW d \in Decisions, Load(d) PROVE UNCHANGED positions /\ orders' = [orders EXCEPT ![d] = "PENDING"]
  BY <1>3 DEF Load
<1>4. CASE Refuse
  BY <1>1, <1>4 DEF Refuse
<1>5. CASE Submit
  BY <1>1, <1>5 DEF Submit
<1>6. CASE Book
  BY <1>1, <1>6 DEF Book
<1>7. CASE ResetCommit
  BY <1>1, <1>7 DEF ResetCommit
<1>8. \/ UNCHANGED <<orders, positions>> \/ (\E d \in Decisions : Load(d))
      \/ Refuse \/ Submit \/ Book \/ ResetCommit
  BY DEF Next, vars, history, Execution, Reconcile, Place, VenueFills, ChangeMode, ResetLoad,
         ResetBroker, CompareAccounts, ReadPositions, ComparePositions, CompareOrders, Raise,
         ForceCloseOnly, AccountUnreachable, Unreachable, StatementError, Restart
<1>9. QED
  BY <1>1, <1>2, <1>3, <1>4, <1>5, <1>6, <1>7, <1>8

\* How an execution moves on.
LEMMA ExecMoves ==
    ASSUME [Next]_vars
    PROVE  \/ exec' = exec
           \/ exec' = Idle
           \/ \E d \in Decisions : Load(d)
           \/ \E status \in {"NEW", "FILLED"}, priced \in BOOLEAN : Place(status, priced)
           \/ /\ exec.pc = "submit" /\ exec.reply # "NEW"
              /\ exec' = [pc |-> "book", d |-> exec.d]
  BY DEF Next, vars, history, Execution, Reconcile, Refuse, Submit, Book, VenueFills, ChangeMode,
         ResetLoad, ResetCommit, ResetBroker, CompareAccounts, ReadPositions, ComparePositions,
         CompareOrders, Raise, ForceCloseOnly, AccountUnreachable, Unreachable, StatementError,
         Restart

\* How a pass comes to compare positions.
LEMMA PassMoves ==
    ASSUME IInv, [Next]_vars, pass'.pc = "brokerPositions"
    PROVE  \/ pass' = pass
           \/ ReadPositions /\ pass'.open = {d \in Decisions : positions[d] = "OPEN"}
<1>1. \/ pass' = pass \/ pass' = Idle \/ ReadPositions
      \/ (\E p \in Processes : CompareAccounts(p))
      \/ ComparePositions \/ CompareOrders \/ Unreachable \/ Raise(TRUE) \/ Raise(FALSE)
  BY DEF Next, vars, history, Execution, Reconcile, Load, Place, Refuse, Submit, Book, VenueFills,
         ChangeMode, ResetLoad, ResetCommit, ResetBroker, ForceCloseOnly, AccountUnreachable,
         StatementError, Restart
<1>2. QED
  BY <1>1 DEF Idle, ReadPositions, CompareAccounts, ComparePositions, CompareOrders, Unreachable,
              Raise, Pass

\* An order is on record before the broker knows of it, at every step.
LEMMA RowsFirstStep ==
    ASSUME IInv, [Next]_vars
    PROVE  RowsFirst'
<1>1. BooksKept
  BY BooksStep
<1>2. /\ \A d \in Decisions : orders[d] = "NONE" => ~Known(books["api"], d)
      /\ exec # Idle => orders[exec.d] # "NONE"
      /\ exec.pc = "place" => ~Known(books["api"], exec.d)
  BY DEF IInv, RowsFirst
<1>3. /\ exec # Idle => exec.d \in Decisions
      /\ exec.pc = "idle" <=> exec = Idle
  BY ExecCases DEF IInv
<1>4. \A d \in Decisions : orders'[d] = "NONE" => ~Known(books'["api"], d)
  BY <1>1, <1>2, <1>3, RowsMove DEF BooksKept
<1>5. exec' = exec \/ exec' = Idle =>
         /\ exec' # Idle => orders'[exec'.d] # "NONE"
         /\ exec'.pc = "place" => ~Known(books'["api"], exec'.d)
  BY <1>1, <1>2, <1>3, RowsMove DEF BooksKept, Idle
<1>6. ASSUME NEW d \in Decisions, Load(d)
      PROVE  orders'[exec'.d] # "NONE" /\ ~Known(books'["api"], exec'.d)
  <2>1. orders[d] = "NONE" /\ books' = books /\ exec'.d = d /\ orders' = [orders EXCEPT ![d] = "PENDING"]
    BY <1>6 DEF Load
  <2>2. orders \in [Decisions -> OrderStatus]
    BY DEF IInv, TypeOK
  <2>3. QED
    BY <1>2, <2>1, <2>2
<1>7. ASSUME NEW status \in {"NEW", "FILLED"}, NEW priced \in BOOLEAN, Place(status, priced)
      PROVE  orders'[exec'.d] # "NONE" /\ exec'.pc # "place"
  <2>1. exec'.d = exec.d /\ exec'.pc = "submit" /\ orders' = orders /\ exec.pc = "place"
    BY <1>7 DEF Place
  <2>2. QED
    BY <1>2, <1>3, <2>1
<1>8. CASE exec.pc = "submit" /\ exec' = [pc |-> "book", d |-> exec.d]
  BY <1>2, <1>3, <1>4, <1>8, RowsMove DEF RowsFirst
<1>9. QED
  BY <1>2, <1>4, <1>5, <1>6, <1>7, <1>8, ExecMoves DEF RowsFirst

\* A position never precedes its order row, nor the end of the execution that
\* books it, and what a pass has read as open stays open or is closed.
LEMMA PositionsLastStep ==
    ASSUME IInv, [Next]_vars
    PROVE  PositionsLast'
<1>1. /\ \A d \in Decisions : orders[d] = "NONE" => positions[d] = "NONE"
      /\ exec # Idle => positions[exec.d] = "NONE" /\ orders[exec.d] # "NONE"
      /\ pass.pc = "brokerPositions" => \A d \in pass.open : positions[d] # "NONE"
  BY DEF IInv, PositionsLast, RowsFirst
<1>2. /\ exec # Idle => exec.d \in Decisions
      /\ exec.pc = "idle" <=> exec = Idle
      /\ pass.pc = "brokerPositions" => pass.open \in SUBSET Decisions
  BY ExecCases, PassCases DEF IInv, Idle
<1>3. \A d \in Decisions : orders'[d] = "NONE" => positions'[d] = "NONE"
  BY <1>1, <1>2, RowsMove
<1>4. exec' # Idle => positions'[exec'.d] = "NONE"
  <2>1. CASE exec' = exec
    BY <1>1, <1>2, <2>1, RowsMove
  <2>2. CASE exec' = Idle
    BY <2>2
  <2>3. ASSUME NEW d \in Decisions, Load(d) PROVE positions'[exec'.d] = "NONE"
    BY <1>1, <2>3 DEF Load
  <2>4. ASSUME NEW status \in {"NEW", "FILLED"}, NEW priced \in BOOLEAN, Place(status, priced)
        PROVE  positions'[exec'.d] = "NONE"
    <3>1. exec.pc = "place" /\ exec'.d = exec.d /\ positions' = positions
      BY <2>4 DEF Place
    <3>2. QED
      BY <1>1, <1>2, <3>1
  <2>5. CASE exec.pc = "submit" /\ exec' = [pc |-> "book", d |-> exec.d]
    <3>1. exec'.d = exec.d /\ exec' # Idle /\ exec # Idle
      BY <1>2, <2>5 DEF Idle
    <3>2. QED
      BY <1>1, <1>2, <3>1, RowsMove
  <2>6. QED
    BY <2>1, <2>2, <2>3, <2>4, <2>5, ExecMoves
<1>5. ASSUME pass'.pc = "brokerPositions"
      PROVE  \A d \in pass'.open : positions'[d] # "NONE"
  <2>1. CASE pass' = pass
    BY <1>1, <1>2, <1>5, <2>1, RowsMove
  <2>2. CASE pass'.open = {d \in Decisions : positions[d] = "OPEN"}
    BY <2>2, RowsMove
  <2>3. QED
    BY <1>5, <2>1, <2>2, PassMoves
<1>6. QED
  BY <1>3, <1>4, <1>5 DEF PositionsLast

\* What is booked or reported to an execution stays backed: a fill whose position
\* no reset has closed leaves the broker only with a trace.
LEMMA BackedStep ==
    ASSUME IInv, [Next]_vars
    PROVE  OpenIsBacked' /\ ReportsBacked'
<1>1. BooksKept
  BY BooksStep
<1>2. \A d \in Decisions : Backed(d) /\ positions[d] # "CLOSED" => Backed(d)'
  BY <1>1 DEF BooksKept
<1>3. /\ exec.pc \in {"place", "submit", "book"} =>
             exec.d \in Decisions /\ positions[exec.d] # "CLOSED"
      /\ exec.pc = "submit" => exec.reply \in {"NEW", "FILLED"}
  BY ExecCases DEF IInv, PositionsLast, Idle
<1>4. /\ exec.pc = "submit" /\ exec.reply = "FILLED" => Backed(exec.d)
      /\ exec.pc = "book" => Backed(exec.d)
  BY DEF IInv, ReportsBacked
<1>5. \A d \in Decisions : positions[d] = "OPEN" => Backed(d)
  BY DEF IInv, OpenIsBacked, Backed
<1>6. OpenIsBacked'
  <2>1. \A d \in Decisions : positions'[d] = "OPEN" => Backed(d)'
    BY <1>2, <1>3, <1>4, <1>5, RowsMove
  <2>2. QED
    BY <2>1 DEF OpenIsBacked, Backed
<1> DEFINE Told == /\ exec.pc = "submit" /\ exec.reply = "FILLED" => Backed(exec.d)
                   /\ exec.pc = "book" => Backed(exec.d)
<1>7. Told'
  <2>1. CASE exec' = exec
    BY <1>2, <1>3, <1>4, <2>1 DEF Backed
  <2>2. CASE exec' = Idle
    BY <2>2 DEF Idle
  <2>3. ASSUME NEW d \in Decisions, Load(d) PROVE Told'
    BY <2>3 DEF Load
  <2>4. ASSUME NEW status \in {"NEW", "FILLED"}, NEW priced \in BOOLEAN, Place(status, priced)
        PROVE  Told'
    <3>1. exec'.pc = "submit" /\ (exec'.reply = "FILLED" => status = "FILLED")
      BY <2>4 DEF Place, Reply
    <3>2. status = "FILLED" => Backed(exec.d)'
      BY <2>4, PlaceKeepsBooks
    <3>3. QED
      BY <3>1, <3>2
  <2>5. CASE exec.pc = "submit" /\ exec.reply # "NEW" /\ exec' = [pc |-> "book", d |-> exec.d]
    BY <1>2, <1>3, <1>4, <2>5 DEF Backed
  <2>6. QED
    BY <2>1, <2>2, <2>3, <2>4, <2>5, ExecMoves
<1>8. QED
  BY <1>6, <1>7 DEF ReportsBacked

\* Empty books, no rows, nobody at work.
LEMMA InitIInv == Init => IInv
<1> SUFFICES ASSUME Init PROVE IInv
  OBVIOUS
<1>1. "api" \in Processes
  BY ReconciliationAssumption
<1>2. books = [p \in Processes |-> EmptyBook] /\ EmptyBook \in Books /\ BookOK(EmptyBook)
  BY EmptyBookOK DEF Init
<1>3. TypeOK
  BY <1>2 DEF Init, TypeOK, Mode, OrderStatus, Passes
<1>4. OneExchange /\ \A p \in Processes : BookOK(books[p])
  BY <1>1, <1>2 DEF OneExchange
<1>5. RowsFirst
  BY <1>1, <1>2 DEF Init, RowsFirst, Known, EmptyBook, Idle
<1>6. PositionsLast /\ OpenIsBacked /\ ReportsBacked
  BY DEF Init, PositionsLast, OpenIsBacked, ReportsBacked, Idle
<1>7. QED
  BY <1>3, <1>4, <1>5, <1>6 DEF IInv

\* Every step keeps the invariant.
LEMMA InvStep == IInv /\ [Next]_vars => IInv'
<1> SUFFICES ASSUME IInv, [Next]_vars PROVE IInv'
  OBVIOUS
<1>1. BooksKept
  BY BooksStep
<1>2. QED
  BY <1>1, TypeStep, RowsFirstStep, PositionsLastStep, BackedStep DEF IInv, BooksKept

\* The invariant holds always.
LEMMA Invariance == Spec => []IInv
  BY InitIInv, InvStep, PTL DEF Spec
-----------------------------------------------------------------------------
\* Every variable keeps its type, the books of the simulators included: no
\* fill ever leaves a negative quantity or entry price behind.
THEOREM TypeCorrect == Spec => []TypeOK
<1>1. IInv => TypeOK
  BY DEF IInv
<1>2. QED
  BY <1>1, Invariance, PTL

\* Whatever orders fill, in whatever order, on whatever symbols, and however
\* often the simulator restarts or is reset, its positions are the sums of its
\* fills and its balance is what they left, to the drift of the averages
\* (paper/broker.go, applyFillLocked).
THEOREM BookIsItsFills == Spec => []BookMatchesFills
<1>1. IInv => BookMatchesFills
  <2> SUFFICES ASSUME IInv, NEW p \in Processes
               PROVE  LET book == books[p]
                          all  == {d \in Decisions : book.orders[d] = "FILLED"}
                          owed == book.balance - StartingBalance - Cash(all)
                                  - SumFunction(Costs(book))
                      IN  /\ \A s \in Symbols :
                               /\ Sign(book.positions[s].side) * book.positions[s].quantity
                                      = NetQuantity(FilledOn(book, s))
                               /\ book.positions[s] = Flat <=> book.positions[s].quantity = 0
                          /\ -Drift(all) <= owed /\ owed <= Drift(all)
    BY DEF BookMatchesFills
  <2>1. BookOK(books[p])
    BY DEF IInv
  <2>2. \A s \in Symbols : books[p].positions[s] = Flat <=> books[p].positions[s].quantity = 0
    BY <2>1 DEF BookOK, PositionOK, Flat
  <2>3. QED
    BY <2>1, <2>2 DEF BookOK, Owed, Fills
<1>2. QED
  BY <1>1, Invariance, PTL

\* No position is booked that the broker has not filled, whatever executions,
\* resets, restarts and failed statements do to each other.
THEOREM PositionsAreBacked == Spec => []OpenIsBacked
<1>1. IInv => OpenIsBacked
  BY DEF IInv
<1>2. QED
  BY <1>1, Invariance, PTL

\* When calls succeed, each position that a pass calls missing is open and
\* missing at the broker that trades, with its cause, or the alarm is one of two
\* false ones: the worker's simulator was asked, or a reset closed the position
\* after the pass had read it.  However entries, mode changes and operators run
\* between its reads, there is no third (reconcile_broker_state.go).
THEOREM AlarmsHaveCauses == Spec => AlarmHasCause
<1> DEFINE Caused ==
      pass.pc = "brokerPositions" /\ pass'.pc = "orders" /\ pass'.critical =>
         \/ faults' # faults
         \/ /\ Missing # {}
            /\ \A d \in Missing :
                   \/ AsksOtherSimulator
                   \/ positions[d] = "CLOSED"
                   \/ ReallyMissing(d)
<1>1. ASSUME IInv, pass.pc = "brokerPositions", ~AsksOtherSimulator,
             NEW d \in Missing, positions[d] # "CLOSED"
      PROVE  ReallyMissing(d)
  <2> DEFINE book == books["api"]
             s == SymbolOf[d]
  <2>1. pass.p \in Processes /\ d \in pass.open /\ d \in Decisions /\ s \in Symbols
    BY <1>1, PassCases, OrderTypes DEF IInv, Missing, Idle
  <2>2. positions[d] = "OPEN"
    BY <1>1, <2>1 DEF IInv, TypeOK, PositionsLast
  <2>3. books["api"].orders[d] = "FILLED" \/ d \in lost \/ d \in overtaken
    BY <2>1, <2>2, <1>1 DEF IInv, OpenIsBacked
  <2>4. books[pass.p] = book /\ "api" \in Processes
    BY <1>1, <2>1, ReconciliationAssumption DEF IInv, OneExchange, TypeOK, AsksOtherSimulator
  <2>5. BookOK(book)
    BY <1>1, <2>4 DEF IInv
  <2>6. book.positions[s].quantity = 0
    BY <1>1, <2>1, <2>4 DEF Missing, BrokerPositions, Held, Flat
  <2>7. Sign(book.positions[s].side) * book.positions[s].quantity = NetQuantity(FilledOn(book, s))
    BY <2>1, <2>5 DEF BookOK
  <2>8. Sign(book.positions[s].side) * 0 = 0
    BY DEF Sign
  <2>9. NetQuantity(FilledOn(book, s)) = 0
    BY <2>6, <2>7, <2>8
  <2>10. QED
    BY <2>1, <2>2, <2>3, <2>9 DEF ReallyMissing, FilledOn
<1>2. ASSUME IInv, [Next]_vars, pass.pc = "brokerPositions", pass'.pc = "orders", pass'.critical,
             faults' = faults
      PROVE  Missing # {}
  <2>1. \/ pass' = pass \/ faults' = faults + 1 \/ ComparePositions
        \/ pass.pc \in {"positions", "orders", "raise", "commit"} \/ pass = Idle
    BY <1>2
    DEF Next, vars, history, Execution, Reconcile, Load, Place, Refuse, Submit, Book, VenueFills,
        ChangeMode, ResetLoad, ResetCommit, ResetBroker, CompareAccounts, ReadPositions,
        CompareOrders, Raise, ForceCloseOnly, AccountUnreachable, Unreachable, CallFails,
        StatementError, Restart
  <2>2. ComparePositions
    BY <1>2, <2>1 DEF IInv, TypeOK, Idle
  <2>3. QED
    BY <1>2, <2>2 DEF ComparePositions, Pass
<1>3. IInv /\ [Next]_vars => [Caused]_vars
  BY <1>1, <1>2
<1>4. QED
  BY <1>3, Invariance, PTL DEF Spec, AlarmHasCause
=============================================================================
