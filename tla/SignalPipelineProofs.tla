------------------------ MODULE SignalPipelineProofs ------------------------
(***************************************************************************)
(* Proofs about SignalPipeline, for any limits, prices, windows and number *)
(* of pollers.                                                             *)
(*                                                                         *)
(* The invariant says what a run still knows for certain of the rows it    *)
(* read earlier: an available balance only grows while it is decided on,   *)
(* an event on record stays on record, and only the run opens a position.  *)
(***************************************************************************)
EXTENDS SignalPipeline, ArithmeticLemmas, TLAPS

(* What both sizers promise, for every balance, price, distance, precision *)
(* of the division and limit: they keep KeepsLimits.                       *)

\* The arithmetic of both sizers: raw is the smaller of two rounded quotients,
\* at risk per unit d and with price p; q is raw cut to the step.
LEMMA CutBounds ==
    ASSUME NEW n \in Nat, NEW d \in Nat \ {0}, NEW m \in Nat, NEW p \in Nat \ {0},
           NEW q \in Nat, NEW x \in Nat, NEW y \in Nat,
           n = Precision * x, m = Precision * y,
           q = roundDownToStep(Min({RoundedDiv(n, d), RoundedDiv(m, p)}))
    PROVE  /\ 2 * (d * (Precision * q)) <= 2 * n + d
           /\ 2 * (p * (Precision * q)) <= 2 * m + p
           /\ d * (q + 1) > x \/ p * (q + 1) > y
<1> DEFINE r == RoundedDiv(n, d)
           s == RoundedDiv(m, p)
           raw == Min({r, s})
<1>1. Precision \in Nat \ {0}
  BY SizingAssumption
<1>2. r \in Nat /\ 2 * (d * r) <= 2 * n + d /\ n < d * (r + 1)
  BY RoundedBounds
<1>3. s \in Nat /\ 2 * (p * s) <= 2 * m + p /\ m < p * (s + 1)
  BY RoundedBounds
<1> HIDE DEF r, s
<1>4. raw \in Nat /\ raw <= r /\ raw <= s /\ (raw = r \/ raw = s)
  BY <1>2, <1>3, MinOfTwo
<1>5. q = raw \div Precision
  BY DEF roundDownToStep, r, s
<1> HIDE DEF raw
<1>6. Precision * q <= raw /\ raw < Precision * (q + 1)
  BY <1>1, <1>4, <1>5, DivBounds
<1>7. Precision * q \in Nat /\ Precision * (q + 1) \in Nat
  BY <1>1
<1>8. d * (Precision * q) <= d * r
  BY <1>2, <1>4, <1>6, <1>7, Grows
<1>9. p * (Precision * q) <= p * s
  BY <1>3, <1>4, <1>6, <1>7, Grows
<1>10. /\ d * r \in Nat /\ p * s \in Nat
       /\ d * (Precision * q) \in Nat /\ p * (Precision * q) \in Nat
  BY <1>2, <1>3, <1>7, Product
<1>11. CASE raw = r
  <2>1. d * (r + 1) <= d * (Precision * (q + 1))
    BY <1>2, <1>6, <1>7, <1>11, Grows
  <2>2. d * (Precision * (q + 1)) = Precision * (d * (q + 1)) /\ d * (q + 1) \in Nat
    BY <1>1
  <2>3. Precision * (d * (q + 1)) > Precision * x
    BY <1>1, <1>2, <2>1, <2>2
  <2>4. d * (q + 1) > x
    BY <1>1, <2>2, <2>3, Cancel
  <2>5. QED
    BY <1>2, <1>3, <1>8, <1>9, <1>10, <2>4
<1>12. CASE raw = s
  <2>1. p * (s + 1) <= p * (Precision * (q + 1))
    BY <1>3, <1>6, <1>7, <1>12, Grows
  <2>2. p * (Precision * (q + 1)) = Precision * (p * (q + 1)) /\ p * (q + 1) \in Nat
    BY <1>1
  <2>3. Precision * (p * (q + 1)) > Precision * y
    BY <1>1, <1>3, <2>1, <2>2
  <2>4. p * (q + 1) > y
    BY <1>1, <2>2, <2>3, Cancel
  <2>5. QED
    BY <1>2, <1>3, <1>8, <1>9, <1>10, <2>4
<1>13. QED
  BY <1>4, <1>11, <1>12
-----------------------------------------------------------------------------
\* What is not rejected is a positive quantity, cut to the step.
LEMMA Finalized ==
    ASSUME NEW raw \in Nat, NEW entry, finalizeQuantity(raw, entry) # Rejected
    PROVE  /\ finalizeQuantity(raw, entry) = roundDownToStep(raw)
           /\ roundDownToStep(raw) \in Nat \ {0}
<1>1. roundDownToStep(raw) \in Nat
  BY SizingAssumption, DivBounds DEF roundDownToStep
<1>2. QED
  BY <1>1 DEF finalizeQuantity, Rejected

\* FixedRiskPositionSizing.Size, for every available balance, price and
\* distance to the stop (position_sizing.go 86-124): a quantity it does not
\* reject loses no more than the risk per trade at its stop and is worth no
\* more than the leverage allows, up to the rounding of the division, and one
\* step more would break one of the two.
THEOREM SizeForKeepsLimits ==
    ASSUME NEW available \in Int, NEW entry \in Nat \ {0}, NEW distance \in Nat,
           SizeFor(available, entry, distance) # Rejected
    PROVE  /\ SizeFor(available, entry, distance) \in Nat \ {0}
           /\ KeepsLimits(SizeFor(available, entry, distance), available, entry, distance)
<1> DEFINE q == SizeFor(available, entry, distance)
           x == PerTradePct * available
           y == available * MaxLeverage
           n == x * Precision
           m == y * Precision
           d == 100 * distance
           raw == Min({RoundedDiv(n, d), RoundedDiv(m, entry)})
<1>1. available \in Nat \ {0} /\ distance \in Nat \ {0}
  BY DEF SizeFor
<1>2. /\ Precision \in Nat \ {0} /\ PerTradePct \in Nat /\ MaxLeverage \in Nat
  BY SizingAssumption
<1>3. x \in Nat /\ y \in Nat /\ n \in Nat /\ m \in Nat /\ d \in Nat \ {0}
  BY <1>1, <1>2, Product
<1>4. n = Precision * x /\ m = Precision * y
  BY <1>2, <1>3
<1>5. q = finalizeQuantity(raw, entry)
  BY <1>1 DEF SizeFor, capByLeverage, maxQuantityByLeverage
<1> HIDE DEF x, y, n, m, d
<1>6. raw \in Nat
  <2>1. RoundedDiv(n, d) \in Nat
    BY <1>3, RoundedBounds
  <2>2. RoundedDiv(m, entry) \in Nat
    BY <1>3, RoundedBounds
  <2>3. QED
    BY <2>1, <2>2, MinOfTwo
<1>7. q = roundDownToStep(raw) /\ q \in Nat \ {0}
  BY <1>5, <1>6, Finalized
<1> HIDE DEF q
<1>8. /\ 2 * (d * (Precision * q)) <= 2 * n + d
      /\ 2 * (entry * (Precision * q)) <= 2 * m + entry
      /\ d * (q + 1) > x \/ entry * (q + 1) > y
  BY <1>3, <1>4, <1>7, CutBounds
<1>9. 200 * Precision * q * distance <= 2 * Precision * PerTradePct * available + 100 * distance
  <2>1. 2 * (d * (Precision * q)) = 200 * Precision * q * distance
    BY <1>1, <1>2, <1>7 DEF d
  <2>2. 2 * n + d = 2 * Precision * PerTradePct * available + 100 * distance
    BY <1>1, <1>2 DEF n, x, d
  <2>3. QED
    BY <1>8, <2>1, <2>2
<1>10. 2 * Precision * q * entry <= 2 * Precision * available * MaxLeverage + entry
  <2>1. 2 * (entry * (Precision * q)) = 2 * Precision * q * entry
    BY <1>2, <1>7
  <2>2. 2 * m + entry = 2 * Precision * available * MaxLeverage + entry
    BY <1>1, <1>2 DEF m, y
  <2>3. QED
    BY <1>8, <2>1, <2>2
<1>11. \/ 100 * (q + 1) * distance > PerTradePct * available
       \/ (q + 1) * entry > available * MaxLeverage
  <2>1. d * (q + 1) = 100 * (q + 1) * distance /\ entry * (q + 1) = (q + 1) * entry
    BY <1>1, <1>7 DEF d
  <2>2. QED
    BY <1>8, <2>1 DEF x, y
<1>12. q \in Nat \ {0} /\ KeepsLimits(q, available, entry, distance)
  BY <1>7, <1>9, <1>10, <1>11 DEF KeepsLimits
<1>13. QED
  BY <1>12 DEF q

\* ATRPositionSizing.Size with an ATR (position_sizing.go 40-74), in amounts
\* ten times as large: the distance is the ATR times the multiplier.
THEOREM ATRSizeKeepsLimits ==
    ASSUME NEW available \in Int, NEW entry \in Nat \ {0}, NEW stop \in Int, NEW atr \in Nat \ {0},
           ATRSize(available, entry, stop, atr) # Rejected
    PROVE  /\ ATRSize(available, entry, stop, atr) \in Nat \ {0}
           /\ KeepsLimits(ATRSize(available, entry, stop, atr), 10 * available, 10 * entry,
                          multiplier * atr)
<1> DEFINE q == ATRSize(available, entry, stop, atr)
           x == (PerTradePct * available) * 10
           y == available * MaxLeverage
           n == PerTradePct * available * Precision * 10
           m == y * Precision
           d == 100 * atr * multiplier
           raw == Min({RoundedDiv(n, d), RoundedDiv(m, entry)})
<1>1. available \in Nat \ {0}
  BY DEF ATRSize
<1>2. /\ Precision \in Nat \ {0} /\ PerTradePct \in Nat /\ MaxLeverage \in Nat
      /\ multiplier \in Nat \ {0}
  BY SizingAssumption DEF multiplier
<1>3. x \in Nat /\ y \in Nat /\ m \in Nat
  BY <1>1, <1>2, Product
<1>4. n = Precision * x /\ m = Precision * y
  BY <1>1, <1>2
<1>5. n \in Nat /\ d \in Nat \ {0}
  <2>1. n \in Nat
    BY <1>2, <1>3, <1>4, Product
  <2>2. atr * multiplier \in Nat /\ atr * multiplier > 0
    BY <1>2, Product
  <2>3. d = 100 * (atr * multiplier)
    BY <1>2
  <2>4. QED
    BY <2>1, <2>2, <2>3
<1>6. q = finalizeQuantity(raw, entry)
  BY <1>1 DEF ATRSize, capByLeverage, maxQuantityByLeverage
<1> HIDE DEF x, y, n, m, d
<1>7. raw \in Nat
  <2>1. RoundedDiv(n, d) \in Nat
    BY <1>3, <1>5, RoundedBounds
  <2>2. RoundedDiv(m, entry) \in Nat
    BY <1>3, <1>5, RoundedBounds
  <2>3. QED
    BY <2>1, <2>2, MinOfTwo
<1>8. q = roundDownToStep(raw) /\ q \in Nat \ {0}
  BY <1>6, <1>7, Finalized
<1> HIDE DEF q
<1>9. /\ 2 * (d * (Precision * q)) <= 2 * n + d
      /\ 2 * (entry * (Precision * q)) <= 2 * m + entry
      /\ d * (q + 1) > x \/ entry * (q + 1) > y
  BY <1>3, <1>4, <1>5, <1>8, CutBounds
<1> DEFINE a == 10 * available
           e == 10 * entry
           w == multiplier * atr
<1>10. 200 * Precision * q * w <= 2 * Precision * PerTradePct * a + 100 * w
  <2>1. 2 * (d * (Precision * q)) = 200 * Precision * q * w
    BY <1>2, <1>8 DEF d
  <2>2. 2 * n + d = 2 * Precision * PerTradePct * a + 100 * w
    BY <1>1, <1>2 DEF n, d
  <2>3. QED
    BY <1>9, <2>1, <2>2
<1>11. 2 * Precision * q * e <= 2 * Precision * a * MaxLeverage + e
  <2>1. 10 * (2 * (entry * (Precision * q))) = 2 * Precision * q * e
    BY <1>2, <1>8
  <2>2. 10 * (2 * m + entry) = 2 * Precision * a * MaxLeverage + e
    BY <1>1, <1>2 DEF m, y
  <2>3. 2 * (entry * (Precision * q)) \in Int /\ 2 * m + entry \in Int
    BY <1>2, <1>3, <1>8
  <2>4. 10 * (2 * (entry * (Precision * q))) <= 10 * (2 * m + entry)
    BY <1>9, <2>3
  <2>5. QED
    BY <2>1, <2>2, <2>4
<1>12. \/ 100 * (q + 1) * w > PerTradePct * a
       \/ (q + 1) * e > a * MaxLeverage
  <2>1. d * (q + 1) = 100 * (q + 1) * w
    BY <1>2, <1>8 DEF d
  <2>2. x = PerTradePct * a
    BY <1>1, <1>2 DEF x
  <2>3. CASE d * (q + 1) > x
    BY <2>1, <2>2, <2>3
  <2>4. CASE entry * (q + 1) > y
    <3>1. 10 * (entry * (q + 1)) = (q + 1) * e
      BY <1>8
    <3>2. 10 * y = a * MaxLeverage
      BY <1>1, <1>2 DEF y
    <3>3. entry * (q + 1) \in Int
      BY <1>8
    <3>4. QED
      BY <1>3, <2>4, <3>1, <3>2, <3>3
  <2>5. QED
    BY <1>9, <2>3, <2>4
<1>13. q \in Nat \ {0} /\ KeepsLimits(q, a, e, w)
  BY <1>8, <1>10, <1>11, <1>12 DEF KeepsLimits
<1>14. QED
  BY <1>13 DEF q
-----------------------------------------------------------------------------
Apart(s, t) == s > t + DedupTTL \/ t > s + DedupTTL

NewsStep == {NoNews}
            \cup [pc : {"reserve"}, item : Items, start : Nat]
            \cup [pc : {"analyze"}, item : Items, start : Nat, reserved : Nat]

\* Whoever holds a reservation, as a row or in hand, holds it against the key
\* and against all others.
NewsInv ==
    /\ now \in Nat
    /\ keys \in [Items -> Int]
    /\ news \in [Pollers -> NewsStep]
    /\ \A e \in events : /\ e.item \in Items /\ e.reserved \in Nat /\ e.expires \in Nat
                         /\ keys[e.item] >= e.reserved + DedupTTL
    /\ \A p \in Pollers : news[p].pc = "analyze" =>
           /\ keys[news[p].item] >= news[p].reserved + DedupTTL
           /\ \A e \in events : e.item = news[p].item => Apart(news[p].reserved, e.reserved)
           /\ \A q \in Pollers : /\ q # p /\ news[q].pc = "analyze"
                                 /\ news[q].item = news[p].item
                                 => Apart(news[p].reserved, news[q].reserved)
    /\ OneRecordPerWindow

\* The account lacks the margin of the open position and nothing else.
BookInv ==
    /\ account.mode \in Mode /\ account.available \in Nat
    /\ position.open \in BOOLEAN
    /\ position.open => account.available + position.margin = StartingBalance
    /\ ~ position.open => account.available = StartingBalance
    /\ position.open =>
         /\ position.margin \in Nat
         /\ \E close \in Closes :
              200 * Precision * position.atRisk
                <= 2 * Precision * (PerTradePct + position.slip * MaxLeverage) * position.balance
                   + 100 * (StopPct + position.slip) * close

\* The signal of a run, made of a candle that was fresh then.
SignalOK ==
    /\ run.signal.symbol = Symbol
    /\ run.signal.side \in {"BUY", "SELL"}
    /\ run.signal.entry = 100 * run.close
    /\ run.signal.stop = Stop(run.close, run.signal.side)
    /\ run.signal.created \in Nat
    /\ run.signal.created - run.closed <= MaxMarketDataAge

\* What EvaluateRisk read and still holds.
ReadOK ==
    /\ run.start \in Nat
    /\ run.acct.available \in Nat /\ run.acct.available <= account.available

\* What the decision has settled.
DecidedOK ==
    /\ run.start - run.closed <= MaxMarketDataAge + Min({MaxMarketDataAge, MaxSignalAge})
    /\ ~ run.blocked
    /\ run.size \in Nat \ {0}
    /\ MaxOpenPositions = 1 => ~ position.open

\* What a stop-out of the filled order costs.
LossAtStop ==
    200 * Precision * (run.size * Abs(run.price - run.signal.stop))
      <= 2 * Precision * (PerTradePct + run.slip * MaxLeverage) * run.balance
         + 100 * (StopPct + run.slip) * run.close

RunInv ==
    /\ run.pc # "idle" => run.close \in Closes /\ run.closed \in Nat
    /\ run.pc \in {"risk", "positions", "decide", "execute", "book"} => SignalOK
    /\ run.pc \in {"positions", "decide", "execute"} => ReadOK
    /\ run.pc \in {"positions", "decide"} => (run.blocked => Blocking(run.start))
    /\ run.pc = "decide" => /\ run.positions \in Nat
                            /\ run.positions = 0 => ~ position.open
    /\ run.pc \in {"execute", "book"} => DecidedOK
    /\ run.pc = "execute" =>
         KeepsLimits(run.size, run.acct.available, run.signal.entry,
                     Abs(run.signal.entry - run.signal.stop))
    /\ run.pc = "book" =>
         /\ Margin \in Nat \ {0} /\ run.price \in Nat /\ run.slip \in Nat
         /\ LossAtStop

IInv == NewsInv /\ BookInv /\ RunInv /\ faults \in Nat
-----------------------------------------------------------------------------
\* What a poller can be at.
LEMMA NewsShape ==
    ASSUME news \in [Pollers -> NewsStep], NEW p \in Pollers
    PROVE  /\ news[p].pc \in {"reserve", "analyze"} => news[p].item \in Items /\ news[p].start \in Nat
           /\ news[p].pc = "analyze" => news[p].reserved \in Nat
<1>1. news[p] \in NewsStep
  OBVIOUS
<1>2. CASE news[p] = NoNews
  BY <1>2 DEF NoNews
<1>3. CASE news[p] \in [pc : {"reserve"}, item : Items, start : Nat]
  BY <1>3
<1>4. CASE news[p] \in [pc : {"analyze"}, item : Items, start : Nat, reserved : Nat]
  BY <1>4
<1>5. QED
  BY <1>1, <1>2, <1>3, <1>4 DEF NewsStep

\* A poller that only lets go, or has not reserved yet, changes nothing.
LEMMA LetsGo ==
    ASSUME NewsInv, NEW p \in Pollers, NEW step \in NewsStep, step.pc # "analyze",
           news' = [news EXCEPT ![p] = step], UNCHANGED <<now, keys, events>>
    PROVE  NewsInv'
<1>1. news' \in [Pollers -> NewsStep]
  BY DEF NewsInv
<1>2. \A q \in Pollers : news'[q].pc = "analyze" => q # p /\ news'[q] = news[q]
  BY DEF NewsInv
<1>3. OneRecordPerWindow'
  BY DEF NewsInv, OneRecordPerWindow
<1>4. \A q \in Pollers : news'[q].pc = "analyze" =>
           /\ keys'[news'[q].item] >= news'[q].reserved + DedupTTL
           /\ \A e \in events' : e.item = news'[q].item => Apart(news'[q].reserved, e.reserved)
           /\ \A o \in Pollers : /\ o # q /\ news'[o].pc = "analyze"
                                 /\ news'[o].item = news'[q].item
                                 => Apart(news'[q].reserved, news'[o].reserved)
  BY <1>2 DEF NewsInv
<1>5. QED
  BY <1>1, <1>3, <1>4 DEF NewsInv, Apart

\* A key that is reserved is later than all that was reserved before.
LEMMA ReserveKeeps ==
    ASSUME NewsInv, NEW p \in Pollers, Reserve(p), now' = now
    PROVE  NewsInv'
<1> DEFINE i == news[p].item
           step == [pc |-> "analyze", item |-> i, start |-> news[p].start, reserved |-> now]
<1>1. i \in Items /\ news[p].pc = "reserve" /\ news[p].start \in Nat /\ events' = events
  BY NewsShape DEF NewsInv, Reserve
<1>2. NoNews \in NewsStep /\ NoNews.pc # "analyze"
  BY DEF NewsStep, NoNews
<1>3. CASE ~ KeyFree(i)
  BY <1>1, <1>2, <1>3, LetsGo DEF Reserve, Handling
<1>4. CASE KeyFree(i)
  <2>1. keys[i] < now /\ keys' = [keys EXCEPT ![i] = now + DedupTTL] /\ DedupTTL \in Nat /\ now \in Nat
    BY <1>4, MarketEventsAssumption DEF Reserve, KeyFree, NewsInv
  <2>2. /\ keys' \in [Items -> Int] /\ keys'[i] = now + DedupTTL /\ keys[i] \in Int
        /\ \A j \in Items : j # i => keys'[j] = keys[j]
        /\ \A j \in Items : keys[j] \in Int /\ keys'[j] \in Int /\ keys'[j] >= keys[j]
    BY <1>1, <2>1 DEF NewsInv
  <2>3. step \in NewsStep
    BY <1>1, <2>1 DEF NewsStep
  <2>4. PICK new \in {NoNews, step} : news' = [news EXCEPT ![p] = new]
    BY <1>4 DEF Reserve, Handling
  <2>5. news' \in [Pollers -> NewsStep]
    BY <1>2, <2>3, <2>4 DEF NewsInv
  <2>6. /\ \A q \in Pollers : q # p => news'[q] = news[q]
        /\ news'[p].pc = "analyze" => news'[p] = step
    BY <1>2, <2>4 DEF NewsInv
  <2>7. \A e \in events' : /\ e.item \in Items /\ e.reserved \in Nat /\ e.expires \in Nat
                           /\ keys'[e.item] >= e.reserved + DedupTTL
    BY <1>1, <2>1, <2>2 DEF NewsInv
  <2>8. \A e \in events : e.item = i => Apart(now, e.reserved)
    BY <2>1, <2>2 DEF NewsInv, Apart
  <2>9. \A q \in Pollers : q # p /\ news[q].pc = "analyze" /\ news[q].item = i =>
            Apart(now, news[q].reserved) /\ Apart(news[q].reserved, now)
    <3> SUFFICES ASSUME NEW q \in Pollers, q # p, news[q].pc = "analyze", news[q].item = i
                 PROVE  now > news[q].reserved + DedupTTL
      BY DEF Apart
    <3>1. keys[i] >= news[q].reserved + DedupTTL /\ news[q].reserved \in Nat
      BY NewsShape DEF NewsInv
    <3>2. QED
      BY <2>1, <2>2, <3>1
  <2>10. ASSUME NEW q \in Pollers, news'[q].pc = "analyze"
         PROVE  /\ keys'[news'[q].item] >= news'[q].reserved + DedupTTL
                /\ \A e \in events' : e.item = news'[q].item => Apart(news'[q].reserved, e.reserved)
                /\ \A o \in Pollers : /\ o # q /\ news'[o].pc = "analyze"
                                      /\ news'[o].item = news'[q].item
                                      => Apart(news'[q].reserved, news'[o].reserved)
    <3>1. CASE q = p
      <4>1. news'[q] = step
        BY <2>6, <2>10, <3>1
      <4>2. news'[q].item = i /\ news'[q].reserved = now
        BY <4>1
      <4>3. \A o \in Pollers : o # q => news'[o] = news[o]
        BY <2>6, <3>1
      <4>4. QED
        BY <1>1, <2>1, <2>2, <2>8, <2>9, <3>1, <4>2, <4>3
    <3>2. CASE q # p
      <4>1. news'[q] = news[q] /\ news[q].pc = "analyze" /\ news[q].item \in Items /\ news[q].reserved \in Nat
        BY <2>6, <2>10, <3>2, NewsShape DEF NewsInv
      <4>2. keys'[news[q].item] >= news[q].reserved + DedupTTL
        BY <2>1, <2>2, <4>1 DEF NewsInv
      <4>3. \A o \in Pollers : /\ o # q /\ news'[o].pc = "analyze" /\ news'[o].item = news[q].item
                               => Apart(news[q].reserved, news'[o].reserved)
        <5> TAKE o \in Pollers
        <5>1. CASE o = p
          BY <2>6, <2>9, <3>2, <4>1, <5>1
        <5>2. CASE o # p
          BY <2>6, <4>1, <5>2 DEF NewsInv
        <5>3. QED
          BY <5>1, <5>2
      <4>4. QED
        BY <1>1, <4>1, <4>2, <4>3 DEF NewsInv
    <3>3. QED
      BY <3>1, <3>2
  <2>11. OneRecordPerWindow'
    BY <1>1 DEF NewsInv, OneRecordPerWindow
  <2>12. QED
    BY <2>1, <2>2, <2>5, <2>7, <2>10, <2>11 DEF NewsInv
<1>5. QED
  BY <1>3, <1>4

\* A record is as far from the others as its reservation was.
LEMMA AnalyzeKeeps ==
    ASSUME NewsInv, NEW p \in Pollers, NEW a \in Payloads, Analyze(p, a), now' = now
    PROVE  NewsInv'
<1> DEFINE row == [item |-> news[p].item, severity |-> a.severity, action |-> a.action,
                   assets |-> a.assets, expires |-> news[p].start + MaxNewsAge,
                   reserved |-> news[p].reserved]
<1>1. /\ news[p].pc = "analyze" /\ news' = [news EXCEPT ![p] = NoNews] /\ keys' = keys
      /\ events' = events \/ events' = events \cup {row}
  BY DEF Analyze, Handling
<1>2. /\ news[p].item \in Items /\ news[p].start \in Nat /\ news[p].reserved \in Nat
      /\ MaxNewsAge \in Nat
  BY <1>1, NewsShape, MarketEventsAssumption DEF NewsInv
<1>3. NoNews \in NewsStep /\ NoNews.pc # "analyze"
  BY DEF NewsStep, NoNews
<1>4. CASE events' = events
  BY <1>1, <1>3, <1>4, LetsGo
<1>5. CASE events' = events \cup {row}
  <2>1. /\ row.item = news[p].item /\ row.reserved = news[p].reserved
        /\ row.expires = news[p].start + MaxNewsAge
    OBVIOUS
  <2> HIDE DEF row
  <2>2. news' \in [Pollers -> NewsStep]
    BY <1>1, <1>3 DEF NewsInv
  <2>3. \A q \in Pollers : news'[q].pc = "analyze" => q # p /\ news'[q] = news[q]
    BY <1>1, <1>3 DEF NewsInv
  <2>4. \A e \in events' : /\ e.item \in Items /\ e.reserved \in Nat /\ e.expires \in Nat
                           /\ keys'[e.item] >= e.reserved + DedupTTL
    BY <1>1, <1>2, <1>5, <2>1 DEF NewsInv
  <2>5. \A e \in events : e.item = row.item => Apart(row.reserved, e.reserved)
    BY <1>1, <2>1 DEF NewsInv
  <2>6. OneRecordPerWindow'
    <3> SUFFICES ASSUME NEW e \in events', NEW f \in events', e.item = f.item, e # f
                 PROVE  Apart(e.reserved, f.reserved)
      BY DEF OneRecordPerWindow, Apart
    <3>1. CASE e \in events /\ f \in events
      BY <3>1 DEF NewsInv, OneRecordPerWindow, Apart
    <3>2. CASE e = row /\ f \in events
      BY <2>5, <3>2
    <3>3. CASE e \in events /\ f = row
      BY <2>5, <3>3 DEF Apart
    <3>4. QED
      BY <1>5, <3>1, <3>2, <3>3
  <2>7. ASSUME NEW q \in Pollers, news'[q].pc = "analyze"
        PROVE  /\ keys'[news'[q].item] >= news'[q].reserved + DedupTTL
               /\ \A e \in events' : e.item = news'[q].item => Apart(news'[q].reserved, e.reserved)
               /\ \A o \in Pollers : /\ o # q /\ news'[o].pc = "analyze"
                                     /\ news'[o].item = news'[q].item
                                     => Apart(news'[q].reserved, news'[o].reserved)
    <3>1. q # p /\ news'[q] = news[q] /\ news[q].pc = "analyze"
      BY <2>3, <2>7
    <3>2. \A e \in events' : e.item = news[q].item => Apart(news[q].reserved, e.reserved)
      BY <1>1, <1>5, <2>1, <3>1 DEF NewsInv
    <3>3. QED
      BY <1>1, <2>3, <3>1, <3>2 DEF NewsInv
  <2>8. QED
    BY <1>1, <2>2, <2>4, <2>6, <2>7 DEF NewsInv
<1>6. QED
  BY <1>1, <1>4, <1>5

\* All steps that are about news, the clock and restarts.
LEMMA NewsKeeps ==
    ASSUME NewsInv, [Next]_vars
    PROVE  NewsInv' /\ events \subseteq events'
<1>1. NoNews \in NewsStep /\ NoNews.pc # "analyze"
  BY DEF NewsStep, NoNews
<1>2. CASE News /\ now' = now
  <2>1. PICK p \in Pollers :
            \/ \E i \in Items : Deliver(p, i)
            \/ Reserve(p)
            \/ \E a \in Payloads : Analyze(p, a)
            \/ AnalyzeFails(p)
            \/ NewsError(p)
    BY <1>2 DEF News
  <2>2. ASSUME NEW i \in Items, Deliver(p, i)
        PROVE  NewsInv' /\ events \subseteq events'
    <3> DEFINE step == [pc |-> "reserve", item |-> i, start |-> now]
    <3>1. step \in NewsStep /\ step.pc # "analyze"
      BY DEF NewsStep, NewsInv
    <3>2. news' = [news EXCEPT ![p] = step] /\ UNCHANGED <<keys, events>>
      BY <2>2 DEF Deliver, Handling
    <3>3. QED
      BY <1>2, <3>1, <3>2, LetsGo
  <2>3. CASE Reserve(p)
    BY <1>2, <2>3, ReserveKeeps DEF Reserve
  <2>4. ASSUME NEW a \in Payloads, Analyze(p, a)
        PROVE  NewsInv' /\ events \subseteq events'
    BY <1>2, <2>4, AnalyzeKeeps DEF Analyze
  <2>5. CASE AnalyzeFails(p) \/ NewsError(p)
    BY <1>1, <1>2, <2>5, LetsGo DEF AnalyzeFails, NewsError, Handling
  <2>6. QED
    BY <2>1, <2>2, <2>3, <2>4, <2>5
<1>3. CASE UNCHANGED <<now, newsVars>>
  BY <1>3 DEF newsVars, NewsInv, OneRecordPerWindow
<1>4. CASE Restart
  <2>1. /\ UNCHANGED <<now, keys, events>> /\ news' = [p \in Pollers |-> NoNews]
    BY <1>4 DEF Restart
  <2>2. news' \in [Pollers -> NewsStep] /\ \A p \in Pollers : news'[p].pc # "analyze"
    BY <1>1, <2>1
  <2>3. QED
    BY <2>1, <2>2 DEF NewsInv, OneRecordPerWindow
<1>5. CASE Tick
  <2>1. now' = now + 1 /\ UNCHANGED <<keys, news, events>>
    BY <1>5 DEF Tick, newsVars
  <2>2. QED
    BY <2>1 DEF NewsInv, OneRecordPerWindow
<1>6. QED
  BY <1>2, <1>3, <1>4, <1>5 DEF Next, vars

\* The initial state.
LEMMA InitInv ==
    ASSUME Init
    PROVE  IInv
<1>1. NewsInv
  BY DEF Init, NewsInit, NewsInv, NewsStep, NoNews, OneRecordPerWindow
<1>2. BookInv
  BY PipelineAssumption DEF Init, BookInv, Closed, Mode
<1>3. RunInv
  BY DEF Init, RunInv, Idle
<1>4. faults \in Nat
  BY DEF Init
<1>5. QED
  BY <1>1, <1>2, <1>3, <1>4 DEF IInv
-----------------------------------------------------------------------------
\* An event on record stays on record.
LEMMA BlockingGrows ==
    ASSUME NEW t, events \subseteq events', Blocking(t)
    PROVE  Blocking(t)'
  BY DEF Blocking

\* What happens beside a run leaves it what it knows.
LEMMA RunStays ==
    ASSUME BookInv, RunInv, run' = run, events \subseteq events',
           account'.available \in Nat, account'.available >= account.available,
           position'.open => position.open
    PROVE  RunInv'
<1>1. run.pc \in {"risk", "positions", "decide", "execute", "book"} => SignalOK'
  BY DEF RunInv, SignalOK
<1>2. run.pc \in {"positions", "decide", "execute"} => ReadOK'
  BY DEF RunInv, ReadOK, BookInv
<1>3. run.pc \in {"positions", "decide"} => (run'.blocked => Blocking(run.start)')
  BY DEF RunInv, Blocking
<1>4. run.pc \in {"execute", "book"} => DecidedOK'
  BY DEF RunInv, DecidedOK
<1>5. Margin' = Margin /\ (LossAtStop => LossAtStop')
  BY DEF Margin, LossAtStop
<1>6. QED
  BY <1>1, <1>2, <1>3, <1>4, <1>5 DEF RunInv

\* The end of a run.
LEMMA RunEnds ==
    ASSUME run' = Idle
    PROVE  RunInv'
  BY DEF RunInv, Idle

\* A candle is read, and dated at its arrival.
LEMMA ReadCandleKeeps ==
    ASSUME NewsInv, NEW close \in Closes, ReadCandle(close)
    PROVE  RunInv'
<1>1. run' = [pc |-> "signal", close |-> close, closed |-> now] /\ now \in Nat
  BY DEF ReadCandle, NewsInv
<1>2. QED
  BY <1>1 DEF RunInv

\* A signal is made of a fresh candle only.
LEMMA EvaluateSignalKeeps ==
    ASSUME NewsInv, RunInv, EvaluateSignal
    PROVE  RunInv'
<1> DEFINE side == Side(run.close)
           signal == [symbol |-> Symbol, side |-> side, entry |-> 100 * run.close,
                      stop |-> Stop(run.close, side),
                      created |-> now, validUntil |-> now + MaxSignalAge]
<1>1. run.pc = "signal" /\ run.close \in Closes /\ run.closed \in Nat /\ now \in Nat
  BY DEF RunInv, NewsInv, EvaluateSignal
<1>2. \/ run' = Idle
      \/ /\ ~ AgeExceeds(run) /\ side # "NONE"
         /\ run' = [pc |-> "risk", close |-> run.close, closed |-> run.closed, signal |-> signal]
  BY DEF EvaluateSignal, Done
<1>3. CASE run' = Idle
  BY <1>3, RunEnds
<1>4. CASE ~ AgeExceeds(run) /\ side # "NONE"
           /\ run' = [pc |-> "risk", close |-> run.close, closed |-> run.closed, signal |-> signal]
  <2>1. side \in {"BUY", "SELL"}
    BY <1>4 DEF Side
  <2>2. now - run.closed <= MaxMarketDataAge
    BY <1>1, <1>4, RiskPolicyAssumption DEF AgeExceeds
  <2> HIDE DEF side
  <2>3. SignalOK'
    BY <1>1, <1>4, <2>1, <2>2 DEF SignalOK, Stop
  <2>4. QED
    BY <1>1, <1>4, <2>3 DEF RunInv
<1>5. QED
  BY <1>2, <1>3, <1>4

\* The account and the clock are read, while the events are as they are.
LEMMA LoadAccountKeeps ==
    ASSUME NewsInv, BookInv, RunInv, LoadAccount, UNCHANGED <<now, newsVars>>
    PROVE  RunInv'
<1>1. /\ run.pc = "risk" /\ account' = account /\ position' = position
      /\ run' = [pc |-> "positions", close |-> run.close, closed |-> run.closed,
                 signal |-> run.signal, start |-> now, acct |-> account,
                 blocked |-> Blocking(now)]
  BY DEF LoadAccount
<1>2. SignalOK'
  BY <1>1 DEF RunInv, SignalOK
<1>3. ReadOK'
  BY <1>1 DEF ReadOK, NewsInv, BookInv
<1>4. run'.blocked => Blocking(run.start)'
  <2>1. run'.blocked <=> Blocking(now)
    BY <1>1
  <2>2. run'.start = now /\ events' = events
    BY <1>1 DEF newsVars
  <2>3. QED
    BY <2>1, <2>2 DEF Blocking
<1>5. QED
  BY <1>1, <1>2, <1>3, <1>4 DEF RunInv

\* The open positions are counted.
LEMMA LoadPositionsKeeps ==
    ASSUME BookInv, RunInv, LoadPositions, UNCHANGED <<now, newsVars>>
    PROVE  RunInv'
<1>1. /\ run.pc = "positions" /\ account' = account /\ position' = position
      /\ run' = [pc |-> "decide", close |-> run.close, closed |-> run.closed,
                 signal |-> run.signal, start |-> run.start, acct |-> run.acct,
                 blocked |-> run.blocked, positions |-> IF position.open THEN 1 ELSE 0]
  BY DEF LoadPositions
<1>2. SignalOK'
  BY <1>1 DEF RunInv, SignalOK
<1>3. ReadOK'
  BY <1>1 DEF RunInv, ReadOK
<1>4. run'.blocked => Blocking(run.start)'
  <2>1. run'.blocked = run.blocked /\ run'.start = run.start /\ events' = events
    BY <1>1 DEF newsVars
  <2>2. run.blocked => Blocking(run.start)
    BY <1>1 DEF RunInv
  <2>3. QED
    BY <2>1, <2>2 DEF Blocking
<1>5. QED
  BY <1>1, <1>2, <1>3, <1>4 DEF RunInv

\* A policy that has no reason has none of these.
LEMMA NoReasons ==
    ASSUME NEW ctx, ReasonCodes(ctx) = {}
    PROVE  /\ MarketDataFresh(ctx) /\ SignalNotExpired(ctx)
           /\ NoCriticalEvent(ctx) /\ OpenPositionsBelowMax(ctx)
<1> DEFINE ok == Satisfied(ctx)
<1>1. {r \in DOMAIN ok : ~ ok[r]} = {}
  BY DEF ReasonCodes
<1>2. /\ "MARKET_DATA_STALE" \in DOMAIN ok /\ "SIGNAL_EXPIRED" \in DOMAIN ok
      /\ "CRITICAL_EVENT_ACTIVE" \in DOMAIN ok /\ "MAX_OPEN_POSITIONS_REACHED" \in DOMAIN ok
  BY DEF Satisfied
<1>3. /\ ok["MARKET_DATA_STALE"] = MarketDataFresh(ctx)
      /\ ok["SIGNAL_EXPIRED"] = SignalNotExpired(ctx)
      /\ ok["CRITICAL_EVENT_ACTIVE"] = NoCriticalEvent(ctx)
      /\ ok["MAX_OPEN_POSITIONS_REACHED"] = OpenPositionsBelowMax(ctx)
  BY DEF Satisfied
<1> HIDE DEF ok
<1>4. /\ ok["MARKET_DATA_STALE"] /\ ok["SIGNAL_EXPIRED"]
      /\ ok["CRITICAL_EVENT_ACTIVE"] /\ ok["MAX_OPEN_POSITIONS_REACHED"]
  BY <1>1, <1>2
<1>5. QED
  BY <1>3, <1>4

\* The distance from the entry to the stop.
LEMMA StopDistance ==
    ASSUME NEW close \in Closes, NEW side \in {"BUY", "SELL"}
    PROVE  /\ 100 * close \in Nat \ {0} /\ Stop(close, side) \in Int
           /\ Abs(100 * close - Stop(close, side)) = StopPct * close
           /\ Abs(100 * close - Stop(close, side)) \in Nat
<1>1. close \in Nat \ {0} /\ StopPct \in 1..99
  BY PipelineAssumption
<1>2. StopPct * close \in Nat /\ close * StopPct = StopPct * close
  BY <1>1, Product
<1>3. CASE side = "BUY"
  <2>1. Stop(close, side) = 100 * close - StopPct * close
    BY <1>1, <1>3 DEF Stop
  <2>2. QED
    BY <1>1, <1>2, <2>1 DEF Abs
<1>4. CASE side = "SELL"
  <2>1. Stop(close, side) = 100 * close + StopPct * close
    BY <1>1, <1>4 DEF Stop
  <2>2. QED
    BY <1>1, <1>2, <2>1 DEF Abs
<1>5. QED
  BY <1>3, <1>4

\* An approved decision: fresh, not blocked, sized within the risk.
LEMMA EvaluateRiskKeeps ==
    ASSUME NewsInv, BookInv, RunInv, NEW healthy \in BOOLEAN, EvaluateRisk(healthy),
           UNCHANGED <<now, newsVars>>
    PROVE  RunInv'
<1> DEFINE ctx == Context(healthy)
           allowed == AllowsNewEntries(run.acct.mode)
           decision == Decide(ctx, allowed)
<1>1. /\ run.pc = "decide" /\ account' = account /\ position' = position
      /\ \/ run' = Idle
         \/ /\ decision.allowed
            /\ run' = [pc |-> "execute", close |-> run.close, closed |-> run.closed,
                       signal |-> run.signal, start |-> run.start, acct |-> run.acct,
                       blocked |-> run.blocked, size |-> decision.size]
  BY DEF EvaluateRisk, Done
<1>2. CASE run' = Idle
  BY <1>2, RunEnds
<1>3. CASE /\ decision.allowed
           /\ run' = [pc |-> "execute", close |-> run.close, closed |-> run.closed,
                      signal |-> run.signal, start |-> run.start, acct |-> run.acct,
                      blocked |-> run.blocked, size |-> decision.size]
  <2> DEFINE size == FixedRiskSize(run.acct.available, run.signal.entry, run.signal.stop)
  <2>1. ReasonCodes(ctx) = {} /\ decision.size # Rejected
        /\ decision.size = FixedRiskSize(ctx.account.available, ctx.signal.entry, ctx.signal.stop)
    <3> HIDE DEF ctx
    <3>1. allowed
      BY <1>3 DEF Decide, NewDecision
    <3>2. ReasonCodes(ctx) = {}
      BY <1>3, <3>1 DEF Decide, NewDecision
    <3>3. QED
      BY <1>3, <3>1, <3>2 DEF Decide, NewDecision
  <2>2. /\ ctx.now = run.start /\ ctx.signal = run.signal /\ ctx.positions = run.positions
        /\ ctx.events = events /\ ctx.account.available = run.acct.available
    BY DEF Context
  <2>3. decision.size = size /\ size # Rejected
    BY <2>1, <2>2
  <2>4. /\ MarketDataFresh(ctx) /\ SignalNotExpired(ctx)
        /\ NoCriticalEvent(ctx) /\ OpenPositionsBelowMax(ctx)
    BY <2>1, NoReasons
  <2> HIDE DEF ctx, decision, allowed
  <2>5. /\ SignalOK /\ ReadOK /\ run.close \in Closes /\ run.closed \in Nat
        /\ run.blocked => Blocking(run.start)
        /\ run.positions \in Nat /\ (run.positions = 0 => ~ position.open)
    BY <1>1 DEF RunInv
  <2>6. run.start - run.closed <= MaxMarketDataAge + Min({MaxMarketDataAge, MaxSignalAge})
    <3>1. /\ run.start - run.signal.created <= MaxMarketDataAge
          /\ run.start - run.signal.created <= MaxSignalAge
      BY <2>2, <2>4 DEF MarketDataFresh, SignalNotExpired
    <3>2. MaxMarketDataAge \in Nat /\ MaxSignalAge \in Nat
      BY RiskPolicyAssumption
    <3>3. QED
      BY <2>5, <3>1, <3>2, MinOfTwo DEF SignalOK, ReadOK
  <2>7. ~ run.blocked
    <3> SUFFICES ASSUME Blocking(run.start)
                 PROVE  FALSE
      BY <2>5
    <3>1. PICK ev \in events :
            /\ ev.severity = "CRITICAL" \/ ev.action \in {"BLOCK_NEW_ENTRIES", "KILL_SWITCH"}
            /\ Symbol \in ev.assets
            /\ run.start <= ev.expires
      BY DEF Blocking
    <3>2. ev.expires \in Nat /\ run.start \in Nat
      BY <2>5 DEF NewsInv, ReadOK
    <3>3. ~ (run.start > ev.expires)
      BY <3>1, <3>2
    <3>4. IsCritical(ev) /\ AffectsSymbol(ev, ctx.signal.symbol) /\ ~ IsExpired(ev, ctx.now)
      BY <2>2, <2>5, <3>1, <3>3 DEF IsCritical, AffectsSymbol, IsExpired, SignalOK
    <3>5. QED
      BY <2>2, <2>4, <3>4 DEF NoCriticalEvent
  <2>8. MaxOpenPositions = 1 => ~ position.open
    <3>1. run.positions < MaxOpenPositions
      BY <2>2, <2>4 DEF OpenPositionsBelowMax
    <3>2. QED
      BY <2>5, <3>1
  <2>9. /\ size \in Nat \ {0}
        /\ KeepsLimits(size, run.acct.available, run.signal.entry,
                       Abs(run.signal.entry - run.signal.stop))
    <3> DEFINE distance == Abs(run.signal.entry - run.signal.stop)
    <3>1. run.signal.entry \in Nat \ {0} /\ distance \in Nat
      BY <2>5, StopDistance DEF SignalOK
    <3>2. size = SizeFor(run.acct.available, run.signal.entry, distance)
      BY DEF FixedRiskSize
    <3>3. run.acct.available \in Int
      BY <2>5 DEF ReadOK
    <3> HIDE DEF distance
    <3>4. size \in Nat \ {0} /\ KeepsLimits(size, run.acct.available, run.signal.entry, distance)
      BY <2>3, <3>1, <3>2, <3>3, SizeForKeepsLimits
    <3>5. QED
      BY <3>4 DEF distance
  <2> HIDE DEF size
  <2>10. /\ run'.pc = "execute" /\ run'.close = run.close /\ run'.closed = run.closed
         /\ run'.signal = run.signal /\ run'.start = run.start /\ run'.acct = run.acct
         /\ run'.blocked = run.blocked /\ run'.size = size
    BY <1>3, <2>3
  <2>11. SignalOK' /\ ReadOK'
    BY <1>1, <2>5, <2>10 DEF SignalOK, ReadOK
  <2>12. DecidedOK'
    BY <1>1, <2>6, <2>7, <2>8, <2>9, <2>10 DEF DecidedOK
  <2>13. QED
    BY <2>5, <2>9, <2>10, <2>11, <2>12 DEF RunInv
<1>4. QED
  BY <1>1, <1>2, <1>3

\* The distance from a worse fill to the stop: the slippage comes on top.
LEMMA FillDistance ==
    ASSUME NEW close \in Closes, NEW side \in {"BUY", "SELL"}, NEW pct \in 0..99
    PROVE  /\ FillPrice(close, side, pct) \in Nat \ {0}
           /\ Abs(FillPrice(close, side, pct) - Stop(close, side)) = (StopPct + pct) * close
<1>1. close \in Nat \ {0} /\ StopPct \in 1..99
  BY PipelineAssumption
<1>2. PICK k \in Nat \ {0} : FillPrice(close, side, pct) = close * k
  BY <1>1 DEF FillPrice
<1>3. FillPrice(close, side, pct) \in Nat \ {0}
  BY <1>1, <1>2, Product
<1>4. StopPct * close \in Nat /\ pct * close \in Nat
  BY <1>1, Product
<1>5. (StopPct + pct) * close = StopPct * close + pct * close
  BY <1>1
<1>6. CASE side = "BUY"
  <2>1. /\ FillPrice(close, side, pct) = 100 * close + pct * close
        /\ Stop(close, side) = 100 * close - StopPct * close
    BY <1>1, <1>6 DEF FillPrice, Stop
  <2>2. QED
    BY <1>1, <1>3, <1>4, <1>5, <2>1 DEF Abs
<1>7. CASE side = "SELL"
  <2>1. /\ FillPrice(close, side, pct) = 100 * close - pct * close
        /\ Stop(close, side) = 100 * close + StopPct * close
    BY <1>1, <1>7 DEF FillPrice, Stop
  <2>2. QED
    BY <1>1, <1>3, <1>4, <1>5, <2>1 DEF Abs
<1>8. QED
  BY <1>6, <1>7

\* Both limits of a size, added up: the first on the distance to the stop, the
\* second, the leverage, on the slippage.
LEMMA LossBound ==
    ASSUME NEW size \in Nat, NEW close \in Nat, NEW pct \in Nat, NEW stop \in Nat,
           NEW read \in Nat, NEW balance \in Nat, read <= balance,
           NEW prec \in Nat, NEW perTrade \in Nat, NEW leverage \in Nat,
           200 * prec * size * (stop * close) <= 2 * prec * perTrade * read + 100 * (stop * close),
           2 * prec * size * (100 * close) <= 2 * prec * read * leverage + 100 * close
    PROVE  200 * prec * (size * ((stop + pct) * close))
             <= 2 * prec * (perTrade + pct * leverage) * balance + 100 * (stop + pct) * close
<1> DEFINE k == 200 * prec * size * close
           w == 2 * prec * read
           v == 2 * prec * balance
           f == perTrade + pct * leverage
           x == stop * k
           y == pct * k
<1>1. /\ k \in Nat /\ w \in Nat /\ v \in Nat /\ f \in Nat
  <2>1. 200 * prec * size \in Nat /\ 2 * prec \in Nat /\ pct * leverage \in Nat
    BY Product
  <2>2. QED
    BY <2>1, Product
<1>2. w <= v
  <2>1. 2 * prec \in Nat
    OBVIOUS
  <2>2. QED
    BY <2>1, Grows
<1>3. x = 200 * prec * size * (stop * close) /\ 2 * prec * perTrade * read = perTrade * w
  OBVIOUS
<1>4. x <= perTrade * w + 100 * (stop * close)
  BY <1>3
<1>5. 2 * prec * size * (100 * close) = k /\ 2 * prec * read * leverage = leverage * w
  OBVIOUS
<1>6. k <= leverage * w + 100 * close
  BY <1>5
<1>7. 200 * prec * (size * ((stop + pct) * close)) = x + y
  OBVIOUS
<1> HIDE DEF k, w, v
<1>8. leverage * w + 100 * close \in Int
  BY <1>1, Product
<1>9. y <= pct * (leverage * w + 100 * close)
  BY <1>1, <1>6, <1>8, Grows
<1>10. pct * (leverage * w + 100 * close) = (pct * leverage) * w + 100 * (pct * close)
  BY <1>1
<1>11. f * w = perTrade * w + (pct * leverage) * w
  BY <1>1
<1>12. /\ perTrade * w \in Nat /\ (pct * leverage) * w \in Nat /\ x \in Nat /\ y \in Nat
       /\ stop * close \in Nat /\ pct * close \in Nat
  <2>1. pct * leverage \in Nat
    BY Product
  <2>2. QED
    BY <1>1, <2>1, Product
<1> HIDE DEF x, y, f
<1>13. x + y <= f * w + (100 * (stop * close) + 100 * (pct * close))
  BY <1>4, <1>9, <1>10, <1>11, <1>12
<1>14. f * w <= f * v
  BY <1>1, <1>2, Grows
<1>15. 100 * (stop * close) + 100 * (pct * close) = 100 * (stop + pct) * close
  OBVIOUS
<1>16. f * v = 2 * prec * f * balance
  BY <1>1 DEF v
<1>17. f * w \in Nat /\ f * v \in Nat /\ 100 * (stop + pct) * close \in Nat
  <2>1. 100 * (stop + pct) \in Nat
    OBVIOUS
  <2>2. QED
    BY <1>1, <2>1, Product
<1>18. x + y <= f * v + 100 * (stop + pct) * close
  BY <1>12, <1>13, <1>14, <1>15, <1>17
<1>19. QED
  BY <1>7, <1>16, <1>18 DEF f

\* The order is filled: on the balance that is read now, which is no less.
LEMMA PlaceKeeps ==
    ASSUME BookInv, RunInv, NEW pct \in Slippages, Place(pct)
    PROVE  RunInv'
<1> DEFINE price == FillPrice(run.close, run.signal.side, pct)
           filled == [pc |-> "book", close |-> run.close, closed |-> run.closed,
                      signal |-> run.signal, start |-> run.start, blocked |-> run.blocked,
                      size |-> run.size, balance |-> account.available, slip |-> pct,
                      price |-> price]
<1>1. /\ run.pc = "execute" /\ account' = account /\ position' = position
      /\ run' = Idle \/ run' = filled
  BY DEF Place, Done
<1>2. CASE run' = Idle
  BY <1>2, RunEnds
<1>3. CASE run' = filled
  <2>1. /\ SignalOK /\ ReadOK /\ DecidedOK /\ run.close \in Closes /\ run.closed \in Nat
        /\ KeepsLimits(run.size, run.acct.available, run.signal.entry,
                       Abs(run.signal.entry - run.signal.stop))
    BY <1>1 DEF RunInv
  <2>2. run.close \in Nat \ {0} /\ pct \in 0..99 /\ pct \in Nat
    <3>1. run.close \in Closes
      BY <2>1
    <3> HIDE DEF price, filled
    <3>2. run.close \in Nat \ {0}
      BY <3>1, PipelineAssumption
    <3>3. pct \in 0..99
      BY PipelineAssumption
    <3>4. QED
      BY <3>2, <3>3
  <2>3. /\ price \in Nat \ {0}
        /\ Abs(price - run.signal.stop) = (StopPct + pct) * run.close
    <3>1. run.signal.side \in {"BUY", "SELL"} /\ run.signal.stop = Stop(run.close, run.signal.side)
      BY <2>1 DEF SignalOK
    <3>2. run.close \in Closes
      BY <2>1
    <3> HIDE DEF filled
    <3>3. /\ FillPrice(run.close, run.signal.side, pct) \in Nat \ {0}
          /\ Abs(FillPrice(run.close, run.signal.side, pct) - Stop(run.close, run.signal.side))
               = (StopPct + pct) * run.close
      BY <2>2, <3>1, <3>2, FillDistance
    <3>4. QED
      BY <3>1, <3>3
  <2>4. run.size \in Nat \ {0}
    BY <2>1 DEF DecidedOK
  <2> HIDE DEF price
  <2>5. run.size * price \in Nat \ {0}
    BY <2>3, <2>4, Product
  <2>6. /\ Abs(run.signal.entry - run.signal.stop) = StopPct * run.close
        /\ run.signal.entry = 100 * run.close
    BY <2>1, StopDistance DEF SignalOK
  <2>7. /\ 200 * Precision * run.size * (StopPct * run.close)
             <= 2 * Precision * PerTradePct * run.acct.available + 100 * (StopPct * run.close)
        /\ 2 * Precision * run.size * (100 * run.close)
             <= 2 * Precision * run.acct.available * MaxLeverage + 100 * run.close
    BY <2>1, <2>6 DEF KeepsLimits
  <2>8. /\ Precision \in Nat /\ PerTradePct \in Nat /\ MaxLeverage \in Nat
        /\ account.available \in Nat
        /\ run.acct.available \in Nat /\ run.acct.available <= account.available
        /\ StopPct \in Nat
    BY <2>1, SizingAssumption, PipelineAssumption DEF ReadOK, BookInv
  <2>9. 200 * Precision * (run.size * ((StopPct + pct) * run.close))
          <= 2 * Precision * (PerTradePct + pct * MaxLeverage) * account.available
             + 100 * (StopPct + pct) * run.close
    BY <2>2, <2>4, <2>7, <2>8, LossBound
  <2>10. /\ run'.pc = "book" /\ run'.close = run.close /\ run'.closed = run.closed
         /\ run'.signal = run.signal /\ run'.start = run.start /\ run'.blocked = run.blocked
         /\ run'.size = run.size /\ run'.balance = account.available
         /\ run'.slip = pct /\ run'.price = price
    BY <1>3
  <2>11. LossAtStop'
    BY <2>3, <2>9, <2>10 DEF LossAtStop
  <2>12. Margin' \in Nat \ {0} /\ run'.price \in Nat /\ run'.slip \in Nat
    BY <2>2, <2>3, <2>5, <2>10 DEF Margin
  <2> HIDE DEF filled
  <2>13. SignalOK' /\ DecidedOK'
    BY <1>1, <2>1, <2>10 DEF SignalOK, DecidedOK
  <2>14. QED
    BY <2>1, <2>10, <2>11, <2>12, <2>13 DEF RunInv
<1>4. QED
  BY <1>1, <1>2, <1>3

\* Booking takes the margin off an account that nobody else has touched.
LEMMA BookKeeps ==
    ASSUME BookInv, RunInv, Book
    PROVE  BookInv' /\ RunInv'
<1>1. /\ run.pc = "book" /\ Margin <= account.available /\ ~ position.open
      /\ position' = Opened /\ run' = Idle
      /\ account' = [mode |-> account.mode, available |-> account.available - Margin]
  BY DEF Book, Books, Done
<1>2. /\ Margin \in Nat /\ run.close \in Closes /\ account.available = StartingBalance
      /\ LossAtStop
  BY <1>1 DEF RunInv, BookInv
<1>3. /\ position'.open = TRUE /\ position'.margin = Margin /\ position'.balance = run.balance
      /\ position'.atRisk = run.size * Abs(run.price - run.signal.stop)
      /\ position'.slip = run.slip
      /\ account'.mode = account.mode /\ account'.available = account.available - Margin
  BY <1>1 DEF Opened
<1>4. account.available \in Nat /\ account.mode \in Mode
  BY DEF BookInv
<1>5. BookInv'
  <2>1. \E close \in Closes :
          200 * Precision * position'.atRisk
            <= 2 * Precision * (PerTradePct + position'.slip * MaxLeverage) * position'.balance
               + 100 * (StopPct + position'.slip) * close
    BY <1>2, <1>3 DEF LossAtStop
  <2>2. account'.available \in Nat /\ account'.available + position'.margin = StartingBalance
    BY <1>1, <1>2, <1>3, <1>4
  <2>3. QED
    BY <1>2, <1>3, <1>4, <2>1, <2>2 DEF BookInv
<1>6. QED
  BY <1>1, <1>5, RunEnds

\* An account and a position that no step touches.
LEMMA BookStays ==
    ASSUME BookInv, account' = account, position' = position
    PROVE  BookInv'
  BY DEF BookInv

\* Operators and resets: what is available never shrinks.
LEMMA OperatorKeeps ==
    ASSUME BookInv, RunInv, events \subseteq events', Reset \/ \E target \in Targets : ChangeMode(target)
    PROVE  BookInv' /\ RunInv'
<1>1. StartingBalance \in Nat /\ Targets \subseteq Mode
  BY PipelineAssumption
<1>2. account.available \in Nat /\ account.available <= StartingBalance
  BY <1>1 DEF BookInv
<1>3. CASE Reset
  <2>1. /\ account'.mode = "PAPER" /\ account'.available = StartingBalance
        /\ position' = Closed /\ run' = run
    BY <1>3 DEF Reset
  <2>2. BookInv'
    BY <1>1, <2>1 DEF BookInv, Closed, Mode
  <2>3. RunInv'
    BY <1>1, <1>2, <2>1, RunStays DEF Closed
  <2>4. QED
    BY <2>2, <2>3
<1>4. ASSUME NEW target \in Targets, ChangeMode(target)
      PROVE  BookInv' /\ RunInv'
  <2>1. /\ account'.mode = target /\ account'.available = account.available
        /\ position' = position /\ run' = run
    BY <1>4 DEF ChangeMode
  <2>2. BookInv'
    BY <1>1, <2>1 DEF BookInv
  <2>3. RunInv'
    BY <1>2, <2>1, RunStays
  <2>4. QED
    BY <2>2, <2>3
<1>5. QED
  BY <1>3, <1>4

\* The invariant is inductive.
LEMMA NextKeeps ==
    ASSUME IInv, [Next]_vars
    PROVE  IInv'
<1>1. NewsInv' /\ events \subseteq events'
  BY NewsKeeps DEF IInv
<1>2. faults' \in Nat
  BY DEF IInv, Next, Pipeline, vars, pipeline, ReadCandle, EvaluateSignal, LoadAccount,
         LoadPositions, EvaluateRisk, Place, Refuse, Book, Orphan, RunError, ChangeMode,
         Reset, Restart, Tick
<1>3. BookInv' /\ RunInv'
  <2>1. NewsInv /\ BookInv /\ RunInv
    BY DEF IInv
  <2>2. ASSUME UNCHANGED pipeline
        PROVE  BookInv' /\ RunInv'
    <3>1. account' = account /\ position' = position /\ run' = run
      BY <2>2 DEF pipeline
    <3>2. account.available \in Nat /\ account.available >= account.available
      BY <2>1 DEF BookInv
    <3>3. QED
      BY <1>1, <2>1, <3>1, <3>2, BookStays, RunStays
  <2>3. ASSUME run' = Idle, account' = account, position' = position
        PROVE  BookInv' /\ RunInv'
    BY <2>1, <2>3, BookStays, RunEnds
  <2>4. ASSUME Pipeline, UNCHANGED <<now, newsVars>>
        PROVE  BookInv' /\ RunInv'
    <3>1. ASSUME NEW close \in Closes, ReadCandle(close)
          PROVE  BookInv' /\ RunInv'
      BY <2>1, <3>1, BookStays, ReadCandleKeeps DEF ReadCandle
    <3>2. CASE EvaluateSignal
      BY <2>1, <3>2, BookStays, EvaluateSignalKeeps DEF EvaluateSignal
    <3>3. CASE LoadAccount
      BY <2>1, <2>4, <3>3, BookStays, LoadAccountKeeps DEF LoadAccount
    <3>4. CASE LoadPositions
      BY <2>1, <2>4, <3>4, BookStays, LoadPositionsKeeps DEF LoadPositions
    <3>5. ASSUME NEW healthy \in BOOLEAN, EvaluateRisk(healthy)
          PROVE  BookInv' /\ RunInv'
      <4>1. account' = account /\ position' = position
        BY <3>5 DEF EvaluateRisk
      <4>2. BookInv'
        BY <2>1, <4>1, BookStays
      <4>3. RunInv'
        BY <2>1, <2>4, <3>5, EvaluateRiskKeeps
      <4>4. QED
        BY <4>2, <4>3
    <3>6. ASSUME NEW pct \in Slippages, Place(pct)
          PROVE  BookInv' /\ RunInv'
      BY <2>1, <3>6, BookStays, PlaceKeeps DEF Place
    <3>7. CASE Refuse \/ Orphan \/ RunError
      BY <2>3, <3>7 DEF Refuse, Orphan, RunError, Done
    <3>8. CASE Book
      BY <2>1, <3>8, BookKeeps
    <3>9. CASE Reset \/ \E target \in Targets : ChangeMode(target)
      BY <1>1, <2>1, <3>9, OperatorKeeps
    <3>10. QED
      BY <2>4, <3>1, <3>2, <3>3, <3>4, <3>5, <3>6, <3>7, <3>8, <3>9 DEF Pipeline
  <2>5. CASE Restart
    BY <2>3, <2>5 DEF Restart
  <2>6. QED
    BY <2>2, <2>4, <2>5 DEF Next, Tick, vars
<1>4. QED
  BY <1>1, <1>2, <1>3 DEF IInv

\* All of it, always.
LEMMA Invariant == Spec => []IInv
<1>1. Init => IInv
  BY InitInv
<1>2. IInv /\ [Next]_vars => IInv'
  BY NextKeeps
<1>3. QED
  BY <1>1, <1>2, PTL DEF Spec
-----------------------------------------------------------------------------
\* ReserveIdempotencyKey and ProcessMarketEvent, for any number of pollers and
\* items: two records of one item are further apart than the key lives.
THEOREM RecordsKeepApart == Spec => []OneRecordPerWindow
<1>1. IInv => OneRecordPerWindow
  BY DEF IInv, NewsInv
<1>2. QED
  BY <1>1, Invariant, PTL

\* EvaluateMarketSignal and EvaluateRisk, for any pair of limits: the candle
\* of an order is not older than the two checks together allow.
THEOREM OrdersAreFresh == Spec => []FreshEnough
<1>1. IInv => FreshEnough
  BY DEF IInv, RunInv, DecidedOK, FreshEnough
<1>2. QED
  BY <1>1, Invariant, PTL

\* EvaluateRisk and NoCriticalEventSpecification, for any set of news: an event
\* on record when the evaluation began blocks it.
THEOREM CriticalEventsBlock == Spec => []CriticalEventHonoured
<1>1. IInv => CriticalEventHonoured
  BY DEF IInv, RunInv, DecidedOK, CriticalEventHonoured
<1>2. QED
  BY <1>1, Invariant, PTL

\* FixedRiskPositionSizing and ATRPositionSizing as the run uses them, and on
\* the balances beside it.
THEOREM SizesKeepLimits == Spec => []SizedWithinRisk
<1>1. SizersKeepLimits
  <2> SUFFICES ASSUME NEW available \in {StartingBalance - k * 777 : k \in 0..40},
                      NEW close \in Closes, NEW side \in {"BUY", "SELL"}, NEW atr \in {300, 1111}
               PROVE  LET entry  == 100 * close
                          stop   == Stop(close, side)
                          fixed  == FixedRiskSize(available, entry, stop)
                          ranged == ATRSize(available, entry, stop, atr)
                      IN  /\ fixed # Rejected =>
                               KeepsLimits(fixed, available, entry, Abs(entry - stop))
                          /\ ranged # Rejected =>
                               KeepsLimits(ranged, 10 * available, 10 * entry, multiplier * atr)
    BY DEF SizersKeepLimits
  <2> DEFINE entry == 100 * close
             stop  == Stop(close, side)
  <2>1. available \in Int /\ atr \in Nat \ {0}
    BY PipelineAssumption
  <2>2. entry \in Nat \ {0} /\ stop \in Int /\ Abs(entry - stop) \in Nat
    BY StopDistance
  <2> HIDE DEF entry, stop
  <2>3. FixedRiskSize(available, entry, stop) # Rejected =>
            KeepsLimits(FixedRiskSize(available, entry, stop), available, entry, Abs(entry - stop))
    BY <2>1, <2>2, SizeForKeepsLimits DEF FixedRiskSize
  <2>4. ATRSize(available, entry, stop, atr) # Rejected =>
            KeepsLimits(ATRSize(available, entry, stop, atr), 10 * available, 10 * entry,
                        multiplier * atr)
    BY <2>1, <2>2, ATRSizeKeepsLimits
  <2>5. QED
    BY <2>3, <2>4 DEF entry, stop
<1>2. IInv => SizedWithinRisk
  BY <1>1 DEF IInv, RunInv, SizedWithinRisk
<1>3. QED
  BY <1>2, Invariant, PTL

\* ExecuteApprovedOrder, whatever resets and mode changes came in between: the
\* stop-out of a position opened at its fill price costs the risk per trade of
\* the balance it was booked on, and its slippage times the leverage.
THEOREM StopLossStaysBounded == Spec => []StopLossBounded
<1>1. IInv => StopLossBounded
  BY DEF IInv, BookInv, StopLossBounded
<1>2. QED
  BY <1>1, Invariant, PTL

\* ExecuteApprovedOrder's fill transaction, where risk.max_open_positions is
\* one: only a saved account or a margin too large orphans a fill.
THEOREM OrphansHaveACause == MaxOpenPositions = 1 /\ Spec => OrphanHasCause
<1> DEFINE Cause == run.pc = "book" /\ run' = Idle /\ account' = account /\ faults' = faults
                      => stale \/ Margin > account.available
<1>1. ASSUME MaxOpenPositions = 1, IInv, [Next]_vars
      PROVE  [Cause]_vars
  <2> SUFFICES ASSUME run.pc = "book", run' = Idle, account' = account, faults' = faults
               PROVE  stale \/ Margin > account.available
    OBVIOUS
  <2>1. /\ Margin \in Nat \ {0} /\ account.available \in Nat /\ faults \in Nat
        /\ ~ position.open
    BY <1>1 DEF IInv, RunInv, DecidedOK, BookInv
  <2>2. run # Idle
    BY DEF Idle
  <2>3. CASE Orphan
    BY <2>1, <2>3 DEF Orphan, Books
  <2>4. CASE Book
    <3>1. account'.available = account.available - Margin
      BY <2>4 DEF Book
    <3>2. QED
      BY <2>1, <3>1
  <2>5. CASE RunError \/ Restart
    BY <2>1, <2>5 DEF RunError, Restart
  <2>6. CASE UNCHANGED run
    BY <2>2, <2>6
  <2>7. CASE \/ \E close \in Closes : ReadCandle(close)
             \/ EvaluateSignal \/ LoadAccount \/ LoadPositions \/ Refuse
             \/ \E healthy \in BOOLEAN : EvaluateRisk(healthy)
             \/ \E pct \in Slippages : Place(pct)
    BY <2>2, <2>7 DEF ReadCandle, EvaluateSignal, LoadAccount, LoadPositions, Refuse,
                      EvaluateRisk, Place
  <2>8. CASE Reset \/ \E target \in Targets : ChangeMode(target)
    BY <2>6, <2>8 DEF Reset, ChangeMode
  <2>9. QED
    BY <1>1, <2>3, <2>4, <2>5, <2>6, <2>7, <2>8 DEF Next, Pipeline, Tick, vars, pipeline
<1>2. CASE MaxOpenPositions = 1
  <2>1. IInv /\ [Next]_vars => [Cause]_vars
    BY <1>1, <1>2
  <2>2. QED
    BY <2>1, Invariant, PTL DEF Spec, OrphanHasCause
<1>3. QED
  BY <1>2
-----------------------------------------------------------------------------
(* Types, on top of the invariant. *)

\* A handler starts before it reserves, and reserves before the clock's now.
NewsTypes ==
    /\ now <= MaxTime
    /\ \A p \in Pollers :
        /\ news[p].pc = "reserve" => news[p].start <= now
        /\ news[p].pc = "analyze" => news[p].start <= news[p].reserved /\ news[p].reserved <= now
    /\ events \subseteq Event
    /\ alerts \subseteq Items
    /\ deliveries \in 0..MaxDeliveries

\* The pipeline's own variables, and the balance an order is booked on.
RunTypes ==
    /\ account \in [mode : Mode, available : Nat]
    /\ position \in [open : BOOLEAN, margin : Nat, atRisk : Nat, balance : Nat, slip : Nat]
    /\ last \in Closes \cup {0}
    /\ run.pc \in {"idle", "signal", "risk", "positions", "decide", "execute", "book"}
    /\ run.pc = "idle" => run = Idle
    /\ run.pc = "book" => run.balance \in Nat
    /\ stale \in BOOLEAN
    /\ candles \in 0..MaxCandles
    /\ faults \in 0..MaxFaults

\* ProcessMarketEvent keeps the types of the rows it writes, because an answer
\* with an unknown severity or action is refused.
LEMMA NewsTyped ==
    ASSUME NewsInv, NewsTypes, [Next]_vars
    PROVE  NewsTypes'
<1>1. /\ now \in Nat /\ MaxTime \in Nat /\ MaxDeliveries \in Nat /\ MaxNewsAge \in Nat
      /\ news \in [Pollers -> NewsStep]
  BY MarketEventsAssumption DEF NewsInv
<1>2. NoNews.pc # "reserve" /\ NoNews.pc # "analyze"
  BY DEF NoNews
<1>3. ASSUME NEW p \in Pollers, Handling(p, NoNews), now' = now
      PROVE  \A q \in Pollers :
                /\ news'[q].pc = "reserve" => news'[q].start <= now'
                /\ news'[q].pc = "analyze" =>
                     news'[q].start <= news'[q].reserved /\ news'[q].reserved <= now'
  BY <1>1, <1>2, <1>3 DEF Handling, NewsTypes
<1>4. ASSUME NEW p \in Pollers, NEW i \in Items, Deliver(p, i), now' = now
      PROVE  NewsTypes'
  <2>1. /\ news' = [news EXCEPT ![p] = [pc |-> "reserve", item |-> i, start |-> now]]
        /\ UNCHANGED <<events, alerts>> /\ deliveries' \in 0..MaxDeliveries
    BY <1>1, <1>4 DEF Deliver, Handling, NewsTypes
  <2>2. QED
    BY <1>1, <1>4, <2>1 DEF NewsTypes
<1>5. ASSUME NEW p \in Pollers, Reserve(p), now' = now
      PROVE  NewsTypes'
  <2>1. UNCHANGED <<events, alerts, deliveries>>
    BY <1>5 DEF Reserve
  <2>2. CASE Handling(p, NoNews)
    BY <1>1, <1>3, <1>5, <2>1, <2>2 DEF NewsTypes
  <2>3. CASE Handling(p, [pc |-> "analyze", item |-> news[p].item, start |-> news[p].start,
                          reserved |-> now])
    <3>1. news[p].start <= now
      BY <1>5 DEF Reserve, NewsTypes
    <3>2. QED
      BY <1>1, <1>5, <2>1, <2>3, <3>1 DEF Handling, NewsTypes
  <2>4. QED
    BY <1>5, <2>2, <2>3 DEF Reserve
<1>6. ASSUME NEW p \in Pollers, NEW a \in Payloads, Analyze(p, a), now' = now
      PROVE  NewsTypes'
  <2> DEFINE row == [item |-> news[p].item, severity |-> a.severity, action |-> a.action,
                     assets |-> a.assets, expires |-> news[p].start + MaxNewsAge,
                     reserved |-> news[p].reserved]
  <2>1. Handling(p, NoNews) /\ deliveries' = deliveries
    BY <1>6 DEF Analyze
  <2>2. news[p].item \in Items /\ news[p].start \in Nat /\ news[p].reserved \in Nat
    BY <1>1, <1>6, NewsShape DEF Analyze
  <2>3. \/ UNCHANGED <<events, alerts>>
        \/ /\ a.severity \in Severities /\ a.action \in Actions
           /\ events' = events \cup {row}
           /\ alerts' = alerts \/ alerts' = alerts \cup {news[p].item}
    BY <1>6 DEF Analyze, toEventAssessment
  <2>4. a.assets \in SUBSET UNION {b.assets : b \in Payloads}
    OBVIOUS
  <2>5. a.severity \in Severities /\ a.action \in Actions => row \in Event
    <3> DEFINE Known == SUBSET UNION {b.assets : b \in Payloads}
    <3>1. a.assets \in Known /\ news[p].start + MaxNewsAge \in Nat
      BY <1>1, <2>2, <2>4
    <3> HIDE DEF Known
    <3>2. QED
      BY <2>2, <3>1 DEF Event, Known
  <2> HIDE DEF row
  <2>6. events' \subseteq Event /\ alerts' \subseteq Items
    BY <2>2, <2>3, <2>5 DEF NewsTypes
  <2>7. QED
    BY <1>1, <1>3, <1>6, <2>1, <2>6 DEF NewsTypes
<1>7. ASSUME NEW p \in Pollers, AnalyzeFails(p) \/ NewsError(p), now' = now
      PROVE  NewsTypes'
  BY <1>1, <1>3, <1>7 DEF AnalyzeFails, NewsError, NewsTypes
<1>8. CASE Restart
  BY <1>1, <1>2, <1>8 DEF Restart, NewsTypes
<1>9. CASE Tick
  <2>1. /\ now' = now + 1 /\ now < MaxTime /\ UNCHANGED <<news, events, alerts, deliveries>>
    BY <1>9 DEF Tick, newsVars
  <2>2. \A p \in Pollers :
            /\ news[p].pc = "reserve" => news[p].start \in Nat
            /\ news[p].pc = "analyze" => news[p].reserved \in Nat
    BY <1>1, NewsShape
  <2>3. QED
    BY <1>1, <2>1, <2>2 DEF NewsTypes
<1>10. CASE UNCHANGED <<now, newsVars>>
  BY <1>10 DEF newsVars, NewsTypes
<1>11. QED
  BY <1>4, <1>5, <1>6, <1>7, <1>8, <1>9, <1>10 DEF Next, News, vars

\* HandleCandle, operators and resets: the balance an order was booked on and
\* what its stop-out costs are never negative.
LEMMA RunTyped ==
    ASSUME IInv, RunTypes, [Next]_vars
    PROVE  RunTypes'
<1>1. /\ MaxCandles \in Nat /\ MaxFaults \in Nat /\ StartingBalance \in Nat
      /\ Targets \subseteq Mode
  BY PipelineAssumption
<1>2. RunInv /\ BookInv
  BY DEF IInv
<1>3. Idle.pc = "idle"
  BY DEF Idle
<1>4. run.pc # "idle" => run.close \in Closes
  BY <1>2 DEF RunInv
<1>5. account.mode \in Mode /\ account.available \in Nat
  BY DEF RunTypes
<1>6. Closed \in [open : BOOLEAN, margin : Nat, atRisk : Nat, balance : Nat, slip : Nat]
  BY DEF Closed
\* A run that goes on, and one that ends.
<1>7. ASSUME run'.pc \in {"signal", "risk", "positions", "decide", "execute"},
             UNCHANGED <<account, position, last, stale>>,
             candles' \in 0..MaxCandles, faults' \in 0..MaxFaults
      PROVE  RunTypes'
  BY <1>7 DEF RunTypes
<1>8. ASSUME run.pc # "idle", Done, stale' \in BOOLEAN, candles' = candles, faults' \in 0..MaxFaults,
             UNCHANGED <<account, position>>
      PROVE  RunTypes'
  BY <1>3, <1>4, <1>8 DEF Done, RunTypes
<1>9. ASSUME NEW close \in Closes, ReadCandle(close)
      PROVE  RunTypes'
  BY <1>1, <1>7, <1>9 DEF ReadCandle, RunTypes
<1>10. CASE EvaluateSignal
  BY <1>7, <1>8, <1>10 DEF EvaluateSignal, RunTypes
<1>11. CASE LoadAccount \/ LoadPositions
  BY <1>7, <1>11 DEF LoadAccount, LoadPositions, RunTypes
<1>12. ASSUME NEW healthy \in BOOLEAN, EvaluateRisk(healthy)
       PROVE  RunTypes'
  <2>1. /\ run.pc = "decide" /\ UNCHANGED <<account, position, stale, candles>>
        /\ Done \/ (run'.pc = "execute" /\ last' = last)
        /\ faults' \in 0..MaxFaults
    BY <1>1, <1>12 DEF EvaluateRisk, RunTypes
  <2>2. stale \in BOOLEAN /\ candles \in 0..MaxCandles
    BY DEF RunTypes
  <2>3. QED
    BY <1>7, <1>8, <2>1, <2>2
<1>13. ASSUME NEW pct \in Slippages, Place(pct)
       PROVE  RunTypes'
  <2>1. /\ run.pc = "execute" /\ UNCHANGED <<account, position, stale, candles, faults>>
        /\ \/ Done
           \/ run'.pc = "book" /\ run'.balance = account.available /\ last' = last
    BY <1>13 DEF Place
  <2>2. stale \in BOOLEAN /\ faults \in 0..MaxFaults
    BY DEF RunTypes
  <2>3. CASE Done
    BY <1>8, <2>1, <2>2, <2>3
  <2>4. CASE run'.pc = "book" /\ run'.balance = account.available /\ last' = last
    BY <1>5, <2>1, <2>4 DEF RunTypes
  <2>5. QED
    BY <2>1, <2>3, <2>4
<1>14. CASE Refuse \/ Orphan \/ RunError
  <2>1. run.pc # "idle" /\ Done /\ UNCHANGED <<account, position, candles>>
    BY <1>14 DEF Refuse, Orphan, RunError, RunTypes
  <2>2. faults' = faults \/ (faults < MaxFaults /\ faults' = faults + 1)
    BY <1>14 DEF Refuse, Orphan, RunError
  <2>3. faults' \in 0..MaxFaults
    BY <1>1, <2>2 DEF RunTypes
  <2>4. stale' = FALSE \/ UNCHANGED stale
    BY <1>14, Zenon DEF Refuse, Orphan, RunError
  <2>5. stale' \in BOOLEAN
    BY <2>4 DEF RunTypes
  <2>6. QED
    BY <1>8, <2>1, <2>3, <2>5
<1>15. CASE Book
  <2>1. /\ run.pc = "book" /\ Margin <= account.available /\ position' = Opened
        /\ account' = [mode |-> account.mode, available |-> account.available - Margin]
        /\ Done /\ UNCHANGED <<stale, candles, faults>>
    BY <1>15 DEF Book, Books
  <2>2. /\ Margin \in Nat /\ run.size \in Nat /\ run.balance \in Nat
        /\ run.price \in Nat /\ run.slip \in Nat
        /\ SignalOK /\ run.close \in Closes
    BY <1>2, <2>1 DEF RunInv, DecidedOK, RunTypes
  <2>3. Abs(run.price - run.signal.stop) \in Nat
    <3>1. run.signal.stop \in Int
      BY <2>2, StopDistance DEF SignalOK
    <3>2. QED
      BY <2>2, <3>1 DEF Abs
  <2>4. run.size * Abs(run.price - run.signal.stop) \in Nat
    BY <2>2, <2>3, Product
  <2>5. Opened \in [open : BOOLEAN, margin : Nat, atRisk : Nat, balance : Nat, slip : Nat]
    BY <2>2, <2>4 DEF Opened
  <2>6. account' \in [mode : Mode, available : Nat]
    BY <1>5, <2>1, <2>2
  <2>7. QED
    BY <1>3, <2>1, <2>2, <2>5, <2>6 DEF Done, RunTypes
<1>16. ASSUME NEW target \in Targets, ChangeMode(target)
       PROVE  RunTypes'
  BY <1>1, <1>5, <1>16 DEF ChangeMode, AccountSaved, RunTypes
<1>17. CASE Reset
  BY <1>1, <1>6, <1>17 DEF Reset, AccountSaved, RunTypes, Mode
<1>18. CASE Restart
  <2>1. /\ faults < MaxFaults /\ faults' = faults + 1
        /\ last' = 0 /\ run' = Idle /\ stale' = FALSE
        /\ UNCHANGED <<account, position, candles>>
    BY <1>18 DEF Restart
  <2>2. faults' \in 0..MaxFaults
    BY <1>1, <2>1 DEF RunTypes
  <2>3. QED
    BY <1>3, <2>1, <2>2 DEF RunTypes
<1>19. CASE UNCHANGED pipeline
  BY <1>19 DEF pipeline, RunTypes
<1>20. QED
  BY <1>9, <1>10, <1>11, <1>12, <1>13, <1>14, <1>15, <1>16, <1>17, <1>18, <1>19
  DEF Next, Pipeline, Tick, vars

\* The pipeline, the pollers and the clock, for every feed, balance and number
\* of pollers: an event row is of a known severity and action, a handler's start,
\* its reservation and the clock are in order, and an order that is placed has
\* a size.
THEOREM TypeCorrect == Spec => []TypeOK
<1>1. Init => NewsTypes /\ RunTypes
  <2> SUFFICES ASSUME Init PROVE NewsTypes /\ RunTypes
    OBVIOUS
  <2>1. NewsTypes
    BY MarketEventsAssumption DEF Init, NewsInit, NewsTypes, NoNews
  <2>2. RunTypes
    <3>1. /\ account = [mode |-> "PAPER", available |-> StartingBalance] /\ position = Closed
          /\ last = 0 /\ run = Idle /\ stale = FALSE /\ candles = 0 /\ faults = 0
      BY DEF Init
    <3>2. account \in [mode : Mode, available : Nat]
      BY <3>1, PipelineAssumption DEF Mode
    <3>3. position \in [open : BOOLEAN, margin : Nat, atRisk : Nat, balance : Nat, slip : Nat]
      BY <3>1 DEF Closed
    <3>4. run = Idle /\ run.pc = "idle"
      BY <3>1 DEF Idle
    <3>5. candles \in 0..MaxCandles /\ faults \in 0..MaxFaults
      BY <3>1, PipelineAssumption
    <3>6. QED
      BY <3>1, <3>2, <3>3, <3>4, <3>5 DEF RunTypes
  <2>3. QED
    BY <2>1, <2>2
<1>2. IInv /\ NewsTypes /\ RunTypes /\ [Next]_vars => NewsTypes' /\ RunTypes'
  BY NewsTyped, RunTyped DEF IInv
<1>3. IInv /\ NewsTypes /\ RunTypes => TypeOK
  <2> SUFFICES ASSUME IInv, NewsTypes, RunTypes PROVE TypeOK
    OBVIOUS
  <2>1. /\ now \in 0..MaxTime /\ keys \in [Items -> Int] /\ news \in [Pollers -> NewsStep]
    BY MarketEventsAssumption DEF IInv, NewsInv, NewsTypes
  <2>2. ASSUME NEW p \in Pollers
        PROVE  \/ news[p] = NoNews
               \/ /\ news[p].pc = "reserve"
                  /\ news[p].item \in Items /\ news[p].start \in 0..now
               \/ /\ news[p].pc = "analyze"
                  /\ news[p].item \in Items /\ news[p].start \in 0..news[p].reserved
                  /\ news[p].reserved \in 0..now
    <3>1. news[p] = NoNews \/ news[p].pc \in {"reserve", "analyze"}
      BY <2>1 DEF NewsStep
    <3>2. /\ news[p].pc \in {"reserve", "analyze"} => news[p].item \in Items /\ news[p].start \in Nat
          /\ news[p].pc = "analyze" => news[p].reserved \in Nat
      BY <2>1, NewsShape
    <3>3. QED
      BY <2>1, <3>1, <3>2 DEF NewsTypes
  <2>3. NewsTypeOK
    BY <2>1, <2>2 DEF NewsTypes, NewsTypeOK
  <2>4. run.pc \in {"execute", "book"} => run.size \in Nat \ {0}
    BY DEF IInv, RunInv, DecidedOK
  <2>5. QED
    BY <2>3, <2>4 DEF RunTypes, TypeOK
<1>4. QED
  BY <1>1, <1>2, <1>3, Invariant, PTL DEF Spec
=============================================================================
