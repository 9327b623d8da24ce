------------------------------- MODULE Sizing -------------------------------
(***************************************************************************)
(* FixedRiskPositionSizing and ATRPositionSizing, the two PositionSizers.  *)
(*                                                                         *)
(* A quantity is a number of step sizes, a price a number of hundredths of *)
(* a tick, and money is a quantity times a price.  A quotient is known to  *)
(* 1/Precision of a step: decimal.Div keeps sixteen digits of it.          *)
(***************************************************************************)
EXTENDS Decimals, FiniteSetsExt

CONSTANTS
    PerTradePct,   \* risk.per_trade_pct, in percent of the available balance
    MaxLeverage,   \* risk.max_leverage
    MinQuantity,   \* SymbolTradingRules, the same for every symbol
    MinNotional,
    Precision,     \* the last digit of a quotient, as a fraction of a step
    ATRMultiplier  \* ATRPositionSizing.Multiplier, in tenths; 0 where not set

ASSUME SizingAssumption ==
    /\ PerTradePct \in 0..100
    /\ MaxLeverage \in Nat \ {0}
    /\ MinQuantity \in Nat
    /\ MinNotional \in Nat
    /\ Precision \in Nat \ {0}
    /\ ATRMultiplier \in Nat

Rejected == 0

\* The leverage that the account allows at all, in 1/Precision of a step.
maxQuantityByLeverage(available, entry) ==
    RoundedDiv(available * MaxLeverage * Precision, entry)

capByLeverage(raw, available, entry) ==
    Min({raw, maxQuantityByLeverage(available, entry)})

roundUpToStep(raw) == (raw + Precision - 1) \div Precision

roundDownToStep(raw) == raw \div Precision

\* finalizeQuantity: a quantity the broker would not take is a rejection.
finalizeQuantity(raw, entry) ==
    LET quantity == roundDownToStep(raw)
    IN  IF quantity = 0 \/ quantity < MinQuantity \/ quantity * entry < MinNotional
        THEN Rejected
        ELSE quantity

\* Size, once the distance to the stop is settled.
SizeFor(available, entry, distance) ==
    IF available <= 0 \/ distance = 0 THEN Rejected
    ELSE finalizeQuantity(
           capByLeverage(RoundedDiv(PerTradePct * available * Precision, 100 * distance),
                         available, entry),
           entry)

\* FixedRiskPositionSizing.Size, the sizer that providePositionSizer builds.
FixedRiskSize(available, entry, stop) == SizeFor(available, entry, Abs(entry - stop))

\* The multiplier of the ATR is 1.5 where none is set.
multiplier == IF ATRMultiplier = 0 THEN 15 ELSE ATRMultiplier

\* ATRPositionSizing.Size; atr = 0 stands for no ATR.  The distance is exact to
\* a tenth of the price unit, so every amount is taken ten times as large.
ATRSize(available, entry, stop, atr) ==
    IF atr = 0 THEN FixedRiskSize(available, entry, stop)
    ELSE IF available <= 0 THEN Rejected
    ELSE finalizeQuantity(
           capByLeverage(RoundedDiv(PerTradePct * available * Precision * 10,
                                    100 * atr * multiplier),
                         available, entry),
           entry)
-----------------------------------------------------------------------------
(* What the sizers promise, said without dividing. *)

\* A full stop-out of q loses no more than the risk per trade, and q is worth
\* no more than the leverage allows, but for half of the last digit that a
\* division rounds away; and one step more would break one of the two limits.
KeepsLimits(q, available, entry, distance) ==
    /\ 200 * Precision * q * distance
         <= 2 * Precision * PerTradePct * available + 100 * distance
    /\ 2 * Precision * q * entry <= 2 * Precision * available * MaxLeverage + entry
    /\ \/ 100 * (q + 1) * distance > PerTradePct * available
       \/ (q + 1) * entry > available * MaxLeverage
=============================================================================
