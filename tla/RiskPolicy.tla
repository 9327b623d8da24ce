----------------------------- MODULE RiskPolicy -----------------------------
(***************************************************************************)
(* The twelve specifications of DefaultSpecifications, the composite       *)
(* policy that runs them all, and the decision made of its outcome.        *)
(*                                                                         *)
(* A context is the record EvaluateRisk assembles: the time it read first, *)
(* the account row, the number of open positions, the signal, the active   *)
(* events, and whether the broker answered.                                *)
(***************************************************************************)
EXTENDS Sizing, MarketEvent

CONSTANTS
    MaxDailyLossPct, MaxWeeklyLossPct, \* in percent of the balance
    MaxDrawdown,                       \* in percent
    MaxOpenPositions,
    MaxSignalAge, MaxMarketDataAge,
    MaxSlippagePct                     \* in percent of the entry price

ASSUME RiskPolicyAssumption ==
    /\ {MaxDailyLossPct, MaxWeeklyLossPct, MaxDrawdown} \subseteq 0..100
    /\ MaxSlippagePct \in Nat
    /\ {MaxOpenPositions, MaxSignalAge, MaxMarketDataAge} \subseteq Nat \ {0}
-----------------------------------------------------------------------------
(* The specifications, named for what satisfies them. *)

BrokerHealthy(ctx) == ctx.healthy

MarketDataOfAnyAge(ctx) == TRUE

\* MarketDataAge is the age of the signal, not of the candle it was made of.
MarketDataFresh(ctx) == ctx.now - ctx.signal.created <= MaxMarketDataAge

SignalNotExpired(ctx) ==
    /\ ctx.now <= ctx.signal.validUntil
    /\ ctx.now - ctx.signal.created <= MaxSignalAge

ValidStop(ctx) == ctx.signal.stop # ctx.signal.entry

NoCriticalEvent(ctx) ==
    ~ \E ev \in ctx.events :
        IsCritical(ev) /\ AffectsSymbol(ev, ctx.signal.symbol) /\ ~ IsExpired(ev, ctx.now)

DrawdownBelowMax(ctx) == ctx.account.drawdown < MaxDrawdown

\* MaxDailyLoss and MaxWeeklyLoss: a loss is a negative P&L.
LossBelow(pnl, pct, balance) == pnl >= 0 \/ 100 * (-pnl) < pct * balance

OneMoreOpenPosition(ctx) == ctx.positions <= MaxOpenPositions

OpenPositionsBelowMax(ctx) == ctx.positions < MaxOpenPositions

LeverageAllowed(ctx) == ctx.leverage <= MaxLeverage

SufficientBalance(ctx) == ctx.account.available > 0

\* SlippageBetween(entry, expected) is a fraction of the entry price.
SlippageAllowed(ctx) ==
    100 * Abs(ctx.expected - ctx.signal.entry) <= MaxSlippagePct * ctx.signal.entry

Satisfied(ctx) ==
    [BROKER_UNHEALTHY           |-> BrokerHealthy(ctx),
     MARKET_DATA_STALE          |-> MarketDataFresh(ctx),
     SIGNAL_EXPIRED             |-> SignalNotExpired(ctx),
     INVALID_STOP               |-> ValidStop(ctx),
     CRITICAL_EVENT_ACTIVE      |-> NoCriticalEvent(ctx),
     MAX_DRAWDOWN_REACHED       |-> DrawdownBelowMax(ctx),
     MAX_DAILY_LOSS_REACHED     |->
       LossBelow(ctx.account.dailyPnL, MaxDailyLossPct, ctx.account.balance),
     MAX_WEEKLY_LOSS_REACHED    |->
       LossBelow(ctx.account.weeklyPnL, MaxWeeklyLossPct, ctx.account.balance),
     MAX_OPEN_POSITIONS_REACHED |-> OpenPositionsBelowMax(ctx),
     MAX_LEVERAGE_EXCEEDED      |-> LeverageAllowed(ctx),
     INSUFFICIENT_BALANCE       |-> SufficientBalance(ctx),
     MAX_SLIPPAGE_EXCEEDED      |-> SlippageAllowed(ctx)]

\* CompositeRiskPolicy.Evaluate: every reason, not the first; none allows.
ReasonCodes(ctx) == LET ok == Satisfied(ctx) IN {r \in DOMAIN ok : ~ ok[r]}

\* NewDecision: a rejected size, of a sizer that was not even asked too, counts
\* as a lack of balance.
NewDecision(reasons, size) ==
    [allowed |-> reasons = {} /\ size # Rejected,
     size    |-> IF reasons = {} THEN size ELSE Rejected,
     reasons |-> reasons \cup (IF size = Rejected THEN {"INSUFFICIENT_BALANCE"} ELSE {})]

\* What EvaluateRisk decides: the mode first, then the policy, and the size
\* only where the policy allows.
Decide(ctx, entriesAllowed) ==
    LET reasons == IF entriesAllowed THEN ReasonCodes(ctx)
                   ELSE {"OPERATIONAL_MODE_BLOCKS_ENTRY"}
        size    == IF reasons # {} THEN Rejected
                   ELSE FixedRiskSize(ctx.account.available, ctx.signal.entry, ctx.signal.stop)
    IN  NewDecision(reasons, size)
=============================================================================
