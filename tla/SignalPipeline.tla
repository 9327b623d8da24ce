--------------------------- MODULE SignalPipeline ---------------------------
(***************************************************************************)
(* HandleCandle: a closed candle becomes a signal, a risk decision, an     *)
(* order and a position, beside the news pollers, operators and resets.    *)
(*                                                                         *)
(* The feed calls the consumer and waits for it, so one candle is in the   *)
(* pipeline at a time and the next one is read when it is done.  A step    *)
(* ends where the code reads the clock, or rows that others write; every   *)
(* read of the clock is the code's own.  What the broker and the order     *)
(* rows add is in OrderExecution and Reconciliation: here the broker fills *)
(* an order, with some slippage, or refuses it.                            *)
(*                                                                         *)
(* A close is a whole number of ticks and the prices made of it are whole  *)
(* hundredths.  The daily and weekly P&L and the drawdown are zero: only   *)
(* bootstrap and the reset write them.                                     *)
(***************************************************************************)
EXTENDS Modes, RiskPolicy, MarketEvents

CONSTANTS
    Symbol,          \* defaultFeedSymbol
    Closes,          \* the closing prices the feed delivers
    Momentum,        \* momentumThreshold, in thousandths
    StopPct,         \* stopOffsetPct, in percent
    TargetPct,       \* targetOffsetPct, in percent
    Slippages,       \* by how many percent of the price a fill may be worse
    StartingBalance, \* the available balance of a fresh paper account
    Targets,         \* the modes that operators ask for
    MaxCandles,      \* bound: how many candles are read
    MaxFaults        \* bound: restarts and failed calls

ASSUME PipelineAssumption ==
    /\ Closes \subseteq Nat \ {0}
    /\ Momentum \in Nat
    /\ {StopPct, TargetPct} \subseteq 1..99
    /\ Slippages \subseteq 0..99
    /\ StartingBalance \in Nat
    /\ Targets \subseteq Mode
    /\ {MaxCandles, MaxFaults} \subseteq Nat

VARIABLES
    account,  \* the active account: [mode, available]
    position, \* the position on Symbol: Closed, or what a stop-out of it costs
    last,     \* the close of the newest of recentCandles; 0: none yet
    run,      \* the candle in the pipeline, and what is known of it so far
    stale,    \* the account row was saved since the execution read it
    candles,  \* history: candles read
    faults    \* history: faults so far

pipeline == <<account, position, last, run, stale, candles, faults>>
vars == <<now, newsVars, pipeline>>

Idle == [pc |-> "idle"]
\* No position, or one that Close reduced to nothing.
Closed == [open |-> FALSE, margin |-> 0, atRisk |-> 0, balance |-> 0, slip |-> 0]

TypeOK ==
    /\ NewsTypeOK
    /\ account \in [mode : Mode, available : Nat]
    /\ position \in [open : BOOLEAN, margin : Nat, atRisk : Nat, balance : Nat, slip : Nat]
    /\ last \in Closes \cup {0}
    /\ run.pc \in {"idle", "signal", "risk", "positions", "decide", "execute", "book"}
    /\ run.pc \in {"execute", "book"} => run.size \in Nat \ {0}
    /\ stale \in BOOLEAN
    /\ candles \in 0..MaxCandles
    /\ faults \in 0..MaxFaults

Init ==
    /\ NewsInit
    /\ account = [mode |-> "PAPER", available |-> StartingBalance]
    /\ position = Closed
    /\ last = 0 /\ run = Idle
    /\ stale = FALSE /\ candles = 0 /\ faults = 0

\* Saving the account makes the copy that an execution holds stale: its own
\* save finds another version and rolls back (ErrOptimisticLock).
AccountSaved == stale' = (run.pc = "book")
-----------------------------------------------------------------------------
(* The feed and EvaluateMarketSignal. *)

\* toCandle: the close time of a candle is the time its message is read.
ReadCandle(close) ==
    /\ run = Idle
    /\ candles < MaxCandles
    /\ candles' = candles + 1
    /\ run' = [pc |-> "signal", close |-> close, closed |-> now]
    /\ UNCHANGED <<account, position, last, stale, faults>>

AgeExceeds(candle) == now - candle.closed > MaxMarketDataAge

\* The momentum rule of the fake engine, on the last candle but this one.
Side(close) ==
    CASE last = 0 -> "NONE"
      [] last # 0 /\ 1000 * (close - last) >= Momentum * last -> "BUY"
      [] last # 0 /\ 1000 * (last - close) >= Momentum * last -> "SELL"
      [] OTHER -> "NONE"

\* buildSignal
Stop(close, side) == close * (IF side = "BUY" THEN 100 - StopPct ELSE 100 + StopPct)
Target(close, side) == close * (IF side = "BUY" THEN 100 + TargetPct ELSE 100 - TargetPct)

\* signal.New: the stop and the target on the right sides of the entry.
Coherent(entry, side, stop, target) ==
    IF side = "BUY" THEN stop < entry /\ entry < target
    ELSE target < entry /\ entry < stop

\* HandleCandle returned: the feed appends the candle to recentCandles.
Done == run' = Idle /\ last' = run.close

\* EvaluateMarketSignal.Execute: a stale candle, no momentum and a signal
\* that is not coherent all end the run.
EvaluateSignal ==
    /\ run.pc = "signal"
    /\ LET side   == Side(run.close)
           entry  == 100 * run.close
           stop   == Stop(run.close, side)
           signal == [symbol |-> Symbol, side |-> side, entry |-> entry, stop |-> stop,
                      created |-> now, validUntil |-> now + MaxSignalAge]
       IN  IF ~ AgeExceeds(run) /\ side # "NONE"
              /\ Coherent(entry, side, stop, Target(run.close, side))
           THEN /\ run' = [pc |-> "risk", close |-> run.close, closed |-> run.closed,
                           signal |-> signal]
                /\ UNCHANGED last
           ELSE Done
    /\ UNCHANGED <<account, position, stale, candles, faults>>
-----------------------------------------------------------------------------
(* EvaluateRisk *)

\* What the events on record at time t should do to entries, from their rows
\* alone: the reference that the policy is held against.
Blocking(t) ==
    \E ev \in events :
        /\ ev.severity = "CRITICAL" \/ ev.action \in {"BLOCK_NEW_ENTRIES", "KILL_SWITCH"}
        /\ Symbol \in ev.assets
        /\ t <= ev.expires

\* Execute reads the clock, the signal and the account.
LoadAccount ==
    /\ run.pc = "risk"
    /\ run' = [pc |-> "positions", close |-> run.close, closed |-> run.closed,
               signal |-> run.signal, start |-> now, acct |-> account,
               blocked |-> Blocking(now)]
    /\ UNCHANGED <<account, position, last, stale, candles, faults>>

\* ListOpen; no specification looks at the open orders that are read next.
LoadPositions ==
    /\ run.pc = "positions"
    /\ run' = [pc |-> "decide", close |-> run.close, closed |-> run.closed,
               signal |-> run.signal, start |-> run.start, acct |-> run.acct,
               blocked |-> run.blocked, positions |-> IF position.open THEN 1 ELSE 0]
    /\ UNCHANGED <<account, position, last, stale, candles, faults>>

\* The risk.Context: the expected fill price is the entry price itself, and
\* the requested leverage the maximum.
Context(healthy) ==
    [now |-> run.start, signal |-> run.signal, positions |-> run.positions,
     account |-> [available |-> run.acct.available, balance |-> StartingBalance,
                  dailyPnL |-> 0, weeklyPnL |-> 0, drawdown |-> 0],
     events |-> events, healthy |-> healthy, expected |-> 100 * run.close,
     leverage |-> MaxLeverage]

\* ListActive, the health check and the policy; the decision is saved.
EvaluateRisk(healthy) ==
    /\ run.pc = "decide"
    /\ LET decision == Decide(Context(healthy), AllowsNewEntries(run.acct.mode))
       IN  IF decision.allowed
           THEN /\ run' = [pc |-> "execute", close |-> run.close, closed |-> run.closed,
                           signal |-> run.signal, start |-> run.start, acct |-> run.acct,
                           blocked |-> run.blocked, size |-> decision.size]
                /\ UNCHANGED last
           ELSE Done
    /\ faults' = IF healthy THEN faults ELSE faults + 1
    /\ healthy \/ faults < MaxFaults
    /\ UNCHANGED <<account, position, stale, candles>>
-----------------------------------------------------------------------------
(* ExecuteApprovedOrder *)

\* The price of a fill that is pct percent worse than the close.
FillPrice(close, side, pct) == close * (IF side = "BUY" THEN 100 + pct ELSE 100 - pct)

\* The account is loaded and its mode checked, and the broker fills.
Place(pct) ==
    /\ run.pc = "execute"
    /\ IF AllowsNewEntries(account.mode)
       THEN /\ run' = [pc |-> "book", close |-> run.close, closed |-> run.closed,
                       signal |-> run.signal, start |-> run.start, blocked |-> run.blocked,
                       size |-> run.size, balance |-> account.available, slip |-> pct,
                       price |-> FillPrice(run.close, run.signal.side, pct)]
            /\ UNCHANGED last
       ELSE Done
    /\ UNCHANGED <<account, position, stale, candles, faults>>

\* The broker refuses the order: it is FAILED, and nothing else happens.
Refuse ==
    /\ run.pc = "execute"
    /\ Done
    /\ UNCHANGED <<account, position, stale, candles, faults>>

\* The notional value that ReserveMargin takes.
Margin == run.size * run.price

BooksUnguarded == ~ stale /\ ~ position.open

\* The fill transaction goes through where the account is still the one that
\* was loaded, its available balance covers the margin, and the symbol has no
\* open position (positions_open_symbol_idx).
Books == ~ stale /\ Margin <= account.available /\ ~ position.open

\* position.Open, at the average price of the fill and with the stop of the
\* signal: the size is never zero here, nor the side unknown.
Opened == [open |-> TRUE, margin |-> Margin,
           atRisk |-> run.size * Abs(run.price - run.signal.stop),
           balance |-> run.balance, slip |-> run.slip]

Book ==
    /\ run.pc = "book" /\ Books
    /\ position' = Opened
    /\ account' = [mode |-> account.mode, available |-> account.available - Margin]
    /\ Done
    /\ UNCHANGED <<stale, candles, faults>>

\* It rolls back: the broker holds a fill that the database does not know.
Orphan ==
    /\ run.pc = "book" /\ ~ Books
    /\ stale' = FALSE
    /\ Done
    /\ UNCHANGED <<account, position, candles, faults>>

\* A statement fails: HandleCandle logs it and returns.
RunError ==
    /\ run # Idle
    /\ faults < MaxFaults
    /\ faults' = faults + 1
    /\ stale' = FALSE
    /\ Done
    /\ UNCHANGED <<account, position, candles>>
-----------------------------------------------------------------------------
(* Operators, the clock and restarts. *)

ChangeMode(target) ==
    /\ target # account.mode /\ CanTransition(account.mode, target)
    /\ account' = [mode |-> target, available |-> account.available]
    /\ AccountSaved
    /\ UNCHANGED <<position, last, run, candles, faults>>

ResetKeepsMargin ==
    /\ account' = [mode |-> "PAPER", available |-> account.available]
    /\ position' = Closed
    /\ AccountSaved
    /\ UNCHANGED <<last, run, candles, faults>>

\* One transaction closes the position and refills the account.  One that
\* meets a newer account rolls back: the reads before it are left out here.
Reset ==
    /\ account' = [mode |-> "PAPER", available |-> StartingBalance]
    /\ position' = Closed
    /\ AccountSaved
    /\ UNCHANGED <<last, run, candles, faults>>

\* The process is gone with its candles, the run and the pollers;
\* the database stays.
Restart ==
    /\ faults < MaxFaults
    /\ faults' = faults + 1
    /\ last' = 0 /\ run' = Idle /\ stale' = FALSE
    /\ news' = [p \in Pollers |-> NoNews]
    /\ UNCHANGED <<now, keys, events, alerts, deliveries, account, position, candles>>

Tick ==
    /\ now < MaxTime
    /\ now' = now + 1
    /\ UNCHANGED <<newsVars, pipeline>>

News ==
    \E p \in Pollers :
        \/ \E i \in Items : Deliver(p, i)
        \/ Reserve(p)
        \/ \E a \in Payloads : Analyze(p, a)
        \/ AnalyzeFails(p)
        \/ NewsError(p)

Pipeline ==
    \/ \E close \in Closes : ReadCandle(close)
    \/ EvaluateSignal
    \/ LoadAccount
    \/ LoadPositions
    \/ \E healthy \in BOOLEAN : EvaluateRisk(healthy)
    \/ \E pct \in Slippages : Place(pct)
    \/ Refuse
    \/ Book
    \/ Orphan
    \/ RunError
    \/ \E target \in Targets : ChangeMode(target)
    \/ Reset

Next ==
    \/ News /\ UNCHANGED <<now, pipeline>>
    \/ Pipeline /\ UNCHANGED <<now, newsVars>>
    \/ Restart
    \/ Tick

Spec == Init /\ [][Next]_vars
-----------------------------------------------------------------------------
\* Both sizers, over a range of balances, the closes and a few ATRs.
SizersKeepLimits ==
    \A available \in {StartingBalance - k * 777 : k \in 0..40} :
        \A close \in Closes, side \in {"BUY", "SELL"}, atr \in {300, 1111} :
            LET entry  == 100 * close
                stop   == Stop(close, side)
                fixed  == FixedRiskSize(available, entry, stop)
                ranged == ATRSize(available, entry, stop, atr)
            IN  /\ fixed # Rejected => KeepsLimits(fixed, available, entry, Abs(entry - stop))
                /\ ranged # Rejected =>
                     KeepsLimits(ranged, 10 * available, 10 * entry, multiplier * atr)

\* A stop-out of the quantity that is decided stays within the risk per trade
\* of the balance it was sized on, the quantity within the leverage, and one
\* step more would not: not for the run's own signal, nor for any balance near
\* it and either sizer.  (position_sizing.go 40-124; "sizes the position so
\* that a full stop-out loses exactly RiskPerTrade", line 76.)
SizedWithinRisk ==
    run.pc = "execute" =>
        /\ KeepsLimits(run.size, run.acct.available, run.signal.entry,
                       Abs(run.signal.entry - run.signal.stop))
        /\ SizersKeepLimits

\* A position is sized on the signal's entry and on the account as EvaluateRisk
\* read it, and opened at the price of its fill on the account that
\* ExecuteApprovedOrder read later; resets and mode changes come in between.
\* What a stop-out costs, fees aside, is the risk per trade of the balance it
\* was booked on and, for every percent that the fill was worse than the entry,
\* MaxLeverage percent more; and its margin is what the account lacks.  The
\* code bounds no fill: MaxSlippage compares the entry with itself.
\* (execute_approved_order.go 225-231, evaluate_risk.go 118-131.)
StopLossBounded ==
    position.open =>
        /\ \E close \in Closes :
             200 * Precision * position.atRisk
               <= 2 * Precision * (PerTradePct + position.slip * MaxLeverage) * position.balance
                  + 100 * (StopPct + position.slip) * close
        /\ account.available + position.margin = StartingBalance

\* Two checks with two clocks bound the age of the candle an order is made
\* of: the candle's before the signal, the signal's before the decision.
\* Together they allow nearly twice MaxMarketDataAge, and never more.
FreshEnough ==
    run.pc \in {"execute", "book"} =>
        run.start - run.closed <= MaxMarketDataAge + Min({MaxMarketDataAge, MaxSignalAge})

\* A critical event that was on record, and not over, when the evaluation
\* began blocks the entry, however the rest of the evaluation interleaves.
CriticalEventHonoured == run.pc \in {"execute", "book"} => ~ run.blocked

\* A fill is orphaned only where the account row was saved while the order was
\* at the broker, or the margin is more than is available: never because the
\* symbol already has a position, as long as the policy allows only one.
OrphanHasCause ==
    [][run.pc = "book" /\ run' = Idle /\ account' = account /\ faults' = faults
         => stale \/ Margin > account.available]_vars
=============================================================================
