CONSTANTS
    i1 = i1
    p1 = p1
    p2 = p2
    Symbol = "BTCUSDT"
    Closes = {999, 1000}
    Momentum = 1
    StopPct = 10
    TargetPct = 20
    Slippages = {0, 12}
    StartingBalance = 2008000
    Targets = {"PAUSED", "PAPER"}
    PerTradePct = 9
    MaxLeverage = 1
    MinQuantity = 1
    MinNotional = 5
    Precision = 4
    ATRMultiplier = 0
    MaxDailyLossPct = 3
    MaxWeeklyLossPct = 6
    MaxDrawdown = 10
    MaxOpenPositions = 1
    MaxSignalAge = 2
    MaxMarketDataAge = 1
    MaxSlippagePct = 1
    Pollers = {p1, p2}
    Items = {i1}
    Published <- Dates
    Payloads <- Answers
    MaxNewsAge = 1
    DedupTTL = 1
    MaxTime = 3
    MaxDeliveries = 2
    MaxCandles = 3
    MaxFaults = 1

SPECIFICATION Spec

INVARIANTS
    TypeOK
    SizedWithinRisk
    StopLossBounded
    FreshEnough
    CriticalEventHonoured
    OneRecordPerWindow
PROPERTIES
    OrphanHasCause

SYMMETRY Symmetry

CHECK_DEADLOCK FALSE
