CONSTANTS
    d1 = d1
    d2 = d2
    s1 = s1
    s2 = s2
    Decisions = {d1, d2}
    Symbols = {s1, s2}
    SymbolOf <- OneSymbol
    Notional <- Margins
    Executors = {e1, e2}
    Venue = "BINANCE"
    StartingBalance = 5
    Targets = {"PAUSED", "TESTNET", "KILL_SWITCH"}
    MaxVersion = 3

SYMMETRY ExecutorSymmetry
SPECIFICATION Spec

INVARIANT
    UnknownIsRecorded
