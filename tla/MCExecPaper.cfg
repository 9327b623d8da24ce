CONSTANTS
    d1 = d1
    d2 = d2
    s1 = s1
    s2 = s2
    Decisions = {d1, d2}
    Symbols = {s1, s2}
    SymbolOf <- OwnSymbol
    Notional <- Margins
    Executors = {e1, e2}
    Venue = "PAPER"
    StartingBalance = 4
    Targets = {"PAUSED", "PAPER"}
    MaxVersion = 3

SYMMETRY ExecutorSymmetry
SPECIFICATION Spec

INVARIANTS
    MarginMatchesPositions
    EventsMatchRows
PROPERTIES
    OrderHistoryLegal
    ImplementsEntryBook
