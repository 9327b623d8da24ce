CONSTANTS
    d1 = d1
    d2 = d2
    d3 = d3
    s1 = s1
    Decisions = {d1, d2, d3}
    Symbols = {s1}
    SymbolOf <- OneSymbol
    SideOf <- Sides
    QuantityOf <- Quantities
    PriceOf <- Prices
    SlippagePct = 5
    FeePct = 2
    StartingBalance = 118000
    Processes = {"api", "worker"}
    Tolerance = 5
    Targets = {"PAUSED", "PAPER"}
    MaxOrders = 2
    MaxFaults = 1

SPECIFICATION FairSpec

INVARIANTS
    TypeOK
    BookMatchesFills
    OpenIsBacked
PROPERTIES
    AlarmHasCause
    DivergenceStopsEntries
