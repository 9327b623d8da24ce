CONSTANTS
    c1 = c1
    c2 = c2
    b1 = b1
    b2 = b2
    Clients = {c1, c2}
    Broadcasters = {b1, b2}
    Buffer = 1
    MaxMessages = 2

SPECIFICATION FairSpec

INVARIANTS
    TypeOK
    NeverPanics
    InOrderOnce
    EveryoneIsTold
PROPERTIES
    BroadcastReturns
    DeadClientLeaves

CHECK_DEADLOCK FALSE
