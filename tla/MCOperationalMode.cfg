CONSTANTS
    Clients = {c1, c2, c3}
    HomeMode = "TESTNET"
    StartingBalance = 1
    MaxVersion = 4

SYMMETRY ClientSymmetry
SPECIFICATION Spec

INVARIANTS
    ModeMirror
    KillSwitchAudited
PROPERTY
    GateFollowsMatrix
