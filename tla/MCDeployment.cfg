CONSTANTS
    Steps <- MCSteps
    Runners = {r1, r2}
    ForceTo = {5}
    MaxCommands = 4
    Processes = {"api", "worker"}
    Environments <- MCEnvironments
    DownCount = 2
    Targets = {"PAUSED", "KILL_SWITCH"}
    MaxFaults = 1

SPECIFICATION FairSpec
CHECK_DEADLOCK FALSE

INVARIANTS
    TypeOK
    HistoryMatchesTables
    AppliedIsPrefix
    UpMeansComplete
    RunningIsBootstrapped

PROPERTIES
    ModeSurvivesRestarts
    BootstrapSucceeds
