SPECIFICATION RunningSpec
CONSTANTS
    None = None
    Agents = {1, 2}
    Ports = {1, 2, 3, 4}
    Versions = {1}
    Faults = {}
    MaxDeaths = 2
    MaxCrashes = 0
    MaxReboots = 0
    Verbs = {"delete", "stop"}
    MaxRequests = 4
    keepCrashedContainers = FALSE
    WatcherKeepsUp = FALSE
    HealthLoopOn = FALSE
    healthProbeFailThreshold = 2
    BaseVersion = 1
INVARIANTS
    GoneIsClean
    CrashedIsSwept
