SPECIFICATION RunningSpec
CONSTANTS
    None = None
    Agents = {1}
    Ports = {1, 2, 3}
    Versions = {1, 2}
    Faults = {"create", "pull"}
    MaxDeaths = 0
    MaxCrashes = 0
    MaxReboots = 0
    Verbs = {"update", "stop"}
    MaxRequests = 4
    keepCrashedContainers = FALSE
    WatcherKeepsUp = TRUE
    HealthLoopOn = FALSE
    healthProbeFailThreshold = 2
    BaseVersion = 1
INVARIANTS
    VersionShown
    RunningIsServed
