SPECIFICATION Spec
CONSTANTS
    None = None
    Agents = {1}
    Ports = {1, 2, 3}
    Versions = {1}
    Faults = {"prepare", "create", "start", "health"}
    MaxDeaths = 1
    MaxCrashes = 1
    MaxReboots = 2
    Verbs = {"start", "stop", "delete"}
    MaxRequests = 2
    keepCrashedContainers = FALSE
    WatcherKeepsUp = TRUE
    HealthLoopOn = FALSE
    healthProbeFailThreshold = 2
    BaseVersion = 1
INVARIANTS
    RunningIsRouted
