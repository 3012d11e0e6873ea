SPECIFICATION RunningLiveSpec
CONSTANTS
    None = None
    Agents = {1}
    Ports = {1, 2, 3}
    Versions = {1}
    Faults = {}
    MaxDeaths = 2
    MaxCrashes = 1
    MaxReboots = 1
    Verbs = {"start"}
    MaxRequests = 1
    keepCrashedContainers = FALSE
    WatcherKeepsUp = TRUE
    HealthLoopOn = TRUE
    healthProbeFailThreshold = 2
    BaseVersion = 1
PROPERTIES
    FalseAlarmEnds
    DeadIsNoticed
