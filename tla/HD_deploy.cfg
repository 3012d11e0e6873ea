SPECIFICATION Spec
CONSTANTS
    None = None
    Agents = {1, 2}
    Ports = {1, 2, 3}
    Versions = {1}
    Faults = {"prepare", "create", "health", "route"}
    MaxDeaths = 0
    MaxCrashes = 0
    MaxReboots = 0
    Verbs = {"start", "stop"}
    MaxRequests = 4
    keepCrashedContainers = FALSE
    WatcherKeepsUp = TRUE
    HealthLoopOn = FALSE
    healthProbeFailThreshold = 2
    BaseVersion = 1
INVARIANTS
    NoStrayContainer
    PortsAccounted
    RunningIsServed
    FailedIsClean
    StoppedIsClean
    UpBoxHoldsPorts
    RouteLeadsHome
PROPERTIES
    PoolSpec
