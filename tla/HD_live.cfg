SPECIFICATION LiveSpec
CONSTANTS
    None = None
    Agents = {1}
    Ports = {1, 2, 3}
    Versions = {1}
    Faults = {"prepare", "create", "start", "health", "route", "unroute", "remove", "pull"}
    MaxDeaths = 1
    MaxCrashes = 0
    MaxReboots = 0
    Verbs = {"start", "stop", "delete", "update"}
    MaxRequests = 2
    keepCrashedContainers = FALSE
    WatcherKeepsUp = FALSE
    HealthLoopOn = FALSE
    healthProbeFailThreshold = 2
    BaseVersion = 1
INVARIANTS
    TypeOK
PROPERTIES
    GoneStaysGone
    DeploySettles
    StopDrains
    DeleteDrains
    UpdateSettles
    TicksGoOn
