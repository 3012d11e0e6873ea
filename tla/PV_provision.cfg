SPECIFICATION Spec
CONSTANTS
    None = None
    Tenants = {1, 2}
    Procs = {1}
    Modes = {"alb", "public", "local"}
    Faults = {"accessPoint", "secret", "sg", "taskDef", "task", "healthy", "ip", "tg", "targetHealthy", "teardown", "undo", "sgRules", "update", "store", "kill"}
    Mortal = {"public", "local"}
    Addresses = {a1, a2}
    Forgiving = {"taskDef", "secret", "tg"}
    TgName <- Apart
    Priority <- Apart
    Budget = 5
INVARIANTS
    TypeOK
    NothingForgotten
    NothingPulledAway
    HostLeadsHome
PROPERTIES
    DataGoOnPurpose
CHECK_DEADLOCK FALSE
