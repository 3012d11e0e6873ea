SPECIFICATION Spec
CONSTANTS
    None = None
    Tabs = {1}
    Slots = {1}
    MaxRequests = 1
    MaxFaults = 1
    MaxLag = 1
    Stages <- TwoStages
    Fragile = {"starting"}
INVARIANTS
    SubscriberHoldsRing
    NoFalseEnd
PROPERTIES
    ViewSettles
CHECK_DEADLOCK FALSE
