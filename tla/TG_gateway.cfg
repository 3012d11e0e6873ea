SPECIFICATION Spec
CONSTANTS
    None = None
    Chats = {c1, c2}
    Tenants = {a, b}
    Ttl = 1
    MaxTime = 1
    MaxTokens = 2
    MaxUpdates = 2
    MaxFaults = 1
    IsAws = FALSE
INVARIANTS
    NoUpdateSkipped
PROPERTIES
    LinkedByValidToken
    RelayIsLinked
    UpdateHandled
CHECK_DEADLOCK FALSE
