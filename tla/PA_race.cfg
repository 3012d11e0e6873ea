SPECIFICATION Spec
CONSTANTS
    None = None
    Agents = {a1, a2}
    Ports = {1, 2, 3, 4}
    Releasing = {a1, a2}
INVARIANTS
    GotIsOwned
    HoldsTwo
PROPERTIES
    AllocationReturns
    PoolSpec
