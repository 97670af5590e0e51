CONSTANTS
    c1 = c1
    c2 = c2
    Calls <- MCCalls
    Ops <- MCOps
    Lifetime = 10
    RefreshAt = 8
    MaxLatency = 1
    MaxRevocations = 1
    Nobody = Nobody
SPECIFICATION Spec
SYMMETRY Symmetry
INVARIANTS WritesOnce RefusedOnlyIfRevoked NoMintStampede PoolsHoldOneClient
CHECK_DEADLOCK FALSE
