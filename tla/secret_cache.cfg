CONSTANTS
    g1 = g1
    g2 = g2
    g3 = g3
    Getters <- MCGetters
    TTL = 2
    MaxFetch = 1
    MaxVersion = 2
    Nobody = Nobody
SPECIFICATION FairSpec
INVARIANTS StaleBound InvalidationHolds FailsForAReason
PROPERTY GetsEnd
CHECK_DEADLOCK FALSE
