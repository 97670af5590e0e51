CONSTANTS
    t1 = t1
    t2 = t2
    s1 = s1
    s2 = s2
    Tasks <- MCTasks
    Cancellable <- MCCanceller
    Sessions <- MCSessions
    SessionOf <- MCSessionOf
    ErrorThreshold = 1
    OpenDuration = 2
    HalfOpenMaxCalls = 1
    CallTimeout = 1
    TenantCapacity = 2
    SessionCapacity = 1
    MaxAcquires = 3
    MaxOutages = 1
    MaxRefills = 1
    Replicas <- MCReplicas
    Skew <- InStep
    BucketCapacity = 2
    Cost = 3
    Rate = 2
    TTL = 6
    MaxClock = 12
SPECIFICATION LimiterOrBucket
INVARIANTS GrantedCallsAreCharged NoBucketChargedTwice FallbackBudget OneBudgetWhileHealthy WindowBound
PROPERTIES AcquireEnds ImplementsIdealBucket
