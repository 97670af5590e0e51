CONSTANTS
    t1 = t1
    t2 = t2
    t3 = t3
    Tasks <- MCTasks
    Cancellable <- MCOneTask
    ErrorThreshold = 2
    OpenDuration = 3
    HalfOpenMaxCalls = 2
    CallTimeout = 2
SPECIFICATION FairSpec
INVARIANTS TrippedAtThreshold ProbeBudget DecidedByProbe
PROPERTIES CoolingRestarts ReclosesIfNobodyCancels
