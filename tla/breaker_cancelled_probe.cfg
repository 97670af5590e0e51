CONSTANTS
    t1 = t1
    t2 = t2
    t3 = t3
    Tasks <- MCTwoTasks
    Cancellable <- MCOneTask
    ErrorThreshold = 2
    OpenDuration = 3
    HalfOpenMaxCalls = 1
    CallTimeout = 2
SPECIFICATION FairSpec
PROPERTY Recloses
