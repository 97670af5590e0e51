CONSTANTS
    MaxEvents = 4
    MaxSize = 2
    MaxAttempts = 2
    Batch = 2
    MaxDay = 2
SPECIFICATION FairSpec
INVARIANTS DeliveredIsIndexed NoSilentLossWhileRunning
PROPERTIES EventuallySettled ImplementsChannel
CHECK_DEADLOCK FALSE
