CONSTANTS
    MaxEvents = 5
    MaxSize = 2
    MaxAttempts = 3
SPECIFICATION FairSpec
INVARIANTS NoSilentLossWhileRunning DeliveredInOrder GracefulStopFlushes
PROPERTIES EventuallySettled JoinReturns ImplementsChannel
CHECK_DEADLOCK FALSE
