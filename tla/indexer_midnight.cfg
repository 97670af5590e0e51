CONSTANTS
    MaxEvents = 3
    MaxSize = 2
    MaxAttempts = 2
    Batch = 2
    MaxDay = 2
SPECIFICATION Spec
INVARIANT OneDocumentPerEvent
CHECK_DEADLOCK FALSE
