SPECIFICATION Spec
CONSTANTS
    Kinds = {"cancel", "new"}
    MaxRequests = 3
    MaxQueueSize = 2
    MaxBreaks = 1
INVARIANT
    OneWriteAtATime
CHECK_DEADLOCK FALSE
