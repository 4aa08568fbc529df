SPECIFICATION FairSpec
CONSTANTS
    Kinds = {"cancel", "new"}
    MaxRequests = 3
    MaxQueueSize = 2
    MaxBreaks = 1
INVARIANTS
    NoRequestStranded
    SentInOrder
PROPERTIES
    QueuedIsSent
CHECK_DEADLOCK FALSE
