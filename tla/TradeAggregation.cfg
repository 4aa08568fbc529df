SPECIFICATION Spec
CONSTANTS
    Rows <- MCRows
    MaxRows = 3
    ChunkSizes = {1, 2}
    FlushLines = 1
    IntervalSecs = {2}
INVARIANTS
    BarsOfLog
    IntervalsOfLog
    NothingLeftOut
CHECK_DEADLOCK FALSE
