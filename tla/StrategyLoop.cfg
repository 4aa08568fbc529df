SPECIFICATION FairSpec
CONSTANTS
    MaxUpdates = 2
    MaxSignals = 2
    MaxStarts = 1
INVARIANTS
    NoLostWakeup
    NothingLost
    ConfirmedBeforeTrading
    NewestSignalActedOn
PROPERTIES
    UpdatesApplied
    StopReturns
