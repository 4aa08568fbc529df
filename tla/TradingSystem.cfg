SPECIFICATION FairSysSpec
CONSTANTS
    DefaultQty = 2
    MaxTrades = 2
    HoldTicks = 2
    QueueSize = 3
    SignalSides = {"Buy"}
    MaxFaults = 1
    Faults = {"refuse", "reject", "thinBook", "expire", "slow", "loseUpdates", "loseRequests"}
INVARIANTS
    FlatWithoutTrade
    ExposureCovered
    WaitDiscipline
    NothingAwaitedInVain
PROPERTIES
    NeverOverclosed
    OneTradeAtATime
    ClosingIsFinal
    OpeningResolves
    ClosingCompletes
    HeldUnlessRenewed
