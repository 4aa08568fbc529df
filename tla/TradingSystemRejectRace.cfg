SPECIFICATION FairSysSpec
CONSTANTS
    DefaultQty = 1
    MaxTrades = 1
    HoldTicks = 1
    QueueSize = 2
    SignalSides = {"Buy"}
    MaxFaults = 2
    Faults = {"reject", "slow"}
PROPERTIES
    OpeningResolves
