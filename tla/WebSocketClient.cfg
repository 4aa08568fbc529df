SPECIFICATION FairSpec
CONSTANTS
    MaxClients = 3
    MaxFaults = 1
INVARIANTS
    NeverAbandoned
    OneStream
PROPERTY
    Recovers
CHECK_DEADLOCK FALSE
