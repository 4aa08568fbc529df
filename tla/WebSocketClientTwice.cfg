SPECIFICATION Spec
CONSTANTS
    MaxClients = 3
    MaxFaults = 1
INVARIANT
    DuplicatesIgnored
CHECK_DEADLOCK FALSE
