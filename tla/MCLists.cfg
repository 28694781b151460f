CONSTANTS
    c1 = c1
    c2 = c2
    k1 = k1
    k2 = k2
    Clients <- MCClients
    Keys <- MCKeys
    Timeouts <- MCTimeouts
    MaxTime = 4
    MaxPush = 2
    MaxBatch = 2
    NULL = NULL
    NoClient = NoClient
SPECIFICATION FairSpec
INVARIANTS TypeOK Conservation WaitsAtValuesForAReason LrangeIsSlice
PROPERTIES NoOvertaking TimedWaitEnds
CHECK_DEADLOCK FALSE
