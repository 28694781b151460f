SPECIFICATION FairSpec
CONSTANTS
    c1 = c1  c2 = c2  r1 = r1
    NoClient = NoClient
    Clients <- TwoClients
    Replicas <- OneReplica
    WriteLen = 2
    GetAckLen = 3
    Wanted = {1, 2}
    Timeouts = {0, 1}
    MaxTime = 1
    MaxWrites = 2
    MaxWaits = 2
    MaxJoins = 2
CHECK_DEADLOCK FALSE
INVARIANTS TypeOK AcksInOrder OffsetsAccounted WritesReachReplicas WaiterWaits
PROPERTY TimedWaitEnds
