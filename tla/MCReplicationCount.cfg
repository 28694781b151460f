SPECIFICATION Spec
CONSTANTS
    c1 = c1  c2 = c2  r1 = r1
    NoClient = NoClient
    Clients <- OneClient
    Replicas <- OneReplica
    WriteLen = 2
    GetAckLen = 3
    Wanted = {1}
    Timeouts = {0}
    MaxTime = 0
    MaxWrites = 4
    MaxWaits = 3
    MaxJoins = 1
CHECK_DEADLOCK FALSE
INVARIANT CountedAreCaughtUp
