CONSTANTS
    c1 = c1
    c2 = c2
    k1 = k1
    k2 = k2
    b1 = b1
    Clients <- MCClients
    Keys <- MCKeys
    Buckets <- MCBuckets
    hash <- MChash
    MaxQueue = 1
    MaxWatch = 3
    MaxChanges = 2
    NULL = NULL
SYMMETRY MCSymmetry
SPECIFICATION Spec
INVARIANTS TypeOK NoMissedConflict
CHECK_DEADLOCK FALSE
