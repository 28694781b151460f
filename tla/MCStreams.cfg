CONSTANTS
    r1 = r1
    r2 = r2
    k1 = k1
    Readers <- MCReaders
    Keys <- MCKeys
    ExplicitIds <- MCIds
    PartialMs <- MCPartialMs
    Timeouts <- MCTimeouts
    MaxTime = 2
    MaxLen = 3
    NULL = NULL
    Dollar = Dollar
    Minus = Minus
    Plus = Plus
SPECIFICATION FairSpec
INVARIANTS TypeOK OnlyPartialIdsGoBack ReaderMissesNothing XrangeSound
PROPERTY BlockedReadEnds
CHECK_DEADLOCK FALSE
