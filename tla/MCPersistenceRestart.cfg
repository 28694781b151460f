SPECIFICATION Spec
CONSTANTS
    NULL = NULL
    Keys <- FiveKeys
    Buckets <- TwoBuckets
    hash <- Hash
    SeqSpan = 10
    Cmds <- ClientCmds
    Rdb <- RdbFile
    StartTime = 1
    MaxTime = 2
    MaxOps = 3
    MaxCrashes = 2
    MaxFollowed = 1
CHECK_DEADLOCK FALSE
INVARIANTS RestartRestores
