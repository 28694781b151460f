SPECIFICATION FairHandshake
CONSTANTS
    s1 = s1  s2 = s2  s3 = s3
    NULL = NULL
    Servers <- ThreeServers
    Graphs <- FourGraphs
    BufSize = 8
    MaxCmds = 2
    MaxStops = 1
CHECK_DEADLOCK FALSE
INVARIANTS HandshakeTypeOK OnlyCutsAreLost
PROPERTIES HandshakeEnds
