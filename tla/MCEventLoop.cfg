CONSTANTS
    c1 = c1
    c2 = c2
    c3 = c3
    Conns <- MCConns
    MAX_CLIENTS = 3
    BACKLOG = 1
    MaxChunks = 1
    Listener = Listener
    NoFd = NoFd
    NULL = NULL
SPECIFICATION FairSpec
INVARIANTS TypeOK TableCoherent RoundExact
PROPERTIES ImplementsRounds HangupNoticed ConnectAnswered
