CONSTANTS
    Conns = {c1, c2}
    None = None
    ServerFd = 3
    MaxFd = 5
    MaxChunks = 1
    MaxThreads = 2
SPECIFICATION FairSpec
INVARIANTS
    TypeOK
    Bookkeeping
    NeverBlocksOnOne
PROPERTIES
    NobodyDropped
    AllAnswered
    GoneAreClosed
    ShutsDown
CHECK_DEADLOCK FALSE
