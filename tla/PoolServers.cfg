CONSTANTS
    Conns = {c1, c2}
    None = None
    ServerFd = 3
    MaxFd = 5
    MaxChunks = 1
    Workers = {w1, w2}
SPECIFICATION FairSpec
INVARIANTS
    TypeOK
    Bookkeeping
    NeverBlocksOnOne
    NoSendAfterClose
PROPERTIES
    NobodyDropped
    AllAnswered
    GoneAreClosed
    ShutsDown
