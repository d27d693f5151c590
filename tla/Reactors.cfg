CONSTANTS
    Conns = {c1, c2}
    None = None
    ServerFd = 3
    MaxFd = 5
    MaxChunks = 1
    Workers = {w1}
    MainReactor = MainReactor
    SubReactors = 2
    IntValues = 4
    SizeValues = 8
    Listener = Listener
    Loops = {MainReactor, 0, 1}
SPECIFICATION FairSpec
INVARIANTS
    TypeOK
    Registered
    NoDanglingChannel
    Balanced
PROPERTIES
    AllAnswered
    GoneAreClosed
CHECK_DEADLOCK FALSE
