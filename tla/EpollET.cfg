CONSTANTS
    Conns = {c1, c2}
    None = None
    ServerFd = 3
    MaxFd = 5
    MaxChunks = 2
    Workers = {w1, w2}
SPECIFICATION ETSpec
SYMMETRY Symmetry
INVARIANTS
    NoDataStranded
    NoHangUpStranded
PROPERTIES
    NobodyDropped
