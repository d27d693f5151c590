CONSTANTS
    Conns = {c1, c2}
    None = None
    ServerFd = 3
    MaxFd = 5
    MaxChunks = 1
    Workers = {w1, w2}
SPECIFICATION Spec
INVARIANTS
    RightClient
