CONSTANTS
    MaxAsks = 3
    MaxSize = 4
    Prefix = 1
    Room = 4
    None = None
    HeaderBytes = 2
    Base = 5
    Limit = 3
    Buffer = 3
SPECIFICATION FairSpec
INVARIANTS
    RightAnswers
PROPERTIES
    NobodyWaits
    ServerEnds
CHECK_DEADLOCK FALSE
