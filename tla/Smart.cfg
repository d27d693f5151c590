CONSTANTS
    Unique = {u1, u2}
    Shared = {s1, s2, s3}
    Objects = {o1, o2, o3}
    None = None
    ResetWhileShared = FALSE
SPECIFICATION Spec
INVARIANTS
    CountsOwners
    NoDangling
PROPERTIES
    KeepsOwnership
CHECK_DEADLOCK FALSE
