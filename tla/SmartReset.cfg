CONSTANTS
    Unique = {u1, u2}
    Shared = {s1, s2, s3}
    Objects = {o1, o2, o3}
    None = None
    ResetWhileShared = TRUE
SPECIFICATION Spec
INVARIANTS
    NoDangling
