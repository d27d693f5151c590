CONSTANTS
    Owner = Owner
    None = None
    Workers = {w1, w2}
    Submitters = {s1, s2}
    Drainers = {d1}
    Tasks = {t1, t2}
    LateSubmit = FALSE
SPECIFICATION FairSpec
INVARIANTS
    TypeOK
    CountExact
    WorkConserving
    NoSleeperAtJoin
    DrainSignalPending
    DestroyedDrained
PROPERTIES
    ReturnsDrained
    KeepsService
