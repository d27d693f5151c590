CONSTANTS
    Workers = {w1, w2}
    Main = Main
    None = None
    MaxTasks = 3
    MaxSignals = 1
    Where = {"loop", "enter", "wait", "scan", "s_lock", "c_lock"}
SPECIFICATION FairSpec
INVARIANTS
    DrainSignalPending
PROPERTIES
    ShutsDown
