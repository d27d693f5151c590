CONSTANTS
    Workers = {w1, w2}
    Main = Main
    None = None
    MaxTasks = 1
    MaxSignals = 1
    Where = {"s_emplace", "s_count", "s_unlock", "s_notify"}
SPECIFICATION FairSpec
PROPERTIES
    ShutsDown
