SPECIFICATION FairSpec
CONSTANTS
    Workers = {w1, w2, w3}
    StartWorkers = 3
    LazyWorkers = 2
    LowCap = 1
    Clients = {"demand"}
    Reads <- MCReads
    HighTasks = {"refine"}
    LowTasks = {"early1", "early2"}
    Yielding = {"early1"}
    MaxStops = 1
    NoJob = "none"
INVARIANTS
    LowShare
    NoMissedWakeup
    StopDrains
PROPERTIES
    JobsFinish
CHECK_DEADLOCK FALSE
