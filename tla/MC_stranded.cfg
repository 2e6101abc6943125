\* Expected violation: a claimed queue row whose start is refused stays in status running.
SPECIFICATION Spec
CONSTANTS
    c1 = c1
    c2 = c2
    n1 = n1
    n2 = n2
    north = north
    south = south
    any = any
    Case = {c1}
    NoCase = none
    InitCase = {}
    Region = {north, south}
    AnyRegion = any
    Node = {n1, n2}
    NodeRegions <- TwoRegions
    RunParams <- QueuedRuns
    Caller = {u1}
    Dispatcher = {d}
    Stopper = {}
    Scanner = {}
    FlakyNode = {}
    SnapshotReads = TRUE
    MaxReport = 2
    MaxQueue = 2
    MaxCrash = 0
INVARIANTS
    RunningQueueAttended
CHECK_DEADLOCK FALSE
