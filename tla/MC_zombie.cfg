\* Expected violation: a run stopped before its process exists is spawned all the same.
SPECIFICATION Spec
CONSTANTS
    c1 = c1
    c2 = c2
    n1 = n1
    n2 = n2
    north = north
    south = south
    any = any
    Case = {c1}
    NoCase = none
    InitCase = {}
    Region = {north, south}
    AnyRegion = any
    Node = {n1}
    NodeRegions <- OneNode
    RunParams <- NorthRun
    Caller = {u1}
    Dispatcher = {}
    Stopper = {k1}
    Scanner = {}
    FlakyNode = {}
    SnapshotReads = TRUE
    MaxReport = 1
    MaxQueue = 0
    MaxCrash = 0
INVARIANTS
    StoppedIsDead
CHECK_DEADLOCK FALSE
