\* Expected violation: two starts under InnoDB's default isolation lease one node twice.
SPECIFICATION Spec
CONSTANTS
    c1 = c1
    c2 = c2
    n1 = n1
    n2 = n2
    north = north
    south = south
    any = any
    Case = {c1, c2}
    NoCase = none
    InitCase = {}
    Region = {north, south}
    AnyRegion = any
    Node = {n1}
    NodeRegions <- OneNode
    RunParams <- NorthRun
    Caller = {u1, u2}
    Dispatcher = {}
    Stopper = {}
    Scanner = {}
    FlakyNode = {}
    SnapshotReads = TRUE
    MaxReport = 2
    MaxQueue = 0
    MaxCrash = 0
INVARIANTS
    LeaseExclusive
CHECK_DEADLOCK FALSE
