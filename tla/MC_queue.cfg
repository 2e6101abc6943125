\* One API session queues, runs, debugs and cancels while the dispatcher starts queued runs on a node that comes and goes.
SPECIFICATION Spec
CONSTANTS
    c1 = c1
    c2 = c2
    n1 = n1
    n2 = n2
    north = north
    south = south
    any = any
    Case = {c1}
    NoCase = none
    InitCase = {}
    Region = {north, south}
    AnyRegion = any
    Node = {n1}
    NodeRegions <- OneNode
    RunParams <- NorthQueued
    Caller = {u1}
    Dispatcher = {d}
    Stopper = {}
    Scanner = {}
    FlakyNode = {n1}
    SnapshotReads = TRUE
    MaxReport = 2
    MaxQueue = 2
    MaxCrash = 0
INVARIANTS
    QueueAgreesWithReport
PROPERTIES
    QueueStartsOnce
    LeaseServiceOrSnapshot
CHECK_DEADLOCK FALSE
