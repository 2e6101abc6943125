\* Two runs of a test case are started and stopped, by test case or by report, at any point of their life; the master may crash.
SPECIFICATION Spec
CONSTANTS
    c1 = c1
    c2 = c2
    n1 = n1
    n2 = n2
    north = north
    south = south
    any = any
    Case = {c1}
    NoCase = none
    InitCase = {}
    Region = {north, south}
    AnyRegion = any
    Node = {n1}
    NodeRegions <- OneNode
    RunParams <- NorthRun
    Caller = {u1}
    Dispatcher = {}
    Stopper = {k1}
    Scanner = {}
    FlakyNode = {}
    SnapshotReads = TRUE
    MaxReport = 2
    MaxQueue = 0
    MaxCrash = 1
INVARIANTS
    ProcessRecorded
    LeaseAttended
    RunningCaseBacked
    RunningReportAttended
CHECK_DEADLOCK FALSE
