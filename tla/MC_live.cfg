\* A run that is stopped, timed out or cut off by a crash, at any point of its life.
SPECIFICATION FairSpec
CONSTANTS
    c1 = c1
    c2 = c2
    n1 = n1
    n2 = n2
    north = north
    south = south
    any = any
    Case = {c1}
    NoCase = none
    InitCase = {}
    Region = {north, south}
    AnyRegion = any
    Node = {n1}
    NodeRegions <- OneNode
    RunParams <- NorthRun
    Caller = {u1}
    Dispatcher = {}
    Stopper = {k1}
    Scanner = {t}
    FlakyNode = {}
    SnapshotReads = TRUE
    MaxReport = 1
    MaxQueue = 0
    MaxCrash = 1
PROPERTIES
    EveryReportEnds
CHECK_DEADLOCK FALSE
