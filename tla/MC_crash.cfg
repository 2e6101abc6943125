\* Queued and direct starts, timeouts, and a crash of the master at any point, the recovery included.
SPECIFICATION FairSpec
CONSTANTS
    c1 = c1
    c2 = c2
    n1 = n1
    n2 = n2
    north = north
    south = south
    any = any
    Case = {c1}
    NoCase = none
    InitCase = {}
    Region = {north, south}
    AnyRegion = any
    Node = {n1}
    NodeRegions <- OneNode
    RunParams <- NorthQueued
    Caller = {u1}
    Dispatcher = {d}
    Stopper = {}
    Scanner = {t}
    FlakyNode = {n1}
    SnapshotReads = TRUE
    MaxReport = 1
    MaxQueue = 1
    MaxCrash = 1
PROPERTIES
    RecoveryClean
    PendingSurvives
    EveryLeaseEnds
CHECK_DEADLOCK FALSE
