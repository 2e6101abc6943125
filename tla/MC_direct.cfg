\* Two API sessions start runs of two test cases on two shared nodes; the master may crash; plain reads see the last commit.
SPECIFICATION Spec
CONSTANTS
    c1 = c1
    c2 = c2
    n1 = n1
    n2 = n2
    north = north
    south = south
    any = any
    Case = {c1, c2}
    NoCase = none
    InitCase = {}
    Region = {north, south}
    AnyRegion = any
    Node = {n1, n2}
    NodeRegions <- BothNodes
    RunParams <- DirectRuns
    Caller = {u1, u2}
    Dispatcher = {}
    Stopper = {}
    Scanner = {}
    FlakyNode = {}
    SnapshotReads = FALSE
    MaxReport = 2
    MaxQueue = 0
    MaxCrash = 1
INVARIANTS
    TypeOK
    EnginesDisjoint
PROPERTIES
    LeaseService
CHECK_DEADLOCK FALSE
