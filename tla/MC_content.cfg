\* What goes into a run and comes out of it, one part at a time: two documents and two writers, two files on two slaves, a report of three rows, two rows of a JTL file, three errors on up to two slaves, two thread groups on up to three slaves.
SPECIFICATION FairSpec
CONSTANTS
    Followed <- MCFollowed
    Bucket = {1, 3}
    MaxRow = 3
    MaxView = 1
    MaxReportFault = 1
    Doc = {1, 2}
    FileName = {n1, n2}
    GroupType = {"thread", "stepping"}
    Writer = {w1, w2}
    SwitchedOff = {2}
    MaxDocCall = 3
    MaxDocFault = 1
    File = {f1, f2}
    Slave = {1, 2}
    Uploader = {u1, u2}
    MaxFileEdit = 3
    MaxFileFault = 1
    Label = {"a", "b"}
    Instant = {0, 1, 3}
    Elapsed = {1, 4}
    GroupSize = {1, 2}
    Window = 2
    Meta <- MCMeta
    MaxSample = 2
    ErrorType = {"500", "timeout"}
    ErrorKey = {1, 2, 3}
    Failures <- MCFailures
    RunSlaves = {0, 2}
    PerType = 1
    InAll = 2
    XmlScan = 2
    JtlScan = 2
    MaxError = 3
    Group = {g1, g2}
    Threads = {1, 4}
    SlaveCount = {0, 2, 3}
    RowCount = {1, 5}
INVARIANTS
    TypeOK
    SnapshotsFinal
    DeletionLeavesNothing
    DocumentReadsBack
    FilesArrive
    SlicesPartition
    FiguresAgree
    TypesRepresented
    LoadShared
PROPERTIES
    LiveCurveGrows
    RunnerFinishes
CHECK_DEADLOCK FALSE
