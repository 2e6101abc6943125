\* Two API sessions administer, use and stop a node that also fails and dies, during heartbeat rounds.
SPECIFICATION FairSpec
CONSTANTS
    Node = {n1}
    Host = {h1, h2}
    Caller = {u1, u2}
    DistinctSeconds = TRUE
    MaxEdit = 2
    MaxFault = 1
INVARIANTS
    TypeOK
PROPERTIES
    EditsRespected
    SelfHealing
CHECK_DEADLOCK FALSE
