\* A stop marks the node while a probe that found it healthy is on its way.
SPECIFICATION Spec
CONSTANTS
    Node = {n1}
    Host = {h1}
    Caller = {u1}
    DistinctSeconds = TRUE
    MaxEdit = 1
    MaxFault = 1
PROPERTIES
    UserActionKept
CHECK_DEADLOCK FALSE
