---------------------------- MODULE MCExecution ----------------------------
(***************************************************************************)
(* Small instances of Execution for TLC.  Region "north" is served by n1   *)
(* (and n2), "south" by n2; the empty region string asks for any node.     *)
(***************************************************************************)
EXTENDS Execution

CONSTANTS c1, c2, n1, n2, north, south, any

OneNode == [n \in Node |-> {north}]
TwoRegions == [n \in Node |-> IF n = n1 THEN {north} ELSE {south}]
BothNodes == [n \in Node |-> {north, south}]

Direct(g, k) == [region |-> g, count |-> k, policy |-> "fail_fast"]
Queued(g, k) == [region |-> g, count |-> k, policy |-> "queue_when_no_slave"]

DirectRuns == {Direct(north, 1), Direct(any, 0)}
QueuedRuns == {Queued(north, 1), Queued(south, 1)}
NorthRun == {Direct(north, 1)}
NorthQueued == {Queued(north, 1)}
MixedRuns == {Direct(north, 1), Queued(north, 1)}
=============================================================================
