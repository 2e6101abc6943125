----------------------------- MODULE NodeLease -----------------------------
(***************************************************************************)
(* What services/execution_node.py promises its callers: a load generator  *)
(* (a slave node) is leased to at most one report at a time, a report      *)
(* takes all the nodes it needs in one step, and a release gives all of    *)
(* them back.  Module Execution is shown to implement this specification.  *)
(***************************************************************************)
CONSTANTS Holder,   \* the reports that may hold nodes
          Resource  \* the slave nodes

VARIABLE held       \* the set of <<report, node>> pairs in force

Init == held = {}

Holds(r) == {n \in Resource : <<r, n>> \in held}

Free == {n \in Resource : \A r \in Holder : <<r, n>> \notin held}

\* lease_nodes: every node asked for is free, or nothing is taken.
Acquire(r, S) ==
    /\ S \subseteq Free
    /\ held' = held \cup ({r} \X S)

\* release_by_report: every lease of one report is returned.
Release(r) == held' = held \ ({r} \X Resource)

\* mark_active_lost: a restart of the master voids every lease.
ReleaseAll == held' = {}

Next ==
    \/ \E r \in Holder, S \in SUBSET Resource : Acquire(r, S)
    \/ \E r \in Holder : Release(r)
    \/ ReleaseAll

Spec == Init /\ [][Next]_held

\* No node is ever promised to two reports.
Exclusive ==
    \A n \in Resource, r, s \in Holder :
        <<r, n>> \in held /\ <<s, n>> \in held => r = s
=============================================================================
