--------------------------- MODULE ExecutionState ---------------------------
(***************************************************************************)
(* The state the execution services of pressure-platform share: the MySQL  *)
(* rows (test cases, reports, execution queue, node leases, execution      *)
(* runs), the JMeter processes of the operating system, and the program    *)
(* position of every coroutine that reads and writes them.                 *)
(*                                                                         *)
(* Reading rule.  InnoDB's default isolation gives a transaction one       *)
(* snapshot for all its plain SELECTs, and the session factory keeps       *)
(* loaded objects after a commit (expire_on_commit=False).  Hence the      *)
(* reads a coroutine makes between two commits are one step, each commit   *)
(* is one step, and what a coroutine learnt at its snapshot stays in its   *)
(* own record until it writes.  UPDATE writes only the columns the         *)
(* coroutine changed with respect to what it had read.                     *)
(***************************************************************************)
EXTENDS Naturals, FiniteSets

CONSTANTS
    Case,             \* test cases
    NoCase,           \* stands for "no test case" in an idle coroutine
    InitCase,         \* test cases that produce artefacts on the master
    Region,           \* the regions a run may ask for
    AnyRegion,        \* the empty region string: no filter
    Node,             \* slave nodes
    NodeRegions,      \* Node -> set of regions the node is tagged with
    RunParams,        \* the run requests: [region, count, policy]
    Caller,           \* API sessions that run, queue, debug or cancel
    Dispatcher,       \* the queue dispatcher (at most one)
    Stopper,          \* API sessions that stop executions
    Scanner,          \* the timeout scanner (at most one)
    FlakyNode,        \* nodes whose status or health may change
    SnapshotReads,    \* TRUE: REPEATABLE READ, FALSE: READ COMMITTED
    MaxReport,        \* bound: reports ever created
    MaxQueue,         \* bound: queue rows ever created
    MaxCrash          \* bound: crashes of the master

Report == 1 .. MaxReport
Queue == 1 .. MaxQueue
RegionArg == Region \cup {AnyRegion}
Starter == Caller \cup Dispatcher
Killer == Stopper \cup Scanner

ASSUME ExecutionAssumption ==
    /\ MaxReport \in Nat /\ MaxQueue \in Nat /\ MaxCrash \in Nat
    /\ NoCase \notin Case
    /\ InitCase \subseteq Case
    /\ FlakyNode \subseteq Node
    /\ SnapshotReads \in BOOLEAN
    /\ NodeRegions \in [Node -> SUBSET Region]
    /\ RunParams \subseteq
         [region : RegionArg, count : Nat,
          policy : {"fail_fast", "queue_when_no_slave"}]
    /\ Caller \cap Dispatcher = {}
    /\ Stopper \cap Scanner = {}

\* main.py starts one dispatcher loop in its one process.
ASSUME OneDispatcher == \A d, e \in Dispatcher : d = e

VARIABLES
    tc,       \* testcase.status
    report,   \* report rows
    queue,    \* execution_queue rows
    lease,    \* execution_node rows with status "leased"
    run,      \* execution_run.status, one row per report at most
    health,   \* node.status and node.health_status
    alive,    \* reports whose JMeter process group exists
    task,     \* _run_and_callback, one background task per report
    session,  \* the coroutines that start runs
    todo,     \* queue rows the dispatcher's scan has still to visit
    killer,   \* the coroutines that stop runs
    master,   \* the master process
    crashes   \* how often it has crashed

vars == <<tc, report, queue, lease, run, health, alive, task, session, todo,
          killer, master, crashes>>

-----------------------------------------------------------------------------
(* Rows. *)

TestCaseStatus == {"NOT_RUN", "RUN_ING", "RUN_SUCCESS", "RUN_FAILED",
                   "RUN_WAITING", "WAIT_CANCEL"}
ReportRow == [status : {"none", "RUN_ING", "RUN_SUCCESS", "RUN_FAILED"},
              case : Case \cup {NoCase}, region : RegionArg,
              nodes : SUBSET Node]
NoReport == [status |-> "none", case |-> NoCase, region |-> AnyRegion,
             nodes |-> {}]
QueueRow == [status : {"none", "pending", "running", "success", "failed",
                       "canceled"},
             case : Case \cup {NoCase}, region : RegionArg, count : Nat,
             report : 0 .. MaxReport]
NoQueue == [status |-> "none", case |-> NoCase, region |-> AnyRegion,
            count |-> 0, report |-> 0]
QueueActive == {"pending", "running"}
RunStatus == {"none", "preparing", "running", "stopping", "success",
              "failed", "lost"}
RunActive == {"preparing", "running", "stopping"}

(* Coroutines. *)

StarterPC == {"idle", "enqueue", "cancel", "claim", "select", "prepare",
              "marked", "bind", "lease", "launch", "failing", "release",
              "confirm"}
SessionRec == [pc : StarterPC, case : Case \cup {NoCase}, region : RegionArg,
               count : Nat, queue : 0 .. MaxQueue, nodes : SUBSET Node,
               report : 0 .. MaxReport, view : SUBSET Node,
               tcSeen : TestCaseStatus, debug : BOOLEAN]
Idle == [pc |-> "idle", case |-> NoCase, region |-> AnyRegion, count |-> 0,
         queue |-> 0, nodes |-> {}, report |-> 0, view |-> {},
         tcSeen |-> "NOT_RUN", debug |-> FALSE]
TaskRec == [pc : {"none", "created", "spawned", "running", "exited",
                  "commit", "finish", "close", "release", "done"},
            result : {"none", "ok", "bad", "error"},
            setCase : BOOLEAN, setQueue : SUBSET Queue]
NoTask == [pc |-> "none", result |-> "none", setCase |-> FALSE,
           setQueue |-> {}]
KillerRec == [pc : {"idle", "mark", "kill", "release", "remote", "finish"},
              todo : SUBSET Report, marked : SUBSET Report,
              single : BOOLEAN, written : SUBSET (Case \cup {NoCase}),
              bound : SUBSET Queue, leased : SUBSET Report,
              sick : SUBSET Node]
Resting == [pc |-> "idle", todo |-> {}, marked |-> {}, single |-> FALSE,
            written |-> {}, bound |-> {}, leased |-> {}, sick |-> {}]

TypeOK ==
    /\ tc \in [Case -> TestCaseStatus]
    /\ report \in [Report -> ReportRow]
    /\ queue \in [Queue -> QueueRow]
    /\ lease \in SUBSET (Report \X Node)
    /\ run \in [Report -> RunStatus]
    /\ health \in [Node -> {"ok", "sick", "disabled"}]
    /\ alive \in SUBSET Report
    /\ task \in [Report -> TaskRec]
    /\ session \in [Starter -> SessionRec]
    /\ todo \in SUBSET Queue
    /\ killer \in [Killer -> KillerRec]
    /\ master \in {"up", "down", "stopped", "repaired"}
    /\ crashes \in Nat

Init ==
    /\ tc = [c \in Case |-> "NOT_RUN"]
    /\ report = [r \in Report |-> NoReport]
    /\ queue = [q \in Queue |-> NoQueue]
    /\ lease = {}
    /\ run = [r \in Report |-> "none"]
    /\ health = [n \in Node |-> "ok"]
    /\ alive = {}
    /\ task = [r \in Report |-> NoTask]
    /\ session = [p \in Starter |-> Idle]
    /\ todo = {}
    /\ killer = [k \in Killer |-> Resting]
    /\ master = "up"
    /\ crashes = 0

-----------------------------------------------------------------------------
(* What the services read. *)

Up == master = "up"

\* report_crud.has_any_running and get_running_by_testcase_region
Running == {r \in Report : report[r].status = "RUN_ING"}
RunningOf(c) == {r \in Running : report[r].case = c}
RunningIn(c, g) == {r \in RunningOf(c) : report[r].region = g}

\* queue_crud.get_active_by_testcase_region: all of them; the code takes the
\* one with the largest id.
ActiveQueues(c, g) ==
    {q \in Queue : /\ queue[q].status \in QueueActive
                   /\ queue[q].case = c
                   /\ queue[q].region = g}

\* queue_crud.get_by_report_id
QueuesOf(r) == {q \in Queue : queue[q].report = r}

\* active_node_ids
LeasedNodes == {n \in Node : \E r \in Report : <<r, n>> \in lease}

\* list_enable_slaves and list_available_slaves
Available(g, ignoreHealth) ==
    {n \in Node \ LeasedNodes :
        /\ g = AnyRegion \/ g \in NodeRegions[n]
        /\ health[n] = "ok" \/ (ignoreHealth /\ health[n] = "sick")}

Leases(r) == {r} \X Node

\* A transaction that sets testcase.status of c and nothing else of the case.
SetCase(c, s) == tc' = [tc EXCEPT ![c] = s]

FirstOf(S, q) == q \in S /\ \A p \in S : q <= p
=============================================================================
