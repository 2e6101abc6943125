----------------------------- MODULE Execution -----------------------------
(***************************************************************************)
(* The life of a stress-test run, from the request to the released nodes:  *)
(* module RunStart starts it, JmeterRunner carries it, RunStop ends it     *)
(* early, Recovery repairs it after a crash.  This module puts the         *)
(* coroutines together and states what must hold of them.                  *)
(***************************************************************************)
EXTENDS RunStart, JmeterRunner, RunStop, Recovery

\* The heartbeat and the node operations, as the execution services see them.
NodeChanges(n) ==
    /\ \E h \in {"ok", "sick", "disabled"} \ {health[n]} :
         health' = [health EXCEPT ![n] = h]
    /\ UNCHANGED <<dbRows, alive, task, session, todo, killer, master, crashes>>

Next ==
    \/ \E p \in Caller : RequestStep(p) \/ ReplyStep(p)
    \/ \E d \in Dispatcher : DispatchStep(d)
    \/ \E p \in Starter : StartStep(p)
    \/ \E r \in Report : TaskStep(r) \/ OrphanExits(r)
    \/ \E k \in Stopper : StopRequest(k)
    \/ \E k \in Scanner, expired \in SUBSET Report : ScanTimeout(k, expired)
    \/ \E k \in Killer : StopStep(k)
    \/ \E n \in FlakyNode : NodeChanges(n)
    \/ Crash \/ RecoverStep

Spec == Init /\ [][Next]_vars

(***************************************************************************)
(* Fairness.  The event loop resumes every coroutine whose await is done,  *)
(* so each position of a task, a session and a stop is left in the end;    *)
(* the dispatcher loop scans every ten seconds.  Nothing is assumed of     *)
(* users, of the nodes, or of crashes.  A test plan has a duration, so a   *)
(* JMeter process ends (part of TaskStep).                                 *)
(***************************************************************************)
Fairness ==
    /\ \A p \in Caller : WF_vars(ReplyStep(p))
    /\ \A d \in Dispatcher : WF_vars(DispatchStep(d))
    /\ \A p \in Starter : WF_vars(StartStep(p))
    /\ \A r \in Report : WF_vars(TaskStep(r))
    /\ \A k \in Killer : WF_vars(StopStep(k))
    /\ WF_vars(RecoverStep)

FairSpec == Spec /\ Fairness

-----------------------------------------------------------------------------
(* Leases. *)

\* No slave node is leased to two reports, however requests, dispatcher,
\* stops, timeouts and restarts interleave (lease_nodes, release_by_report).
LeaseExclusive ==
    \A n \in Node, r, s \in Report :
        <<r, n>> \in lease /\ <<s, n>> \in lease => r = s

\* The lease a direct run takes under REPEATABLE READ: its look at the leases
\* is older than the row locks it holds.
LeaseFromSnapshot ==
    /\ SnapshotReads
    /\ \E p \in Starter : session[p].queue = 0 /\ LeaseNodes(p)

\* Whatever the isolation, a node leased to two reports was given to a direct
\* run from such a look: the runs of the execution queue never share a node
\* among themselves, and under READ COMMITTED nobody does.
SharedOnlyByDirectRun(r, s) ==
    SnapshotReads /\ (QueuesOf(r) = {} \/ QueuesOf(s) = {})
LeasesSharedByDirectRuns ==
    \A n \in Node, r, s \in Report :
        <<r, n>> \in lease /\ <<s, n>> \in lease /\ r # s =>
            SharedOnlyByDirectRun(r, s)

\* While the master is up, every lease has somebody who will return it: the
\* coroutine that is launching the report, or its background task.
LeaseOwner(r) ==
    \/ \E p \in Starter :
         session[p].report = r /\ session[p].pc \in {"launch", "failing", "release"}
    \/ task[r].pc \notin {"none", "done"}
LeaseAttended ==
    Up => \A r \in Report : Leases(r) \cap lease # {} => LeaseOwner(r)

\* Two JMeter processes never drive the same slave node: what the leases are
\* for (testcase._run_testcase_now passes the nodes to JMeter with -R).
EnginesDisjoint ==
    \A r, s \in alive : r # s => report[r].nodes \cap report[s].nodes = {}

\* The implementation of the abstract lease service.
NL == INSTANCE NodeLease WITH Holder <- Report, Resource <- Node, held <- lease
LeaseService == NL!Spec

\* Whatever the isolation, only a lease from a snapshot departs from it.
LeaseServiceOrSnapshot == NL!Init /\ [][NL!Next \/ LeaseFromSnapshot]_lease

-----------------------------------------------------------------------------
(* Processes. *)

\* A live JMeter process is on record as active, so that a restart finds it
\* (main._recover_stuck_tasks), and while the master is up somebody waits for
\* it (jmeter_runner._run_and_callback).
ProcessRecorded ==
    \A r \in alive :
        /\ master \in {"up", "down"} /\ run[r] \in RunActive
        /\ Up => task[r].pc \in {"spawned", "running"}

\* A report whose run was stopped, timed out or failed has no JMeter process.
StoppedIsDead == \A r \in Report : report[r].status = "RUN_FAILED" => r \notin alive

-----------------------------------------------------------------------------
(* Test cases, reports and queue rows. *)

\* A test case shown as running has a running report, or a coroutine that is
\* about to record one: it can never be stuck in RUN_ING, which every start
\* refuses.
RunningCaseBacked ==
    Up => \A c \in Case : tc[c] = "RUN_ING" =>
        \/ RunningOf(c) # {}
        \/ \E p \in Starter : session[p].pc = "marked" /\ session[p].case = c

\* A running report has a background task or a coroutine on the way to one:
\* no report can stay RUN_ING for ever.
RunningReportAttended ==
    Up => \A r \in Running :
        \/ \E p \in Starter : session[p].report = r /\ session[p].pc \in
                                  {"bind", "lease", "launch"}
        \/ task[r].pc \in {"created", "spawned", "running", "exited", "commit"}

\* A queue row shown as successful belongs to a successful report, and a row
\* whose run succeeded is not shown as failed (sync_report_status,
\* _mark_execution_queue_stopped, the end of dispatch_pending_once).
QueueAgreesWithReport ==
    \A q \in Queue : queue[q].report # 0 =>
        LET status == report[queue[q].report].status IN
        /\ queue[q].status = "success" => status = "RUN_SUCCESS"
        /\ queue[q].status = "failed" => status = "RUN_FAILED"

\* A queue row that was claimed is in the hands of the dispatcher or bound to
\* a run that is not over: otherwise nothing will ever finish it.
RunningQueueAttended ==
    Up => \A q \in Queue : queue[q].status = "running" =>
        \/ \E d \in Dispatcher : session[d].queue = q
        \/ /\ queue[q].report # 0
           /\ report[queue[q].report].status = "RUN_ING"

-----------------------------------------------------------------------------
(* Steps. *)

\* One queue row starts at most one run: the report it is bound to never
\* changes, and a row that left the queue never returns to it.
QueueStartsOnce ==
    [][\A q \in Queue :
         /\ queue[q].report # 0 => queue'[q].report = queue[q].report
         /\ queue[q].status \notin {"none", "pending"} =>
              queue'[q].status # "pending"]_queue

\* Recovery hands over a clean state: nothing runs, nothing is leased, no
\* process is left, and the rows waiting in the queue are still there.
RecoveryClean ==
    [][~Up /\ Up' =>
         /\ Running' = {} /\ lease' = {} /\ alive' = {}
         /\ \A c \in Case : tc'[c] # "RUN_ING"
         /\ \A q \in Queue : queue'[q].status # "running"
         /\ \A r \in Report : run'[r] \notin RunActive]_vars
PendingSurvives ==
    [][(~Up \/ ~Up') =>
         \A q \in Queue : queue[q].status = "pending" =>
                            queue'[q] = queue[q]]_vars

-----------------------------------------------------------------------------
(* Liveness, under FairSpec. *)

\* Every report that runs comes to an end, and every leased node is returned.
EveryReportEnds ==
    \A r \in Report : (report[r].status = "RUN_ING") ~> (r \notin Running)
EveryLeaseEnds ==
    \A r \in Report : (Leases(r) \cap lease # {}) ~> (Leases(r) \cap lease = {})
=============================================================================
