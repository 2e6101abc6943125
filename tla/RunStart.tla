------------------------------ MODULE RunStart ------------------------------
(***************************************************************************)
(* How a run is started: the API operations run, run legacy, debug and     *)
(* cancel of services/testcase.py and services/execution_queue.py, the     *)
(* dispatcher that starts queued runs, and the node leases of              *)
(* services/execution_node.py.                                             *)
(*                                                                         *)
(* A session record walks through these positions:                         *)
(*   idle -> enqueue -> idle                    the run was queued          *)
(*   idle -> cancel -> idle                     a queue row is canceled     *)
(*   idle -> prepare -> marked -> lease -> launch -> idle     a direct run  *)
(*   idle -> claim -> select -> prepare -> marked -> bind -> lease ->       *)
(*           launch -> confirm -> idle                        a queued run  *)
(***************************************************************************)
EXTENDS ExecutionState

\* Bounds: a run is requested only while a report row is left for it, and
\* queued only while a queue row is left.
RoomForReport ==
    Cardinality({r \in Report : report[r].status # "none"})
      + Cardinality({p \in Starter : session[p].pc \in
                        {"claim", "select", "prepare", "marked"}}) < MaxReport
RoomForQueue ==
    Cardinality({q \in Queue : queue[q].status # "none"})
      + Cardinality({p \in Starter : session[p].pc = "enqueue"}) < MaxQueue

Goto(p, pc) == session' = [session EXCEPT ![p].pc = pc]

\* The coroutine is through with its run: an API request returns, the
\* dispatcher goes on to the next row of its scan.
EndSession(p) ==
    /\ session' = [session EXCEPT ![p] = Idle]
    /\ todo' = todo \ {session[p].queue}

dbRows == <<tc, report, queue, lease, run>>
others == <<health, alive, killer, master, crashes>>

-----------------------------------------------------------------------------
(* Admission. *)

\* _should_queue_run after its refusals: too few nodes are free.
ShouldQueue(c, g, count) ==
    LET total == Cardinality(Available(g, FALSE)) IN
    /\ c \notin InitCase
    /\ (g # AnyRegion /\ total < 1) \/ count > total

\* The node sets _run_testcase_now may choose; none when it must refuse.
\* count = 0 asks for every free node.
Choices(c, g, count, ignoreHealth) ==
    LET free == Available(g, ignoreHealth) IN
    IF c \in InitCase THEN {{}}
    ELSE IF g # AnyRegion /\ free = {} THEN {}
    ELSE IF count = 0 THEN {free}
    ELSE {S \in SUBSET free : Cardinality(S) = count}

\* The refusals of _run_testcase_now at its first snapshot, without a queue
\* row of its own.
MayRunNow(c, g) ==
    /\ tc[c] # "RUN_ING"
    /\ tc[c] = "RUN_WAITING" => ActiveQueues(c, g) = {}
    /\ g # AnyRegion /\ c \notin InitCase => RunningIn(c, g) = {}

Begin(p, c, g, nodes, isDebug) ==
    /\ RoomForReport
    /\ session' = [session EXCEPT ![p] =
                     [Idle EXCEPT !.pc = "prepare", !.case = c, !.region = g,
                                  !.nodes = nodes, !.tcSeen = tc[c],
                                  !.debug = isDebug]]
    /\ UNCHANGED <<dbRows, todo, task, others>>

\* run_testcase, both policies, when the run can start at once.
RequestRun(p) ==
    /\ Up /\ session[p].pc = "idle"
    /\ \E c \in Case, param \in RunParams :
         /\ MayRunNow(c, param.region)
         /\ param.policy = "queue_when_no_slave" /\ c \notin InitCase =>
              /\ ActiveQueues(c, param.region) = {}
              /\ ~ShouldQueue(c, param.region, param.count)
         /\ \E nodes \in Choices(c, param.region, param.count, FALSE) :
              Begin(p, c, param.region, nodes, FALSE)

\* run_testcase_legacy: no other test case runs, all enabled nodes, sick ones
\* included.
RequestLegacyRun(p) ==
    /\ Up /\ session[p].pc = "idle"
    /\ \E c \in Case :
         /\ \A other \in Case \ {c} : tc[other] # "RUN_ING"
         /\ MayRunNow(c, AnyRegion)
         /\ \E nodes \in Choices(c, AnyRegion, 0, TRUE) :
              Begin(p, c, AnyRegion, nodes, FALSE)

\* debug_testcase looks at no status and uses no node.
RequestDebug(p) ==
    /\ Up /\ session[p].pc = "idle"
    /\ \E c \in Case : Begin(p, c, AnyRegion, {}, TRUE)

\* run_testcase decides to queue the run.
RequestQueuedRun(p) ==
    /\ Up /\ session[p].pc = "idle" /\ RoomForQueue
    /\ \E c \in Case, param \in RunParams :
         /\ param.policy = "queue_when_no_slave"
         /\ tc[c] # "RUN_ING"
         /\ ActiveQueues(c, param.region) = {}
         /\ ShouldQueue(c, param.region, param.count)
         /\ session' = [session EXCEPT ![p] =
                          [Idle EXCEPT !.pc = "enqueue", !.case = c,
                                       !.region = param.region,
                                       !.count = param.count,
                                       !.tcSeen = tc[c]]]
    /\ UNCHANGED <<dbRows, todo, task, others>>

\* enqueue_manual_execution commits the row and the status.
Enqueue(p) ==
    /\ Up /\ session[p].pc = "enqueue"
    /\ \E q \in Queue :
         /\ FirstOf({i \in Queue : queue[i].status = "none"}, q)
         /\ queue' = [queue EXCEPT ![q] =
                        [status |-> "pending", case |-> session[p].case,
                         region |-> session[p].region,
                         count |-> session[p].count, report |-> 0]]
    /\ IF session[p].tcSeen # "RUN_WAITING"
         THEN SetCase(session[p].case, "RUN_WAITING")
         ELSE UNCHANGED tc
    /\ EndSession(p)
    /\ UNCHANGED <<report, lease, run, task, others>>

\* cancel_pending_execution reads the row ...
RequestCancel(p) ==
    /\ Up /\ session[p].pc = "idle"
    /\ \E q \in Queue :
         /\ queue[q].status = "pending"
         /\ session' = [session EXCEPT ![p] =
                          [Idle EXCEPT !.pc = "cancel", !.queue = q,
                                       !.case = queue[q].case,
                                       !.tcSeen = tc[queue[q].case]]]
    /\ UNCHANGED <<dbRows, todo, task, others>>

\* ... and commits what it makes of what it read.
Cancel(p) ==
    /\ Up /\ session[p].pc = "cancel"
    /\ queue' = [queue EXCEPT ![session[p].queue].status = "canceled"]
    /\ IF session[p].tcSeen # "WAIT_CANCEL"
         THEN SetCase(session[p].case, "WAIT_CANCEL")
         ELSE UNCHANGED tc
    /\ session' = [session EXCEPT ![p] = Idle]
    /\ UNCHANGED <<report, lease, run, todo, task, others>>

-----------------------------------------------------------------------------
(* The dispatcher. *)

\* dispatch_pending_once lists the pending rows.
Scan(d) ==
    /\ Up /\ session[d].pc = "idle" /\ todo = {}
    /\ todo' = {q \in Queue : queue[q].status = "pending"}
    /\ UNCHANGED <<dbRows, session, task, others>>

\* _should_queue_run refuses a row of a running test case, and a row that is
\* not the newest active one of its test case and region.
Refused(q) ==
    LET active == ActiveQueues(queue[q].case, queue[q].region) IN
    \/ tc[queue[q].case] = "RUN_ING"
    \/ /\ queue[q].case \notin InitCase
       /\ active # {}
       /\ ~(q \in active /\ \A p \in active : p <= q)

Visit(d, q) == Up /\ session[d].pc = "idle" /\ FirstOf(todo, q)

\* The refusal is raised outside the try of the loop: the scan is over.
AbortScan(d) ==
    /\ \E q \in Queue : Visit(d, q) /\ Refused(q)
    /\ todo' = {}
    /\ UNCHANGED <<dbRows, session, task, others>>

\* Too few nodes, or the refreshed row is no longer pending.
SkipRow(d) ==
    /\ \E q \in Queue :
         /\ Visit(d, q) /\ ~Refused(q)
         /\ \/ ShouldQueue(queue[q].case, queue[q].region, queue[q].count)
            \/ queue[q].status # "pending"
         /\ todo' = todo \ {q}
    /\ UNCHANGED <<dbRows, session, task, others>>

StartRow(d) ==
    /\ RoomForReport
    /\ \E q \in Queue :
         /\ Visit(d, q) /\ ~Refused(q)
         /\ ~ShouldQueue(queue[q].case, queue[q].region, queue[q].count)
         /\ queue[q].status = "pending"
         /\ session' = [session EXCEPT ![d] =
                          [Idle EXCEPT !.pc = "claim", !.queue = q,
                                       !.case = queue[q].case,
                                       !.region = queue[q].region,
                                       !.count = queue[q].count,
                                       !.tcSeen = tc[queue[q].case]]]
    /\ UNCHANGED <<dbRows, todo, task, others>>

\* _claim_execution_queue_for_start looks at the cached row, so it always
\* finds it pending.  The WAIT_CANCEL refusal comes after its commit.
Claim(d) ==
    /\ Up /\ session[d].pc = "claim"
    /\ queue' = [queue EXCEPT ![session[d].queue].status = "running"]
    /\ IF session[d].tcSeen = "WAIT_CANCEL"
         THEN EndSession(d)
         ELSE Goto(d, "select") /\ UNCHANGED todo
    /\ UNCHANGED <<tc, report, lease, run, task, others>>

\* The checks _run_testcase_now makes after the claim.
SelectChoices(d) ==
    LET s == session[d] IN
    IF s.region # AnyRegion /\ s.case \notin InitCase
         /\ RunningIn(s.case, s.region) # {}
      THEN {}
      ELSE Choices(s.case, s.region, s.count, FALSE)

Select(d) ==
    /\ Up /\ session[d].pc = "select"
    /\ \E nodes \in SelectChoices(d) :
         session' = [session EXCEPT ![d] =
                       [@ EXCEPT !.pc = "prepare", !.nodes = nodes]]
    /\ UNCHANGED <<dbRows, todo, task, others>>

\* Fault: a refused start puts its row back into the queue, canceled or not.
SelectRefusedRequeues(d) ==
    /\ Up /\ session[d].pc = "select" /\ SelectChoices(d) = {}
    /\ queue' = [queue EXCEPT ![session[d].queue].status = "pending"]
    /\ EndSession(d)
    /\ UNCHANGED <<tc, report, lease, run, task, others>>

\* The except MysteriousException of the loop: only the message is written,
\* the row keeps the status the claim gave it.
SelectRefused(d) ==
    /\ Up /\ session[d].pc = "select" /\ SelectChoices(d) = {}
    /\ EndSession(d)
    /\ UNCHANGED <<dbRows, task, others>>

-----------------------------------------------------------------------------
(* Preparing, recording, leasing, launching. *)

\* A node does not answer, a file cannot be copied, the script is refused.
PrepareFails(p) ==
    /\ Up /\ session[p].pc = "prepare"
    /\ EndSession(p)
    /\ UNCHANGED <<dbRows, task, others>>

\* Any other exception: the dispatcher fails the row and the test case.
PrepareBreaks(d) ==
    /\ Up /\ session[d].pc = "prepare"
    /\ queue' = [queue EXCEPT ![session[d].queue].status = "failed"]
    /\ IF session[d].tcSeen # "RUN_FAILED"
         THEN SetCase(session[d].case, "RUN_FAILED")
         ELSE UNCHANGED tc
    /\ EndSession(d)
    /\ UNCHANGED <<report, lease, run, task, others>>

MarkRunning(p) ==
    /\ Up /\ session[p].pc = "prepare"
    /\ IF session[p].tcSeen # "RUN_ING"
         THEN SetCase(session[p].case, "RUN_ING")
         ELSE UNCHANGED tc
    /\ Goto(p, "marked")
    /\ UNCHANGED <<report, queue, lease, run, todo, task, others>>

\* report.add_report: the row is committed, then refreshed.  The refresh opens
\* the transaction in which a direct run later looks for leases.
AddReport(p) ==
    /\ Up /\ session[p].pc = "marked"
    /\ \E r \in Report :
         /\ FirstOf({i \in Report : report[i].status = "none"}, r)
         /\ report' = [report EXCEPT ![r] =
                         [status |-> "RUN_ING", case |-> session[p].case,
                          region |-> session[p].region,
                          nodes |-> session[p].nodes]]
         /\ session' = [session EXCEPT ![p] =
              [@ EXCEPT !.pc = IF session[p].queue = 0 THEN "lease" ELSE "bind",
                        !.report = r,
                        !.view = IF SnapshotReads
                                   THEN session[p].nodes \cap LeasedNodes
                                   ELSE {}]]
    /\ UNCHANGED <<tc, queue, lease, run, todo, task, others>>

\* _bind_execution_queue_report
BindQueue(d) ==
    /\ Up /\ session[d].pc = "bind"
    /\ queue' = [queue EXCEPT ![session[d].queue].report = session[d].report]
    /\ Goto(d, "lease")
    /\ UNCHANGED <<tc, report, lease, run, todo, task, others>>

\* Fault: the leases are looked up once, before the row locks are held.
ConflictsBeforeLock(p) == session[p].view

\* The nodes lease_nodes finds leased once it holds the row locks.  A queued
\* run opened a new transaction after its bind; a direct run still reads the
\* snapshot of AddReport.
Conflicts(p) ==
    IF SnapshotReads /\ session[p].queue = 0
      THEN session[p].view
      ELSE session[p].nodes \cap LeasedNodes

LeaseNodes(p) ==
    /\ Up /\ session[p].pc = "lease" /\ Conflicts(p) = {}
    /\ lease' = lease \cup ({session[p].report} \X session[p].nodes)
    /\ Goto(p, "launch")
    /\ UNCHANGED <<tc, report, queue, run, todo, task, others>>

\* A start that failed: the test case, the report and the queue rows given.
FailStart(p, rows) ==
    /\ SetCase(session[p].case, "RUN_FAILED")
    /\ report' = [report EXCEPT ![session[p].report].status = "RUN_FAILED"]
    /\ queue' = [q \in Queue |-> IF q \in rows
                                   THEN [queue[q] EXCEPT !.status = "failed"]
                                   ELSE queue[q]]

\* Fault: the report gets the vocabulary of the execution queue.
StartFailedAsQueue(p) ==
    /\ SetCase(session[p].case, "RUN_FAILED")
    /\ report' = [report EXCEPT ![session[p].report].status = "failed"]
    /\ UNCHANGED queue

\* _mark_run_start_failed
StartFailed(p) == FailStart(p, QueuesOf(session[p].report))

\* lease_nodes raises while it holds the row locks; the failure is committed
\* in the same transaction.
LeaseConflict(p) ==
    /\ Up /\ session[p].pc = "lease" /\ Conflicts(p) # {}
    /\ StartFailed(p)
    /\ EndSession(p)
    /\ UNCHANGED <<lease, run, task, others>>

\* launch_jmeter records the run and creates the background task.
Launch(p) ==
    /\ Up /\ session[p].pc = "launch"
    /\ run' = [run EXCEPT ![session[p].report] = "preparing"]
    /\ task' = [task EXCEPT ![session[p].report] =
                  [NoTask EXCEPT !.pc = "created"]]
    /\ IF session[p].queue = 0
         THEN EndSession(p)
         ELSE Goto(p, "confirm") /\ UNCHANGED todo
    /\ UNCHANGED <<tc, report, queue, lease, others>>

\* _create_execution_run fails.  launch_jmeter fails a report that is still
\* running, in a session of its own, ...
LaunchFails(p) ==
    /\ Up /\ session[p].pc = "launch"
    /\ LET r == session[p].report IN
       IF r \in Running
         THEN FailStart(p, {q \in QueuesOf(r) : queue[q].status = "running"})
         ELSE UNCHANGED <<tc, report, queue>>
    /\ Goto(p, IF session[p].debug THEN "release" ELSE "failing")
    /\ UNCHANGED <<lease, run, todo, task, others>>

\* Fault: the caller does not give the nodes back.
MarkStartFailedHoldingNodes(p) ==
    /\ Up /\ session[p].pc = "failing"
    /\ StartFailed(p)
    /\ EndSession(p)
    /\ UNCHANGED <<lease, run, task, others>>

\* ... and the caller, unless it is debug_testcase, fails it once more, over
\* whatever others have made of the test case meanwhile.
MarkStartFailed(p) ==
    /\ Up /\ session[p].pc = "failing"
    /\ StartFailed(p)
    /\ Goto(p, "release")
    /\ UNCHANGED <<lease, run, todo, task, others>>

\* release_by_report after a failed launch.
ReleaseUnlaunched(p) ==
    /\ Up /\ session[p].pc = "release"
    /\ lease' = lease \ Leases(session[p].report)
    /\ EndSession(p)
    /\ UNCHANGED <<tc, report, queue, run, task, others>>

\* Fault: a run that is already over counts as a success.
ConfirmStartAsSuccess(d) ==
    /\ Up /\ session[d].pc = "confirm"
    /\ queue' = IF session[d].report \in Running THEN queue
                ELSE [queue EXCEPT ![session[d].queue].status = "success"]
    /\ EndSession(d)
    /\ UNCHANGED <<tc, report, lease, run, task, others>>

\* The end of a dispatcher iteration: a report that is already over decides
\* the row.
ConfirmStart(d) ==
    /\ Up /\ session[d].pc = "confirm"
    /\ LET status == report[session[d].report].status IN
       queue' = IF status = "RUN_ING" THEN queue
                ELSE [queue EXCEPT ![session[d].queue].status =
                        IF status = "RUN_SUCCESS" THEN "success" ELSE "failed"]
    /\ EndSession(d)
    /\ UNCHANGED <<tc, report, lease, run, task, others>>

-----------------------------------------------------------------------------
RequestStep(p) ==
    \/ RequestRun(p) \/ RequestLegacyRun(p) \/ RequestDebug(p)
    \/ RequestQueuedRun(p) \/ RequestCancel(p)

\* The commits of the two short API requests.
ReplyStep(p) == Enqueue(p) \/ Cancel(p)

DispatchStep(d) ==
    \/ Scan(d) \/ AbortScan(d) \/ SkipRow(d) \/ StartRow(d) \/ Claim(d)
    \/ Select(d) \/ SelectRefused(d) \/ PrepareBreaks(d) \/ BindQueue(d)
    \/ ConfirmStart(d)

StartStep(p) ==
    \/ PrepareFails(p) \/ MarkRunning(p) \/ AddReport(p)
    \/ LeaseNodes(p) \/ LeaseConflict(p)
    \/ Launch(p) \/ LaunchFails(p) \/ MarkStartFailed(p)
    \/ ReleaseUnlaunched(p)
=============================================================================
