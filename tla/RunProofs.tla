------------------------------ MODULE RunProofs ------------------------------
(***************************************************************************)
(* Nothing is forgotten while the master is up: a lease, a running report  *)
(* and a test case shown as running each have somebody who will end them,  *)
(* however requests, dispatcher, stops, timeouts and crashes interleave.   *)
(* And two JMeter processes of runs nobody stops share no slave node.      *)
(***************************************************************************)
EXTENDS ProcessProofs

-----------------------------------------------------------------------------
(* How each group of actions moves the coroutines. *)

OthersStay(p) == \A o \in Starter \ {p} : session'[o] = session[o]

LEMMA GotoMoves ==
  ASSUME TypeInv, NEW p \in Starter, NEW pc, Goto(p, pc)
  PROVE  /\ OthersStay(p) /\ session'[p].pc = pc
         /\ session'[p].case = session[p].case
         /\ session'[p].queue = session[p].queue
         /\ session'[p].nodes = session[p].nodes
         /\ session'[p].report = session[p].report
  BY DEF TypeInv, TypeOK, Goto, OthersStay, SessionRec

LEMMA EndSessionMoves ==
  ASSUME TypeInv, NEW p \in Starter, EndSession(p)
  PROVE  OthersStay(p) /\ session'[p] = Idle
  BY DEF TypeInv, TypeOK, EndSession, OthersStay

LEMMA SessionMoves ==
  ASSUME TypeInv, NEW p \in Starter, NEW s, session' = [session EXCEPT ![p] = s]
  PROVE  OthersStay(p) /\ session'[p] = s
  BY DEF TypeInv, TypeOK, OthersStay

\* A request changes its own session, the queue and the case it is about.
LEMMA RequestMoves ==
  ASSUME TypeInv, NEW p \in Caller, RequestStep(p) \/ ReplyStep(p)
  PROVE  /\ p \in Starter /\ Up /\ Up'
         /\ UNCHANGED <<report, lease, run, alive, task, killer, master>>
         /\ OthersStay(p)
         /\ session[p].pc \in {"idle", "enqueue", "cancel"}
         /\ session'[p].pc \in {"idle", "enqueue", "cancel", "prepare"}
         /\ \A c \in Case : tc'[c] = "RUN_ING" => tc[c] = "RUN_ING"
<1> USE DEF dbRows, others, Up
<1>0. p \in Starter
  BY DEF Starter
<1>1. /\ Up /\ UNCHANGED <<report, lease, run, alive, task, killer, master>>
      /\ session[p].pc \in {"idle", "enqueue", "cancel"}
  BY DEF RequestStep, ReplyStep, RequestRun, RequestLegacyRun, RequestDebug,
         RequestQueuedRun, RequestCancel, Enqueue, Cancel, Begin
<1>3. OthersStay(p) /\ session'[p].pc \in {"idle", "enqueue", "cancel", "prepare"}
  <2> USE <1>0 DEF TypeInv, TypeOK, OthersStay, Idle
  <2>1. ASSUME NEW c, NEW g, NEW nodes, NEW b, Begin(p, c, g, nodes, b)
        PROVE  OthersStay(p) /\ session'[p].pc = "prepare"
    BY <2>1 DEF Begin
  <2>2. CASE RequestRun(p) \/ RequestLegacyRun(p) \/ RequestDebug(p)
    <3>1. \E c, g, nodes, b : Begin(p, c, g, nodes, b)
      BY <2>2 DEF RequestRun, RequestLegacyRun, RequestDebug
    <3> QED
      BY <2>1, <3>1
  <2>3. CASE RequestQueuedRun(p)
    BY <2>3 DEF RequestQueuedRun
  <2>4. CASE RequestCancel(p)
    BY <2>4 DEF RequestCancel
  <2>5. CASE Enqueue(p) \/ Cancel(p)
    BY <2>5 DEF Enqueue, Cancel, EndSession
  <2> QED
    BY <2>2, <2>3, <2>4, <2>5 DEF RequestStep, ReplyStep
<1>2. \A c \in Case : tc'[c] = "RUN_ING" => tc[c] = "RUN_ING"
  <2>1. CASE Enqueue(p) \/ Cancel(p)
    BY <2>1 DEF Enqueue, Cancel, SetCase, TypeInv, TypeOK
  <2>2. CASE RequestStep(p)
    BY <2>2 DEF RequestStep, RequestRun, RequestLegacyRun, RequestDebug,
                RequestQueuedRun, RequestCancel, Begin
  <2> QED
    BY <2>1, <2>2 DEF ReplyStep
<1> QED
  BY <1>0, <1>1, <1>2, <1>3

\* So does the dispatcher, until it binds a report to its row.
LEMMA DispatchMoves ==
  ASSUME TypeInv, NEW d \in Dispatcher, DispatchStep(d)
  PROVE  /\ d \in Starter /\ Up /\ Up'
         /\ UNCHANGED <<report, lease, run, alive, task, killer, master>>
         /\ OthersStay(d)
         /\ \/ /\ BindQueue(d)
               /\ session[d].pc = "bind" /\ session'[d].pc = "lease"
               /\ session'[d].report = session[d].report
               /\ session'[d].queue = session[d].queue
               /\ session'[d].case = session[d].case
               /\ session'[d].nodes = session[d].nodes
            \/ /\ session[d].pc \in {"idle", "claim", "select", "prepare", "confirm"}
               /\ session'[d].pc \in {"idle", "claim", "select", "prepare"}
         /\ \A c \in Case : tc'[c] = "RUN_ING" => tc[c] = "RUN_ING"
<1> USE DEF dbRows, others, Up
<1>0. d \in Starter
  BY DEF Starter
<1>1. CASE Scan(d) \/ AbortScan(d) \/ SkipRow(d)
  BY <1>0, <1>1 DEF Scan, AbortScan, SkipRow, Visit, OthersStay
<1>2. CASE StartRow(d)
  <2>1. /\ session[d].pc = "idle"
        /\ \E s : s.pc = "claim" /\ session' = [session EXCEPT ![d] = s]
    BY <1>2 DEF StartRow, Visit, Idle
  <2> QED
    BY <1>0, <1>2, <2>1, SessionMoves DEF StartRow, Visit
<1>3. CASE Claim(d)
  BY <1>0, <1>3, EndSessionMoves, GotoMoves DEF Claim, Idle
<1>4. CASE Select(d)
  <2>1. PICK nodes : session' = [session EXCEPT ![d] =
                       [session[d] EXCEPT !.pc = "prepare", !.nodes = nodes]]
    BY <1>4 DEF Select
  <2>2. [session[d] EXCEPT !.pc = "prepare", !.nodes = nodes].pc = "prepare"
    BY <1>0 DEF TypeInv, TypeOK, SessionRec
  <2> QED
    BY <1>0, <1>4, <2>1, <2>2, SessionMoves DEF Select
<1>5. CASE SelectRefused(d) \/ ConfirmStart(d)
  BY <1>0, <1>5, EndSessionMoves DEF SelectRefused, ConfirmStart, Idle
<1>6. CASE PrepareBreaks(d)
  <2>1. \A c \in Case : tc'[c] = "RUN_ING" => tc[c] = "RUN_ING"
    BY <1>6 DEF PrepareBreaks, SetCase, TypeInv, TypeOK
  <2> QED
    BY <1>0, <1>6, <2>1, EndSessionMoves DEF PrepareBreaks, Idle
<1>7. CASE BindQueue(d)
  BY <1>0, <1>7, GotoMoves DEF BindQueue
<1> QED
  BY <1>1, <1>2, <1>3, <1>4, <1>5, <1>6, <1>7 DEF DispatchStep

\* The report AddReport fills, seen from the session and from the row.
LEMMA AddReportMoves ==
  ASSUME TypeInv, NEW p \in Starter, AddReport(p)
  PROVE  /\ Up /\ Up' /\ OthersStay(p) /\ session[p].pc = "marked"
         /\ UNCHANGED <<tc, queue, lease, run, alive, task, killer, master>>
         /\ session'[p].pc = IF session[p].queue = 0 THEN "lease" ELSE "bind"
         /\ session'[p].case = session[p].case
         /\ session'[p].queue = session[p].queue
         /\ session'[p].nodes = session[p].nodes
         /\ session'[p].report \in Report
         /\ report[session'[p].report].status = "none"
         /\ report'[session'[p].report].status = "RUN_ING"
         /\ report'[session'[p].report].case = session[p].case
         /\ report'[session'[p].report].nodes = session[p].nodes
         /\ \A r \in Report \ {session'[p].report} : report'[r] = report[r]
<1> USE DEF others
<1> DEFINE rec(r) == [session[p] EXCEPT
             !.pc = IF session[p].queue = 0 THEN "lease" ELSE "bind",
             !.report = r,
             !.view = IF SnapshotReads THEN session[p].nodes \cap LeasedNodes ELSE {}]
           row == [status |-> "RUN_ING", case |-> session[p].case,
                   region |-> session[p].region, nodes |-> session[p].nodes]
<1>1. PICK r \in Report :
        /\ report[r].status = "none"
        /\ report' = [report EXCEPT ![r] = row]
        /\ session' = [session EXCEPT ![p] = rec(r)]
  BY DEF AddReport, FirstOf
<1>2. /\ rec(r).report = r /\ rec(r).case = session[p].case
      /\ rec(r).nodes = session[p].nodes /\ rec(r).queue = session[p].queue
      /\ rec(r).pc = IF session[p].queue = 0 THEN "lease" ELSE "bind"
  BY DEF TypeInv, TypeOK, SessionRec
<1>3. /\ Up /\ Up' /\ session[p].pc = "marked"
      /\ UNCHANGED <<tc, queue, lease, run, alive, task, killer, master>>
  BY DEF AddReport, Up
<1> HIDE DEF rec
<1>4. session'[p] = rec(r) /\ OthersStay(p)
  BY <1>1 DEF OthersStay, TypeInv, TypeOK
<1> HIDE DEF row
<1>5. report'[r] = row /\ \A s \in Report \ {r} : report'[s] = report[s]
  BY <1>1 DEF TypeInv, TypeOK
<1> USE DEF row
<1> QED
  BY <1>1, <1>2, <1>3, <1>4, <1>5

\* A background task moves alone.
LEMMA TaskMoves ==
  ASSUME TypeInv, NEW r \in Report, TaskStep(r)
  PROVE  /\ Up /\ Up' /\ UNCHANGED <<session, killer, master>>
         /\ \A s \in Report \ {r} : task'[s] = task[s]
         /\ \/ task[r].pc \in {"created", "spawned", "running", "exited"}
            \/ CommitResult(r) \/ ReadRun(r) \/ FinishRun(r) \/ ReleaseLeases(r)
  BY DEF TaskStep, Spawn, SpawnFails, MarkRunRunning, Exit, ReadReport,
         CommitResult, ReadRun, FinishRun, ReleaseLeases, TaskGoto, unseen, Up,
         TypeInv, TypeOK

\* What a stop may touch: rows, never a session or a task.
LEMMA StopMoves ==
  ASSUME TypeInv, NEW k \in Killer, NEW R,
         StopRequest(k) \/ ScanTimeout(k, R) \/ StopStep(k)
  PROVE  /\ Up /\ Up' /\ UNCHANGED <<task, session, master>>
         /\ lease' \subseteq lease /\ alive' \subseteq alive
         /\ \A o \in Killer \ {k} : killer'[o] = killer[o]
  BY DEF StopRequest, StopCase, StopCaseWithoutReport, StopExecution, ScanTimeout,
         StopStep, MarkRunStopping, KillProcess, StopRelease, StopRemote,
         StopFinish, TimeoutCommit, KillerGoto, unmoved, Up, TypeInv, TypeOK

-----------------------------------------------------------------------------
(* Every lease has somebody who will return it. *)

\* A step that leases nothing, and after which every owner still is one.
LEMMA OwnersStay ==
  ASSUME TypeInv, LeaseAttended, Up, lease' \subseteq lease,
         \A p \in Starter : session[p].pc \in {"launch", "failing", "release"} =>
             /\ session'[p].pc \in {"launch", "failing", "release"}
             /\ session'[p].report = session[p].report,
         \A r \in Report : task[r].pc \notin {"none", "done"} =>
             task'[r].pc \notin {"none", "done"}
  PROVE  LeaseAttended'
<1> SUFFICES ASSUME NEW r \in Report, Leases(r) \cap lease' # {}
             PROVE  LeaseOwner(r)'
  BY DEF LeaseAttended, Leases
<1>1. LeaseOwner(r)
  BY DEF LeaseAttended, Leases
<1> QED
  BY <1>1 DEF LeaseOwner

LEMMA StartAttended ==
  ASSUME TypeInv, LeaseAttended, NEW p \in Starter, StartStep(p)
  PROVE  LeaseAttended'
<1> USE DEF dbRows, others
<1>1. CASE \/ PrepareFails(p) \/ MarkRunning(p) \/ LeaseConflict(p)
           \/ LaunchFails(p) \/ MarkStartFailed(p)
  <2>1. /\ Up /\ UNCHANGED <<lease, task>> /\ OthersStay(p)
        /\ session[p].pc \in {"launch", "failing", "release"} =>
             /\ session'[p].pc \in {"failing", "release"}
             /\ session'[p].report = session[p].report
    <3>1. CASE LaunchFails(p)
      BY <3>1, LaunchFailsWrites, GotoMoves
    <3> QED
      BY <1>1, <3>1, GotoMoves, EndSessionMoves
         DEF PrepareFails, MarkRunning, LeaseConflict, MarkStartFailed
  <2> QED
    BY <2>1, OwnersStay DEF OthersStay
<1>2. CASE AddReport(p)
  BY <1>2, AddReportMoves, OwnersStay DEF OthersStay
<1>3. CASE LeaseNodes(p)
  <2>1. /\ Up /\ UNCHANGED task /\ OthersStay(p) /\ session[p].pc = "lease"
        /\ session'[p].pc = "launch" /\ session'[p].report = session[p].report
        /\ lease' = lease \cup ({session[p].report} \X session[p].nodes)
    BY <1>3, GotoMoves DEF LeaseNodes
  <2> SUFFICES ASSUME NEW r \in Report, Leases(r) \cap lease' # {}
               PROVE  LeaseOwner(r)'
    BY DEF LeaseAttended, Leases
  <2>2. CASE r = session[p].report
    BY <2>1, <2>2 DEF LeaseOwner
  <2>3. CASE r # session[p].report
    <3>1. LeaseOwner(r)
      BY <2>1, <2>3 DEF LeaseAttended, Leases
    <3> QED
      BY <2>1, <3>1 DEF LeaseOwner, OthersStay
  <2> QED
    BY <2>2, <2>3
<1>4. CASE Launch(p)
  <2>1. /\ Up /\ UNCHANGED lease /\ OthersStay(p)
        /\ task' = [task EXCEPT ![session[p].report] =
                      [NoTask EXCEPT !.pc = "created"]]
    BY <1>4, GotoMoves, EndSessionMoves DEF Launch
  <2>2. \A s \in Report : task'[s].pc = IF s = session[p].report
                                         THEN "created" ELSE task[s].pc
    BY <2>1 DEF NoTask, TypeInv, TypeOK
  <2> SUFFICES ASSUME NEW r \in Report, Leases(r) \cap lease # {}
               PROVE  LeaseOwner(r)'
    BY <2>1 DEF LeaseAttended, Leases
  <2>3. LeaseOwner(r)
    BY <2>1 DEF LeaseAttended, Leases
  <2>4. CASE r = session[p].report
    BY <2>2, <2>4 DEF LeaseOwner
  <2>5. CASE r # session[p].report
    BY <2>1, <2>2, <2>3, <2>5 DEF LeaseOwner, OthersStay
  <2> QED
    BY <2>4, <2>5
<1>5. CASE ReleaseUnlaunched(p)
  <2>1. /\ Up /\ UNCHANGED task /\ OthersStay(p)
        /\ lease' = lease \ Leases(session[p].report)
    BY <1>5, EndSessionMoves DEF ReleaseUnlaunched
  <2> SUFFICES ASSUME NEW r \in Report, Leases(r) \cap lease' # {}
               PROVE  LeaseOwner(r)'
    BY DEF LeaseAttended, Leases
  <2>2. r # session[p].report /\ LeaseOwner(r)
    BY <2>1 DEF LeaseAttended, Leases
  <2> QED
    BY <2>1, <2>2 DEF LeaseOwner, OthersStay
<1> QED
  BY <1>1, <1>2, <1>3, <1>4, <1>5 DEF StartStep

LEMMA TaskAttended ==
  ASSUME TypeInv, LeaseAttended, NEW r \in Report, TaskStep(r)
  PROVE  LeaseAttended'
<1>1. Up /\ UNCHANGED session /\ \A s \in Report \ {r} : task'[s] = task[s]
  BY TaskMoves
<1>2. CASE ReleaseLeases(r)
  <2> SUFFICES ASSUME NEW s \in Report, Leases(s) \cap lease' # {}
               PROVE  LeaseOwner(s)'
    BY DEF LeaseAttended, Leases
  <2>1. s # r /\ LeaseOwner(s)
    BY <1>2 DEF ReleaseLeases, LeaseAttended, Leases
  <2> QED
    BY <1>1, <2>1 DEF LeaseOwner
<1>3. CASE ~ReleaseLeases(r)
  <2>1. task \in [Report -> TaskRec]
    BY DEF TypeInv, TypeOK
  <2>2. UNCHANGED lease /\ task'[r].pc \notin {"none", "done"}
    <3>1. CASE Spawn(r) \/ SpawnFails(r) \/ MarkRunRunning(r) \/ FinishRun(r)
      BY <2>1, <3>1, ZenonT(40) DEF Spawn, SpawnFails, MarkRunRunning, FinishRun,
                        TaskGoto, TaskRec
    <3>2. CASE Exit(r)
      BY <2>1, <3>2 DEF Exit, TaskRec
    <3>3. CASE ReadReport(r)
      BY <2>1, <3>3, ZenonT(40) DEF ReadReport, TaskGoto, TaskRec
    <3>4. CASE CommitResult(r)
      BY <2>1, <3>4 DEF CommitResult, TaskRec
    <3>5. CASE ReadRun(r)
      BY <2>1, <3>5 DEF ReadRun, TaskRec
    <3> QED
      BY <1>3, <3>1, <3>2, <3>3, <3>4, <3>5 DEF TaskStep
  <2> QED
    BY <1>1, <2>2, OwnersStay
<1> QED
  BY <1>2, <1>3

LEMMA NextLeaseAttended ==
  ASSUME TypeInv, LeaseAttended, [Next]_vars
  PROVE  LeaseAttended'
<1>1. CASE UNCHANGED vars \/ \E n \in FlakyNode : NodeChanges(n)
  BY <1>1 DEF vars, NodeChanges, dbRows, LeaseAttended, LeaseOwner, Leases, Up
<1>2. CASE \E p \in Caller : RequestStep(p) \/ ReplyStep(p)
  BY <1>2, RequestMoves, OwnersStay DEF OthersStay
<1>3. CASE \E d \in Dispatcher : DispatchStep(d)
  BY <1>3, DispatchMoves, OwnersStay DEF OthersStay
<1>4. CASE \/ \E k \in Stopper : StopRequest(k)
           \/ \E k \in Scanner, expired \in SUBSET Report : ScanTimeout(k, expired)
           \/ \E k \in Killer : StopStep(k)
  BY <1>4, StopMoves, OwnersStay DEF Killer
<1>5. CASE Crash \/ RecoverStep
  BY <1>5 DEF Crash, RecoverStep, StopLeftBehind, RecoverMark, RecoverKill,
              RecoverStop, RecoverRepair, RecoverLeases,
              LeaseAttended, Up
<1>6. CASE \E r \in Report : OrphanExits(r)
  BY <1>6 DEF OrphanExits, LeaseAttended, Up
<1> QED
  BY <1>1, <1>2, <1>3, <1>4, <1>5, <1>6, StartAttended, TaskAttended DEF Next

\* While the master is up every lease has somebody who will return it, whoever
\* starts, stops and times runs out, and after every restart (release_by_report
\* in its four callers, mark_active_lost).
THEOREM LeasesAttended == Spec => []LeaseAttended
<1>1. Init => LeaseAttended
  BY DEF Init, LeaseAttended
<1>2. TypeInv /\ LeaseAttended /\ [Next]_vars => LeaseAttended'
  BY NextLeaseAttended
<1> QED
  BY <1>1, <1>2, SpecTypeInv, PTL DEF Spec

-----------------------------------------------------------------------------
(* Every running report has a coroutine that will end it. *)

Working == {"created", "spawned", "running", "exited", "commit"}
ReportAttended(r) ==
    \/ \E p \in Starter : session[p].report = r /\ session[p].pc \in BeforeTask
    \/ task[r].pc \in Working
RunsAttended == Up => \A r \in Running : ReportAttended(r)

LEMMA AttendedIsAttended == RunsAttended <=> RunningReportAttended
  BY DEF RunsAttended, ReportAttended, RunningReportAttended, BeforeTask, Working

\* A step that starts no report, and after which whoever attended one still does.
LEMMA AttendantsStay ==
  ASSUME TypeInv, RunsAttended, Up, Running' \subseteq Running,
         \A p \in Starter : session[p].pc \in BeforeTask =>
             \/ session'[p].pc \in BeforeTask /\ session'[p].report = session[p].report
             \/ session[p].report \notin Running',
         \A r \in Running' : task[r].pc \in Working => task'[r].pc \in Working
  PROVE  RunsAttended'
<1> SUFFICES ASSUME NEW r \in Running'
             PROVE  ReportAttended(r)'
  BY DEF RunsAttended
<1>1. ReportAttended(r)
  BY DEF RunsAttended
<1> QED
  BY <1>1 DEF ReportAttended

LEMMA FailStartEnds ==
  ASSUME TypeInv, NEW p \in Starter, NEW S, FailStart(p, S)
  PROVE  Running' \subseteq Running /\ session[p].report \notin Running'
  BY DEF FailStart, Running, TypeInv, TypeOK, ReportRow

LEMMA StartFailedEnds ==
  ASSUME TypeInv, NEW p \in Starter, StartFailed(p)
  PROVE  Running' \subseteq Running /\ session[p].report \notin Running'
  BY FailStartEnds DEF StartFailed

LEMMA StartRunsAttended ==
  ASSUME TypeInv, RunsAttended, NEW p \in Starter, StartStep(p)
  PROVE  RunsAttended'
<1> USE DEF dbRows, others, BeforeTask
<1>1. CASE PrepareFails(p) \/ MarkRunning(p) \/ ReleaseUnlaunched(p)
  <2>1. Up /\ UNCHANGED <<report, task>> /\ OthersStay(p) /\ session[p].pc \notin BeforeTask
    BY <1>1, GotoMoves, EndSessionMoves DEF PrepareFails, MarkRunning, ReleaseUnlaunched
  <2> QED
    BY <2>1, AttendantsStay DEF OthersStay, Running
<1>2. CASE AddReport(p)
  <2> DEFINE r == session'[p].report
  <2>1. /\ Up /\ UNCHANGED task /\ session[p].pc = "marked" /\ OthersStay(p)
        /\ session'[p].pc \in BeforeTask
        /\ \A s \in Report \ {r} : report'[s] = report[s]
    BY <1>2, AddReportMoves
  <2> SUFFICES ASSUME NEW s \in Running', s # r
               PROVE  ReportAttended(s)'
    BY <2>1 DEF RunsAttended, ReportAttended
  <2>2. ReportAttended(s)
    BY <2>1 DEF RunsAttended, Running
  <2> QED
    BY <2>1, <2>2 DEF ReportAttended, OthersStay
<1>3. CASE LeaseNodes(p)
  <2>1. /\ Up /\ UNCHANGED <<report, task>> /\ OthersStay(p)
        /\ session'[p].pc = "launch" /\ session'[p].report = session[p].report
    BY <1>3, GotoMoves DEF LeaseNodes
  <2> QED
    BY <2>1, AttendantsStay DEF OthersStay, Running
<1>4. CASE LeaseConflict(p)
  <2>1. Up /\ UNCHANGED task /\ OthersStay(p) /\ StartFailed(p)
    BY <1>4, EndSessionMoves DEF LeaseConflict
  <2> QED
    BY <2>1, StartFailedEnds, AttendantsStay DEF OthersStay
<1>5. CASE Launch(p)
  <2>1. /\ Up /\ UNCHANGED report /\ OthersStay(p)
        /\ task' = [task EXCEPT ![session[p].report] =
                      [NoTask EXCEPT !.pc = "created"]]
    BY <1>5, GotoMoves, EndSessionMoves DEF Launch
  <2>2. \A s \in Report : task'[s].pc = IF s = session[p].report
                                         THEN "created" ELSE task[s].pc
    BY <2>1 DEF NoTask, TypeInv, TypeOK
  <2> SUFFICES ASSUME NEW r \in Running
               PROVE  ReportAttended(r)'
    BY <2>1 DEF RunsAttended, Running
  <2>3. ReportAttended(r) /\ r \in Report
    BY <2>1 DEF RunsAttended, Running
  <2> QED
    BY <2>1, <2>2, <2>3 DEF ReportAttended, OthersStay, Working
<1>6. CASE LaunchFails(p)
  <2>1. /\ Up /\ UNCHANGED task
        /\ \/ \E S : FailStart(p, S)
           \/ UNCHANGED report /\ session[p].report \notin Running
    BY <1>6 DEF LaunchFails
  <2>2. OthersStay(p)
    BY <1>6, LaunchFailsWrites, GotoMoves
  <2>3. Running' \subseteq Running /\ session[p].report \notin Running'
    BY <2>1, FailStartEnds DEF Running
  <2> QED
    BY <2>1, <2>2, <2>3, AttendantsStay DEF OthersStay
<1>7. CASE MarkStartFailed(p)
  <2>1. Up /\ UNCHANGED task /\ OthersStay(p) /\ StartFailed(p)
    BY <1>7, GotoMoves DEF MarkStartFailed
  <2> QED
    BY <2>1, StartFailedEnds, AttendantsStay DEF OthersStay
<1> QED
  BY <1>1, <1>2, <1>3, <1>4, <1>5, <1>6, <1>7 DEF StartStep

LEMMA TaskRunsAttended ==
  ASSUME TypeInv, RunsAttended, NEW r \in Report, TaskStep(r)
  PROVE  RunsAttended'
<1>1. Up /\ UNCHANGED session /\ \A s \in Report \ {r} : task'[s] = task[s]
  BY TaskMoves
<1>2. task \in [Report -> TaskRec] /\ report \in [Report -> ReportRow]
  BY DEF TypeInv, TypeOK
<1>3. /\ Running' \subseteq Running
      /\ r \in Running' /\ task[r].pc \in Working => task'[r].pc \in Working
  <2>1. CASE Spawn(r) \/ SpawnFails(r) \/ MarkRunRunning(r)
    BY <1>2, <2>1 DEF Spawn, SpawnFails, MarkRunRunning, TaskGoto, TaskRec,
                      Running, Working
  <2>2. CASE Exit(r)
    BY <1>2, <2>2 DEF Exit, TaskRec, Running, Working
  <2>3. CASE ReadReport(r)
    BY <1>2, <2>3 DEF ReadReport, TaskGoto, TaskRec, Running, Working
  <2>4. CASE CommitResult(r)
    BY <1>2, <2>4 DEF CommitResult, Verdict, ReportRow, Running
  <2>5. CASE ReadRun(r) \/ FinishRun(r) \/ ReleaseLeases(r)
    BY <2>5 DEF ReadRun, FinishRun, ReleaseLeases, Running, Working
  <2> QED
    BY <2>1, <2>2, <2>3, <2>4, <2>5 DEF TaskStep
<1> QED
  BY <1>1, <1>3, AttendantsStay DEF Running

LEMMA StopEnds ==
  ASSUME TypeInv, NEW k \in Killer, NEW R,
         StopRequest(k) \/ ScanTimeout(k, R) \/ StopStep(k)
  PROVE  Running' \subseteq Running
<1>1. ASSUME NEW T, NEW b, FailReports(k, T, b)
      PROVE  Running' \subseteq Running
  BY <1>1 DEF FailReports, Running, TypeInv, TypeOK, ReportRow
<1>2. UNCHANGED report => Running' \subseteq Running
  BY DEF Running
<1> QED
  BY <1>1, <1>2
     DEF StopRequest, StopCase, StopCaseWithoutReport, StopExecution, ScanTimeout,
         StopStep, MarkRunStopping, KillProcess, StopRelease, StopRemote,
         StopFinish, TimeoutCommit

LEMMA NextRunsAttended ==
  ASSUME TypeInv, RepairedInv, RunsAttended, [Next]_vars
  PROVE  RunsAttended'
<1>1. CASE UNCHANGED vars \/ \E n \in FlakyNode : NodeChanges(n)
  BY <1>1 DEF vars, NodeChanges, dbRows, RunsAttended, ReportAttended, Running, Up
<1>2. CASE \E p \in Caller : RequestStep(p) \/ ReplyStep(p)
  BY <1>2, RequestMoves, AttendantsStay DEF OthersStay, BeforeTask, Running
<1>3. CASE \E d \in Dispatcher : DispatchStep(d)
  BY <1>3, DispatchMoves, AttendantsStay DEF OthersStay, BeforeTask, Running
<1>4. CASE \/ \E k \in Stopper : StopRequest(k)
           \/ \E k \in Scanner, expired \in SUBSET Report : ScanTimeout(k, expired)
           \/ \E k \in Killer : StopStep(k)
  BY <1>4, StopMoves, StopEnds, AttendantsStay DEF Killer
<1>5. CASE Crash \/ RecoverStep
  BY <1>5 DEF Crash, RecoverStep, StopLeftBehind, RecoverMark, RecoverKill,
              RecoverStop, RecoverRepair, RecoverLeases,
              RunsAttended, RepairedInv, Running, Up
<1>6. CASE \E r \in Report : OrphanExits(r)
  BY <1>6 DEF OrphanExits, RunsAttended, Up
<1> QED
  BY <1>1, <1>2, <1>3, <1>4, <1>5, <1>6, StartRunsAttended, TaskRunsAttended
     DEF Next

LEMMA SpecRepairedInv == Spec => [](TypeInv /\ ProcessInv /\ RepairedInv)
<1>1. Init => RepairedInv
  BY DEF Init, RepairedInv
<1>2. TypeInv /\ ProcessInv /\ RepairedInv /\ [Next]_vars => RepairedInv'
  BY NextRepairedInv
<1> QED
  BY <1>1, <1>2, SpecProcessInv, PTL DEF Spec

\* While the master is up no report can stay RUN_ING for ever: a session is
\* about to launch it, or its background task has still to write its result.
THEOREM RunningReportsAttended == Spec => []RunningReportAttended
<1>1. Init => RunsAttended
  BY DEF Init, RunsAttended, Running, NoReport
<1>2. TypeInv /\ RepairedInv /\ RunsAttended /\ [Next]_vars => RunsAttended'
  BY NextRunsAttended
<1> QED
  BY <1>1, <1>2, SpecTypeInv, SpecRepairedInv, AttendedIsAttended, PTL DEF Spec

-----------------------------------------------------------------------------
(* What each step of a stop does to its own record. *)

Claimed(k) == killer[k].todo \cup killer[k].marked

LEMMA SnapshotFields ==
  ASSUME NEW rec \in KillerRec, NEW b
  PROVE  /\ Snapshot(rec, b).pc = rec.pc
         /\ Snapshot(rec, b).todo = rec.todo
         /\ Snapshot(rec, b).marked = rec.marked
         /\ \A c \in Snapshot(rec, b).written :
              tc[c] = "RUN_FAILED" \/ c \in rec.written
<1> DEFINE bound == {q \in Queue : queue[q].report \in rec.todo \cup rec.marked}
           leased == {r \in rec.todo : Leases(r) \cap lease # {}}
           written == IF b
                        THEN {c \in Case : /\ tc[c] = "RUN_FAILED"
                                           /\ c \in CasesOf(rec.todo \cup rec.marked)}
                        ELSE rec.written
<1>1. Snapshot(rec, b) = [rec EXCEPT !.bound = bound, !.leased = leased,
                                     !.written = written]
  BY DEF Snapshot
<1>2. \A c \in written : tc[c] = "RUN_FAILED" \/ c \in rec.written
  OBVIOUS
<1> HIDE DEF bound, leased, written
<1> QED
  BY <1>1, <1>2 DEF KillerRec

\* A new stop claims running reports, and knows of no case it need not write
\* but those that have failed.
LEMMA StopBegins ==
  ASSUME TypeInv, NEW k \in Killer, NEW R,
         StopCase(k) \/ StopExecution(k) \/ ScanTimeout(k, R)
  PROVE  /\ killer[k].pc = "idle" /\ killer'[k].pc = "mark"
         /\ killer'[k].todo \subseteq Running /\ killer'[k].marked = {}
         /\ \A c \in killer'[k].written : tc[c] = "RUN_FAILED"
         /\ UNCHANGED <<tc, report, lease>>
<1>1. ASSUME NEW rec \in KillerRec, NEW b, rec.pc = "mark", rec.marked = {},
             rec.written = {}, rec.todo \subseteq Running,
             killer' = [killer EXCEPT ![k] = Snapshot(rec, b)]
      PROVE  /\ killer'[k].pc = "mark" /\ killer'[k].todo \subseteq Running
             /\ killer'[k].marked = {}
             /\ \A c \in killer'[k].written : tc[c] = "RUN_FAILED"
  <2>1. killer'[k] = Snapshot(rec, b)
    BY <1>1 DEF TypeInv, TypeOK
  <2> QED
    BY <1>1, <2>1, SnapshotFields
<1>2. CASE StopCase(k)
  <2> DEFINE rec(c) == [Resting EXCEPT !.pc = "mark", !.todo = RunningOf(c)]
  <2>1. PICK c \in Case : killer' = [killer EXCEPT ![k] = Snapshot(rec(c), FALSE)]
    BY <1>2 DEF StopCase
  <2>2. RunningOf(c) \subseteq Running /\ RunningOf(c) \in SUBSET Report
    BY DEF RunningOf, Running
  <2>3. /\ rec(c) \in KillerRec /\ rec(c).pc = "mark" /\ rec(c).marked = {}
        /\ rec(c).written = {} /\ rec(c).todo \subseteq Running
    BY <2>2, RestingType DEF KillerRec, Resting
  <2> HIDE DEF rec
  <2>4. killer[k].pc = "idle" /\ UNCHANGED <<tc, report, lease>>
    BY <1>2 DEF StopCase
  <2> QED
    BY <1>1, <2>1, <2>3, <2>4
<1>3. CASE StopExecution(k)
  <2> DEFINE rec(r) == [Resting EXCEPT !.pc = "mark", !.todo = {r}, !.single = TRUE]
  <2>1. PICK r \in Running : killer' = [killer EXCEPT ![k] = Snapshot(rec(r), TRUE)]
    BY <1>3 DEF StopExecution
  <2>2. /\ rec(r) \in KillerRec /\ rec(r).pc = "mark" /\ rec(r).marked = {}
        /\ rec(r).written = {} /\ rec(r).todo \subseteq Running
    BY RestingType DEF KillerRec, Resting, Running
  <2> HIDE DEF rec
  <2>3. killer[k].pc = "idle" /\ UNCHANGED <<tc, report, lease>>
    BY <1>3 DEF StopExecution
  <2> QED
    BY <1>1, <2>1, <2>2, <2>3
<1>4. CASE ScanTimeout(k, R)
  <2> DEFINE rec == [Resting EXCEPT !.pc = "mark", !.todo = R]
  <2>1. /\ killer' = [killer EXCEPT ![k] = Snapshot(rec, TRUE)]
        /\ R \subseteq Running /\ R \in SUBSET Report
    BY <1>4 DEF ScanTimeout, Running
  <2>2. /\ rec \in KillerRec /\ rec.pc = "mark" /\ rec.marked = {}
        /\ rec.written = {} /\ rec.todo \subseteq Running
    BY <2>1, RestingType DEF KillerRec, Resting
  <2> HIDE DEF rec
  <2>3. killer[k].pc = "idle" /\ UNCHANGED <<tc, report, lease>>
    BY <1>4 DEF ScanTimeout
  <2> QED
    BY <1>1, <2>1, <2>2, <2>3
<1> QED
  BY <1>2, <1>3, <1>4

LEMMA KillerGotoMoves ==
  ASSUME TypeInv, NEW k \in Killer, NEW pc, KillerGoto(k, pc)
  PROVE  /\ killer'[k].pc = pc /\ killer'[k].todo = killer[k].todo
         /\ killer'[k].marked = killer[k].marked
         /\ killer'[k].written = killer[k].written
  BY DEF KillerGoto, TypeInv, TypeOK, KillerRec

\* The hidden commit in the middle of a stop: the leases of the report it is
\* at, and all it has written so far.
LEMMA StopReleases ==
  ASSUME TypeInv, NEW k \in Killer, StopRelease(k)
  PROVE  /\ k \in Stopper /\ killer[k].pc = "release"
         /\ killer'[k].pc = "remote" /\ killer'[k].todo = killer[k].todo
         /\ \/ /\ killer'[k].marked = killer[k].marked
               /\ killer'[k].written = killer[k].written
               /\ UNCHANGED <<tc, report, lease>>
            \/ /\ FailReports(k, killer[k].marked, TRUE)
               /\ killer'[k].marked = {}
               /\ \A c \in killer'[k].written :
                    \/ tc[c] = "RUN_FAILED"
                    \/ c \in killer[k].written \cup CasesOf(killer[k].marked)
               /\ \E r \in killer[k].todo : lease' = lease \ Leases(r)
<1> DEFINE rec == [killer[k] EXCEPT
             !.pc = "remote", !.marked = {}, !.sick = {},
             !.written = @ \cup CasesOf(killer[k].marked)]
<1>1. PICK r \in Report :
        /\ Target(k, r)
        /\ IF Found(k, r)
             THEN /\ lease' = lease \ Leases(r)
                  /\ FailReports(k, killer[k].marked, TRUE)
                  /\ killer' = [killer EXCEPT ![k] = Snapshot(rec, killer[k].single)]
             ELSE /\ KillerGoto(k, "remote")
                  /\ UNCHANGED <<tc, report, lease>>
  BY DEF StopRelease
<1>2. k \in Stopper /\ killer[k].pc = "release" /\ r \in killer[k].todo
  BY <1>1 DEF StopRelease, Target, FirstOf
<1>3. CASE ~Found(k, r)
  BY <1>1, <1>2, <1>3, KillerGotoMoves
<1>4. CASE Found(k, r)
  <2>1. killer[k] \in KillerRec /\ killer[k].marked \in SUBSET Report
    BY DEF TypeInv, TypeOK, KillerRec
  <2>2. CasesOf(killer[k].marked) \in SUBSET (Case \cup {NoCase})
    BY <2>1 DEF CasesOf, TypeInv, TypeOK, ReportRow
  <2>3. /\ rec \in KillerRec /\ rec.pc = "remote" /\ rec.todo = killer[k].todo
        /\ rec.marked = {}
        /\ rec.written = killer[k].written \cup CasesOf(killer[k].marked)
    BY <2>1, <2>2 DEF KillerRec
  <2>4. killer'[k] = Snapshot(rec, killer[k].single)
    BY <1>1, <1>4 DEF TypeInv, TypeOK
  <2> HIDE DEF rec
  <2>5. /\ killer'[k].pc = "remote" /\ killer'[k].todo = killer[k].todo
        /\ killer'[k].marked = {}
        /\ \A c \in killer'[k].written :
             \/ tc[c] = "RUN_FAILED"
             \/ c \in killer[k].written \cup CasesOf(killer[k].marked)
    BY <2>3, <2>4, SnapshotFields
  <2>6. /\ FailReports(k, killer[k].marked, TRUE)
        /\ \E t \in killer[k].todo : lease' = lease \ Leases(t)
    BY <1>1, <1>2, <1>4
  <2> QED
    BY <1>2, <2>5, <2>6
<1> QED
  BY <1>3, <1>4

\* After a report's engines a stop goes on to the next report, or to its end.
LEMMA StopRemotes ==
  ASSUME TypeInv, NEW k \in Killer, StopRemote(k)
  PROVE  /\ killer[k].pc = "remote" /\ UNCHANGED <<tc, report, lease>>
         /\ \E r \in killer[k].todo :
              /\ killer'[k].todo = killer[k].todo \ {r}
              /\ killer'[k].marked = killer[k].marked \cup {r}
              /\ killer'[k].pc = IF killer[k].todo = {r} THEN "finish" ELSE "mark"
         /\ \A c \in killer'[k].written :
              tc[c] = "RUN_FAILED" \/ c \in killer[k].written
<1> DEFINE rec(r, failed) ==
             [killer[k] EXCEPT
               !.pc = IF killer[k].todo = {r} THEN "finish" ELSE "mark",
               !.todo = @ \ {r}, !.marked = @ \cup {r}, !.sick = @ \cup failed]
<1>1. PICK r \in Report, failed \in SUBSET FlakyNode :
        /\ Target(k, r)
        /\ killer' = [killer EXCEPT ![k] = Reread(rec(r, failed))]
  BY DEF StopRemote
<1>2. /\ rec(r, failed) \in KillerRec
      /\ rec(r, failed).todo = killer[k].todo \ {r}
      /\ rec(r, failed).marked = killer[k].marked \cup {r}
      /\ rec(r, failed).pc = IF killer[k].todo = {r} THEN "finish" ELSE "mark"
      /\ rec(r, failed).written = killer[k].written
  <2>1. killer[k] \in KillerRec /\ failed \in SUBSET Node
    BY ExecutionAssumption DEF TypeInv, TypeOK
  <2> QED
    BY <2>1 DEF KillerRec
<1>3. killer'[k] = Reread(rec(r, failed)) /\ r \in killer[k].todo
  BY <1>1 DEF TypeInv, TypeOK, Target, FirstOf
<1>4. killer[k].pc = "remote" /\ UNCHANGED <<tc, report, lease>>
  BY DEF StopRemote
<1> HIDE DEF rec
<1> QED
  BY <1>2, <1>3, <1>4, SnapshotFields DEF Reread

\* The scanner's commit for one report.
LEMMA TimeoutCommits ==
  ASSUME TypeInv, NEW k \in Killer, TimeoutCommit(k)
  PROVE  /\ k \in Scanner /\ killer[k].pc = "release"
         /\ \E r \in killer[k].todo :
              /\ FailReports(k, {r}, FALSE)
              /\ lease' = lease \/ lease' = lease \ Leases(r)
              /\ killer'[k].todo = killer[k].todo \ {r}
              /\ \/ killer'[k] = Resting
                 \/ /\ killer'[k].pc = "mark"
                    /\ killer'[k].marked = killer[k].marked
                    /\ \A c \in killer'[k].written :
                         \/ tc[c] = "RUN_FAILED"
                         \/ c \in killer[k].written \cup CasesOf({r})
<1> DEFINE rec(r) == [killer[k] EXCEPT !.pc = "mark", !.todo = @ \ {r},
                        !.written = @ \cup CasesOf({r})]
<1>1. PICK r \in Report :
        /\ Target(k, r)
        /\ FailReports(k, {r}, FALSE)
        /\ lease' = IF Found(k, r) THEN lease \ Leases(r) ELSE lease
        /\ killer' = [killer EXCEPT ![k] =
             IF killer[k].todo = {r} THEN Resting ELSE Snapshot(rec(r), FALSE)]
  BY DEF TimeoutCommit
<1>2. /\ k \in Scanner /\ killer[k].pc = "release" /\ r \in killer[k].todo
      /\ killer'[k] = IF killer[k].todo = {r} THEN Resting
                                              ELSE Snapshot(rec(r), FALSE)
  BY <1>1 DEF TimeoutCommit, Target, FirstOf, TypeInv, TypeOK
<1>3. /\ rec(r) \in KillerRec /\ rec(r).pc = "mark"
      /\ rec(r).todo = killer[k].todo \ {r} /\ rec(r).marked = killer[k].marked
      /\ rec(r).written = killer[k].written \cup CasesOf({r})
  <2>1. killer[k] \in KillerRec /\ CasesOf({r}) \in SUBSET (Case \cup {NoCase})
    BY DEF CasesOf, TypeInv, TypeOK, ReportRow
  <2> QED
    BY <2>1 DEF KillerRec
<1> HIDE DEF rec
<1>4. lease' = lease \/ lease' = lease \ Leases(r)
  BY <1>1
<1>5. /\ Snapshot(rec(r), FALSE).pc = "mark"
      /\ Snapshot(rec(r), FALSE).todo = killer[k].todo \ {r}
      /\ Snapshot(rec(r), FALSE).marked = killer[k].marked
      /\ \A c \in Snapshot(rec(r), FALSE).written :
           tc[c] = "RUN_FAILED" \/ c \in killer[k].written \cup CasesOf({r})
  BY <1>3, SnapshotFields
<1>6. Resting.todo = {}
  BY DEF Resting
<1> QED
  BY <1>1, <1>2, <1>4, <1>5, <1>6

-----------------------------------------------------------------------------
(* A report row in use keeps its case and its nodes, a session launches the *)
(* report it made, and a stop works on reports that were made.              *)

RowsStay ==
    \A r \in Report : report[r].status # "none" =>
        /\ report'[r].status # "none"
        /\ report'[r].case = report[r].case
        /\ report'[r].nodes = report[r].nodes
LaunchersStay ==
    \A p \in Starter : session'[p].pc \in Launching =>
        /\ session[p].pc \in Launching
        /\ session'[p].pc = "bind" => session[p].pc = "bind"
        /\ session'[p].report = session[p].report
        /\ session'[p].queue = session[p].queue
        /\ session'[p].case = session[p].case
        /\ session'[p].nodes = session[p].nodes

LaunchesItsReport ==
    \A p \in Starter : session[p].pc \in Launching =>
        /\ report[session[p].report].case = session[p].case
        /\ report[session[p].report].nodes = session[p].nodes
ClaimsMadeReports ==
    \A k \in Killer : \A r \in Claimed(k) : report[r].status # "none"

LinkInv == LaunchesItsReport /\ ClaimsMadeReports

LEMMA StartFailedRows ==
  ASSUME TypeInv, NEW p, NEW S, FailStart(p, S)
  PROVE  RowsStay
  BY DEF FailStart, RowsStay, TypeInv, TypeOK, ReportRow

LEMMA FailReportsRows ==
  ASSUME TypeInv, NEW k, NEW R, NEW b, FailReports(k, R, b)
  PROVE  /\ RowsStay
         /\ \A r \in Report : report'[r].status = IF r \in R THEN "RUN_FAILED"
                                                  ELSE report[r].status
  BY DEF FailReports, RowsStay, TypeInv, TypeOK, ReportRow

LEMMA UnchangedRows == UNCHANGED report => RowsStay
  BY DEF RowsStay

LEMMA NextRowsStay ==
  ASSUME TypeInv, [Next]_vars
  PROVE  RowsStay
<1> USE UnchangedRows DEF dbRows, others, unseen, unmoved
<1>1. CASE UNCHANGED vars \/ \E n \in FlakyNode : NodeChanges(n)
  BY <1>1 DEF vars, NodeChanges
<1>2. CASE \E p \in Caller : RequestStep(p) \/ ReplyStep(p)
  BY <1>2, RequestMoves
<1>3. CASE \E d \in Dispatcher : DispatchStep(d)
  BY <1>3, DispatchMoves
<1>4. CASE \E p \in Starter : StartStep(p)
  <2>1. PICK p \in Starter : StartStep(p)
    BY <1>4
  <2>2. CASE AddReport(p)
    BY <2>2, AddReportMoves DEF RowsStay
  <2>3. CASE ~AddReport(p)
    <3>1. UNCHANGED report \/ \E S : FailStart(p, S)
      BY <2>1, <2>3, LaunchFailsWrites
         DEF StartStep, PrepareFails, MarkRunning, LeaseNodes, LeaseConflict,
             Launch, MarkStartFailed, StartFailed, ReleaseUnlaunched
    <3> QED
      BY <3>1, StartFailedRows
  <2> QED
    BY <2>2, <2>3
<1>5. CASE \E r \in Report : TaskStep(r) \/ OrphanExits(r)
  <2>1. PICK r \in Report : TaskStep(r) \/ OrphanExits(r)
    BY <1>5
  <2>2. CASE CommitResult(r)
    BY <2>2 DEF CommitResult, Verdict, RowsStay, TypeInv, TypeOK, ReportRow
  <2>3. CASE ~CommitResult(r)
    BY <2>1, <2>3 DEF TaskStep, OrphanExits, Spawn, SpawnFails, MarkRunRunning,
                      Exit, ReadReport, ReadRun, FinishRun, ReleaseLeases
  <2> QED
    BY <2>2, <2>3
<1>6. CASE \/ \E k \in Stopper : StopRequest(k)
           \/ \E k \in Scanner, expired \in SUBSET Report : ScanTimeout(k, expired)
           \/ \E k \in Killer : StopStep(k)
  BY <1>6, FailReportsRows
     DEF StopRequest, StopCase, StopCaseWithoutReport, StopExecution,
         ScanTimeout, StopStep, MarkRunStopping, KillProcess, StopRelease,
         StopRemote, StopFinish, TimeoutCommit
<1>7. CASE Crash \/ RecoverStep
  BY <1>7 DEF Crash, RecoverStep, StopLeftBehind, RecoverMark, RecoverKill,
              RecoverStop, RecoverRepair, RepairReports,
              RecoverLeases, RowsStay, Running, TypeInv, TypeOK, ReportRow
<1> QED
  BY <1>1, <1>2, <1>3, <1>4, <1>5, <1>6, <1>7 DEF Next

\* All but AddReport only take a launching session further, or end it.
LEMMA NextLaunchersStay ==
  ASSUME TypeInv, [Next]_vars, \A p \in Starter : ~AddReport(p)
  PROVE  LaunchersStay
<1> USE DEF BeforeTask, Launching, LaunchersStay
<1>1. CASE UNCHANGED session
  BY <1>1
<1>2. CASE \E p \in Caller : RequestStep(p) \/ ReplyStep(p)
  BY <1>2, RequestMoves DEF OthersStay
<1>3. CASE \E d \in Dispatcher : DispatchStep(d)
  BY <1>3, DispatchMoves DEF OthersStay
<1>4. ASSUME NEW p \in Starter, StartStep(p)
      PROVE  LaunchersStay
  <2>1. CASE PrepareFails(p) \/ LeaseConflict(p) \/ ReleaseUnlaunched(p)
    BY <2>1, EndSessionMoves
       DEF PrepareFails, LeaseConflict, ReleaseUnlaunched, OthersStay, Idle
  <2>2. CASE MarkRunning(p) \/ MarkStartFailed(p)
    BY <2>2, GotoMoves DEF MarkRunning, MarkStartFailed, OthersStay
  <2>5. CASE LaunchFails(p)
    BY <2>5, LaunchFailsWrites, GotoMoves DEF OthersStay
  <2>3. CASE LeaseNodes(p)
    BY <2>3, GotoMoves DEF LeaseNodes, OthersStay
  <2>4. CASE Launch(p)
    BY <2>4, GotoMoves, EndSessionMoves DEF Launch, OthersStay, Idle
  <2> QED
    BY <1>4, <2>1, <2>2, <2>3, <2>4, <2>5 DEF StartStep
<1>5. CASE Crash \/ RecoverStep
  BY <1>5 DEF Crash, RecoverStep, StopLeftBehind, RecoverMark, RecoverKill,
              RecoverStop, RecoverRepair, RecoverLeases, Idle
<1>6. CASE \/ UNCHANGED vars
           \/ \E n \in FlakyNode : NodeChanges(n)
           \/ \E r \in Report : OrphanExits(r)
  BY <1>1, <1>6 DEF vars, NodeChanges, OrphanExits
<1>7. CASE \E r \in Report : TaskStep(r)
  BY <1>1, <1>7, TaskMoves
<1>8. CASE \/ \E k \in Stopper : StopRequest(k)
           \/ \E k \in Scanner, expired \in SUBSET Report : ScanTimeout(k, expired)
           \/ \E k \in Killer : StopStep(k)
  BY <1>1, <1>8, StopMoves DEF Killer
<1> QED
  BY <1>2, <1>3, <1>4, <1>5, <1>6, <1>7, <1>8 DEF Next

LEMMA NextLaunchesItsReport ==
  ASSUME TypeInv, ProcessInv, LaunchesItsReport, [Next]_vars
  PROVE  LaunchesItsReport'
<1>0. RowsStay
  BY NextRowsStay
<1>1. \A p \in Starter : session[p].pc \in Launching =>
        session[p].report \in Report /\ report[session[p].report].status # "none"
  BY DEF TypeInv, Named, SessionNamed, ReportPC, BeforeTask, Launching, ProcessInv,
         FreshUntouched
<1>2. CASE \A p \in Starter : ~AddReport(p)
  BY <1>0, <1>1, <1>2, NextLaunchersStay DEF LaunchersStay, LaunchesItsReport, RowsStay
<1>3. ASSUME NEW p \in Starter, AddReport(p)
      PROVE  LaunchesItsReport'
  <2>1. /\ OthersStay(p) /\ session'[p].case = session[p].case
        /\ session'[p].nodes = session[p].nodes
        /\ report'[session'[p].report].case = session[p].case
        /\ report'[session'[p].report].nodes = session[p].nodes
    BY <1>3, AddReportMoves
  <2>2. \A o \in Starter \ {p} : session'[o].pc \in Launching =>
          /\ report'[session'[o].report].case = session'[o].case
          /\ report'[session'[o].report].nodes = session'[o].nodes
    BY <1>0, <1>1, <2>1 DEF LaunchesItsReport, RowsStay, OthersStay
  <2> QED
    BY <2>1, <2>2 DEF LaunchesItsReport
<1> QED
  BY <1>2, <1>3

LEMMA NextClaimsMadeReports ==
  ASSUME TypeInv, ClaimsMadeReports, [Next]_vars
  PROVE  ClaimsMadeReports'
<1>0. RowsStay
  BY NextRowsStay
<1>1. \A k \in Killer : Claimed(k) \subseteq Report
  BY DEF Claimed, TypeInv, TypeOK, KillerRec
<1>2. CASE \A k \in Killer : killer'[k] = killer[k]
  BY <1>0, <1>1, <1>2 DEF ClaimsMadeReports, Claimed, RowsStay
<1>3. CASE Crash
  BY <1>3 DEF Crash, ClaimsMadeReports, Claimed, Resting
<1>4. ASSUME NEW k \in Killer, NEW R,
             StopRequest(k) \/ ScanTimeout(k, R) \/ StopStep(k)
      PROVE  ClaimsMadeReports'
  <2>1. \A o \in Killer \ {k} : killer'[o] = killer[o]
    BY <1>4, StopMoves
  <2>2. \A r \in Claimed(k)' : r \in Claimed(k) \/ r \in Running
    <3>1. CASE StopCase(k) \/ StopExecution(k) \/ ScanTimeout(k, R)
      BY <3>1, StopBegins DEF Claimed
    <3>2. CASE StopCaseWithoutReport(k)
      BY <3>2 DEF StopCaseWithoutReport, Claimed
    <3>3. CASE MarkRunStopping(k) \/ KillProcess(k)
      BY <3>3, KillerGotoMoves DEF MarkRunStopping, KillProcess, Claimed
    <3>4. CASE StopRelease(k)
      BY <3>4, StopReleases DEF Claimed
    <3>5. CASE StopRemote(k)
      BY <3>5, StopRemotes DEF Claimed
    <3>6. CASE StopFinish(k)
      BY <3>6 DEF StopFinish, Claimed, Resting, TypeInv, TypeOK
    <3>7. CASE TimeoutCommit(k)
      <4>1. killer'[k] = Resting \/ killer'[k].marked = killer[k].marked
        BY <3>7, TimeoutCommits
      <4>2. killer'[k].todo \subseteq killer[k].todo
        BY <3>7, TimeoutCommits
      <4> QED
        BY <4>1, <4>2 DEF Claimed, Resting
    <3> QED
      BY <1>4, <3>1, <3>2, <3>3, <3>4, <3>5, <3>6, <3>7 DEF StopRequest, StopStep
  <2> QED
    BY <1>0, <1>1, <2>1, <2>2
       DEF ClaimsMadeReports, Claimed, RowsStay, Running
<1>5. CASE \E p \in Starter : StartStep(p)
  BY <1>2, <1>5 DEF StartStep, PrepareFails, MarkRunning, AddReport, LeaseNodes,
                    LeaseConflict, Launch, LaunchFails, MarkStartFailed, ReleaseUnlaunched, others
<1>6. CASE \/ UNCHANGED vars \/ RecoverStep
           \/ \E n \in FlakyNode : NodeChanges(n)
           \/ \E r \in Report : OrphanExits(r)
  BY <1>2, <1>6 DEF vars, NodeChanges, OrphanExits, RecoverStep,
                    StopLeftBehind, RecoverMark, RecoverKill, RecoverStop,
                    RecoverRepair, RecoverLeases
<1>7. CASE \/ \E p \in Caller : RequestStep(p) \/ ReplyStep(p)
           \/ \E d \in Dispatcher : DispatchStep(d)
           \/ \E r \in Report : TaskStep(r)
  BY <1>2, <1>7, RequestMoves, DispatchMoves, TaskMoves
<1> QED
  BY <1>3, <1>4, <1>5, <1>6, <1>7 DEF Next, Killer

-----------------------------------------------------------------------------
(* A test case shown as running is backed.  A running report whose end will *)
(* not write the case any more is settled: its task, or a stop, has read    *)
(* that the case need not be written.  The case is RUN_ING only while some  *)
(* report that is not settled runs, or a session has marked it and is about *)
(* to record its report.                                                    *)

Settled(r) ==
    \/ task[r].pc = "commit" /\ ~task[r].setCase
    \/ \E k \in Killer : r \in Claimed(k) /\ report[r].case \in killer[k].written
Backed(c) ==
    \/ \E r \in RunningOf(c) : ~Settled(r)
    \/ \E p \in Starter : session[p].pc = "marked" /\ session[p].case = c
CasesBacked == Up => \A c \in Case : tc[c] = "RUN_ING" => Backed(c)

\* What backed the case of r goes on, or the case is not RUN_ING any more.
StillBacks(r) ==
    \/ report[r].case \in Case => tc'[report[r].case] # "RUN_ING"
    \/ /\ report'[r].status = "RUN_ING" /\ report'[r].case = report[r].case
       /\ ~Settled(r)'

\* A step that marks no case, and leaves those marked backed as they were.
LEMMA BackingStays ==
  ASSUME CasesBacked, Up,
         \A c \in Case : tc'[c] = "RUN_ING" => tc[c] = "RUN_ING",
         \A p \in Starter : session[p].pc = "marked" =>
             session'[p].pc = "marked" /\ session'[p].case = session[p].case,
         \A r \in Running : ~Settled(r) => StillBacks(r)
  PROVE  CasesBacked'
<1> SUFFICES ASSUME NEW c \in Case, tc'[c] = "RUN_ING"
             PROVE  Backed(c)'
  BY DEF CasesBacked
<1>1. Backed(c)
  BY DEF CasesBacked
<1>2. CASE \E r \in RunningOf(c) : ~Settled(r)
  <2>1. PICK r \in RunningOf(c) : ~Settled(r)
    BY <1>2
  <2>2. r \in Running /\ r \in Report /\ report[r].case = c
    BY DEF RunningOf, Running
  <2>3. report'[r].status = "RUN_ING" /\ report'[r].case = c /\ ~Settled(r)'
    BY <2>1, <2>2 DEF StillBacks
  <2> QED
    BY <2>2, <2>3 DEF Backed, RunningOf, Running
<1>3. CASE \E p \in Starter : session[p].pc = "marked" /\ session[p].case = c
  BY <1>3 DEF Backed
<1> QED
  BY <1>1, <1>2, <1>3 DEF Backed

\* Whatever touches no report, no task and no stop settles nothing.
LEMMA SettledStays ==
  ASSUME UNCHANGED <<report, killer>>, NEW r \in Running, ~Settled(r),
         task'[r] = task[r] \/ task'[r].pc # "commit"
  PROVE  StillBacks(r)
  BY DEF StillBacks, Settled, Claimed, Running

LEMMA StartFailedBacks ==
  ASSUME TypeInv, LinkInv, NEW p \in Starter, NEW S, FailStart(p, S),
         session[p].pc \in Launching, UNCHANGED <<task, killer>>
  PROVE  /\ \A c \in Case : tc'[c] = "RUN_ING" => tc[c] = "RUN_ING"
         /\ \A r \in Running : ~Settled(r) => StillBacks(r)
<1>1. /\ session[p].case \in Case /\ session[p].report \in Report
      /\ report[session[p].report].case = session[p].case
  BY DEF TypeInv, Named, SessionNamed, ReportPC, BeforeTask, Launching, LinkInv,
         LaunchesItsReport
<1>2. tc' = [tc EXCEPT ![session[p].case] = "RUN_FAILED"]
  BY DEF FailStart, SetCase
<1>3. \A r \in Report \ {session[p].report} : report'[r] = report[r]
  BY DEF FailStart, TypeInv, TypeOK
<1>4. tc'[session[p].case] = "RUN_FAILED"
  BY <1>1, <1>2 DEF TypeInv, TypeOK
<1>5. \A c \in Case : tc'[c] = "RUN_ING" => tc[c] = "RUN_ING"
  BY <1>2 DEF TypeInv, TypeOK
<1> QED
  BY <1>1, <1>3, <1>4, <1>5 DEF StillBacks, Settled, Claimed, Running

LEMMA StartBacked ==
  ASSUME TypeInv, ProcessInv, LinkInv, CasesBacked, NEW p \in Starter, StartStep(p)
  PROVE  CasesBacked'
<1> USE DEF dbRows, others
<1>1. CASE PrepareFails(p) \/ LeaseNodes(p) \/ ReleaseUnlaunched(p)
  <2>1. /\ Up /\ OthersStay(p) /\ session[p].pc # "marked"
        /\ UNCHANGED <<tc, report, task, killer>>
    BY <1>1, GotoMoves, EndSessionMoves DEF PrepareFails, LeaseNodes, ReleaseUnlaunched
  <2> QED
    BY <2>1, SettledStays, BackingStays DEF OthersStay
<1>2. CASE MarkRunning(p)
  <2>1. /\ Up /\ OthersStay(p) /\ session[p].pc = "prepare"
        /\ session'[p].pc = "marked" /\ session'[p].case = session[p].case
        /\ UNCHANGED <<report, task, killer>>
    BY <1>2, GotoMoves DEF MarkRunning
  <2>2. \A c \in Case : c # session[p].case => tc'[c] = tc[c]
    BY <1>2 DEF MarkRunning, SetCase, TypeInv, TypeOK
  <2> SUFFICES ASSUME NEW c \in Case, tc'[c] = "RUN_ING", c # session[p].case
               PROVE  Backed(c)'
    BY <2>1 DEF CasesBacked, Backed
  <2>3. Backed(c)
    BY <2>1, <2>2 DEF CasesBacked
  <2>4. \A r \in Report : Settled(r)' => Settled(r)
    BY <2>1 DEF Settled, Claimed
  <2> QED
    BY <2>1, <2>3, <2>4 DEF Backed, RunningOf, Running, OthersStay
<1>3. CASE AddReport(p)
  <2>1. PICK n \in Report :
          /\ report[n].status = "none"
          /\ report'[n].status = "RUN_ING" /\ report'[n].case = session[p].case
          /\ \A r \in Report \ {n} : report'[r] = report[r]
    BY <1>3, AddReportMoves
  <2>2. Up /\ OthersStay(p) /\ UNCHANGED <<tc, task, killer>>
    BY <1>3, AddReportMoves
  <2>3. ~Settled(n)'
    BY <2>1, <2>2 DEF Settled, Claimed, LinkInv, ClaimsMadeReports, ProcessInv,
                FreshUntouched
  <2>4. \A r \in Running : r # n /\ report'[r] = report[r] /\ (Settled(r)' => Settled(r))
    BY <2>1, <2>2 DEF Running, Settled, Claimed
  <2> SUFFICES ASSUME NEW c \in Case, tc[c] = "RUN_ING"
               PROVE  Backed(c)'
    BY <2>1, <2>2 DEF CasesBacked
  <2>5. Backed(c)
    BY <2>1, <2>2 DEF CasesBacked
  <2>6. CASE session[p].case = c
    BY <2>1, <2>2, <2>3, <2>6 DEF Backed, RunningOf, Running
  <2>7. CASE session[p].case # c
    BY <2>1, <2>2, <2>4, <2>5, <2>7 DEF Backed, RunningOf, Running, OthersStay
  <2> QED
    BY <2>6, <2>7
<1>4. CASE LeaseConflict(p)
  <2>1. /\ Up /\ OthersStay(p) /\ session[p].pc = "lease" /\ StartFailed(p)
        /\ UNCHANGED <<task, killer>>
    BY <1>4, EndSessionMoves DEF LeaseConflict
  <2> QED
    BY <2>1, StartFailedBacks, BackingStays
       DEF OthersStay, BeforeTask, Launching, StartFailed
<1>5. CASE Launch(p)
  <2>1. /\ Up /\ OthersStay(p) /\ session[p].pc = "launch"
        /\ UNCHANGED <<tc, report, killer>>
        /\ task' = [task EXCEPT ![session[p].report] =
                      [NoTask EXCEPT !.pc = "created"]]
    BY <1>5, GotoMoves, EndSessionMoves DEF Launch
  <2>2. \A r \in Report : task'[r] = task[r] \/ task'[r].pc = "created"
    BY <2>1 DEF NoTask, TypeInv, TypeOK
  <2> QED
    BY <2>1, <2>2, SettledStays, BackingStays DEF OthersStay, Running
<1>6. CASE LaunchFails(p)
  <2>1. /\ Up /\ session[p].pc = "launch" /\ UNCHANGED <<task, killer>>
        /\ (\E S : FailStart(p, S)) \/ UNCHANGED <<tc, report>>
    BY <1>6, LaunchFailsWrites
  <2>2. OthersStay(p)
    BY <1>6, LaunchFailsWrites, GotoMoves
  <2> QED
    BY <2>1, <2>2, StartFailedBacks, SettledStays, BackingStays
       DEF OthersStay, BeforeTask, Launching
<1>7. CASE MarkStartFailed(p)
  <2>1. /\ Up /\ OthersStay(p) /\ session[p].pc = "failing" /\ StartFailed(p)
        /\ UNCHANGED <<task, killer>>
    BY <1>7, GotoMoves DEF MarkStartFailed
  <2> QED
    BY <2>1, StartFailedBacks, BackingStays DEF OthersStay, Launching, StartFailed
<1> QED
  BY <1>1, <1>2, <1>3, <1>4, <1>5, <1>6, <1>7 DEF StartStep

LEMMA TaskBacked ==
  ASSUME TypeInv, CasesBacked, NEW r \in Report, TaskStep(r)
  PROVE  CasesBacked'
<1>1. /\ Up /\ UNCHANGED <<session, killer>>
      /\ \A s \in Report \ {r} : task'[s] = task[s]
  BY TaskMoves
<1>2. task \in [Report -> TaskRec] /\ report \in [Report -> ReportRow]
      /\ tc \in [Case -> TestCaseStatus]
  BY DEF TypeInv, TypeOK
<1>3. CASE \/ Spawn(r) \/ SpawnFails(r) \/ MarkRunRunning(r) \/ Exit(r)
           \/ ReadRun(r) \/ FinishRun(r) \/ ReleaseLeases(r)
  <2>1. UNCHANGED <<tc, report>>
    BY <1>3 DEF Spawn, SpawnFails, MarkRunRunning, Exit, ReadRun, FinishRun,
                ReleaseLeases
  <2>2. task'[r].pc # "commit"
    <3>1. CASE \/ Spawn(r) \/ SpawnFails(r) \/ MarkRunRunning(r)
               \/ FinishRun(r) \/ ReleaseLeases(r)
      BY <1>2, <3>1, ZenonT(40) DEF Spawn, SpawnFails, MarkRunRunning, FinishRun,
                        ReleaseLeases, TaskGoto, TaskRec
    <3>2. CASE Exit(r)
      BY <1>2, <3>2 DEF Exit, TaskRec
    <3>3. CASE ReadRun(r)
      BY <1>2, <3>3 DEF ReadRun, TaskRec
    <3> QED
      BY <1>3, <3>1, <3>2, <3>3
  <2> QED
    BY <1>1, <2>1, <2>2, SettledStays, BackingStays DEF Running
<1>4. CASE ReadReport(r)
  <2>1. UNCHANGED <<tc, report>>
    BY <1>4 DEF ReadReport
  <2>2. \/ task'[r].pc # "commit"
        \/ task'[r].setCase
        \/ tc[report[r].case] # "RUN_ING"
    BY <1>2, <1>4, ZenonT(40) DEF ReadReport, TaskGoto, TaskRec, Verdict
  <2>3. ASSUME NEW s \in Running, ~Settled(s)
        PROVE  StillBacks(s)
    BY <1>1, <2>1, <2>2, <2>3 DEF StillBacks, Settled, Claimed, Running
  <2> QED
    BY <1>1, <2>1, <2>3, BackingStays
<1>5. CASE CommitResult(r)
  <2>1. /\ task[r].pc = "commit"
        /\ tc' = IF task[r].setCase
                   THEN [tc EXCEPT ![report[r].case] = Verdict(r)] ELSE tc
        /\ report' = [report EXCEPT ![r].status = Verdict(r)]
    BY <1>5 DEF CommitResult, SetCase
  <2>2. Verdict(r) # "RUN_ING"
    BY DEF Verdict
  <2>3. \A c \in Case : tc'[c] = "RUN_ING" => tc[c] = "RUN_ING"
    BY <1>2, <2>1, <2>2
  <2>4. ASSUME NEW s \in Running, ~Settled(s)
        PROVE  StillBacks(s)
    <3>1. CASE s = r
      <4>1. report[r].case \in Case => tc'[report[r].case] # "RUN_ING"
        BY <1>2, <2>1, <2>2, <2>4, <3>1 DEF Settled
      <4> QED
        BY <3>1, <4>1 DEF StillBacks
    <3>2. CASE s # r
      <4>1. s \in Report /\ report[s].status = "RUN_ING" /\ report'[s] = report[s]
        BY <1>2, <2>1, <3>2 DEF Running
      <4> QED
        BY <1>1, <2>4, <3>2, <4>1 DEF StillBacks, Settled, Claimed
    <3> QED
      BY <3>1, <3>2
  <2> QED
    BY <1>1, <2>3, <2>4, BackingStays
<1> QED
  BY <1>3, <1>4, <1>5 DEF TaskStep

\* A stop settles a report only when it writes the case, or has found it failed.
LEMMA KillerBacks ==
  ASSUME CasesBacked, Up, UNCHANGED <<session, task>>, NEW k \in Killer,
         \A o \in Killer \ {k} : killer'[o] = killer[o],
         \A c \in Case : tc'[c] = "RUN_ING" => tc[c] = "RUN_ING",
         \A r \in Running : ~Settled(r) =>
             \/ report[r].case \in Case => tc'[report[r].case] # "RUN_ING"
             \/ /\ report'[r] = report[r]
                /\ r \in Claimed(k)' => r \in Claimed(k)
                /\ r \in Claimed(k)' => report[r].case \notin killer'[k].written
  PROVE  CasesBacked'
<1>1. ASSUME NEW r \in Running, ~Settled(r)
      PROVE  StillBacks(r)
  BY <1>1 DEF StillBacks, Settled, Claimed, Running
<1> QED
  BY <1>1, BackingStays

LEMMA FailReportsEffect ==
  ASSUME TypeInv, NEW k \in Killer, NEW R \in SUBSET Report, NEW b, FailReports(k, R, b)
  PROVE  /\ \A c \in Case : tc'[c] = IF c \in CasesOf(R) \ killer[k].written
                                       THEN "RUN_FAILED" ELSE tc[c]
         /\ \A r \in Report \ R : report'[r] = report[r]
  BY DEF FailReports, TypeInv, TypeOK

LEMMA StopBacked ==
  ASSUME TypeInv, CasesBacked, NEW k \in Killer, NEW E,
         StopRequest(k) \/ ScanTimeout(k, E) \/ StopStep(k)
  PROVE  CasesBacked'
<1>1. /\ Up /\ UNCHANGED <<session, task>>
      /\ \A o \in Killer \ {k} : killer'[o] = killer[o]
  BY StopMoves
<1>2. killer[k].todo \in SUBSET Report /\ killer[k].marked \in SUBSET Report
  BY DEF TypeInv, TypeOK, KillerRec
<1>3. CASE StopCase(k) \/ StopExecution(k) \/ ScanTimeout(k, E)
  <2>1. /\ \A c \in killer'[k].written : tc[c] = "RUN_FAILED"
        /\ killer'[k].todo \subseteq Running /\ killer'[k].marked = {}
        /\ UNCHANGED <<tc, report>>
    BY <1>3, StopBegins
  <2>2. ASSUME NEW r \in Running, ~Settled(r)
        PROVE  StillBacks(r)
    BY <1>1, <2>1, <2>2 DEF StillBacks, Settled, Claimed, Running
  <2> QED
    BY <1>1, <2>1, <2>2, BackingStays
<1>4. CASE StopCaseWithoutReport(k)
  <2>1. UNCHANGED <<report, killer>> /\ \A c \in Case : tc'[c] = "RUN_ING" => tc[c] = "RUN_ING"
    BY <1>4 DEF StopCaseWithoutReport, SetCase, TypeInv, TypeOK
  <2> QED
    BY <1>1, <2>1, SettledStays, BackingStays
<1>5. CASE MarkRunStopping(k) \/ KillProcess(k)
  <2>1. /\ UNCHANGED <<tc, report>> /\ killer'[k].todo = killer[k].todo
        /\ killer'[k].marked = killer[k].marked
        /\ killer'[k].written = killer[k].written
    BY <1>5, KillerGotoMoves DEF MarkRunStopping, KillProcess
  <2> QED
    BY <1>1, <2>1, KillerBacks DEF Claimed, Settled
<1>6. CASE StopRelease(k)
  <2>1. CASE /\ killer'[k].marked = killer[k].marked
             /\ killer'[k].written = killer[k].written
             /\ UNCHANGED <<tc, report, lease>>
    <3>1. killer'[k].todo = killer[k].todo
      BY <1>6, StopReleases
    <3> QED
      BY <1>1, <2>1, <3>1, KillerBacks DEF Claimed, Settled
  <2>2. CASE /\ FailReports(k, killer[k].marked, TRUE)
             /\ killer'[k].marked = {}
             /\ \A c \in killer'[k].written :
                  \/ tc[c] = "RUN_FAILED"
                  \/ c \in killer[k].written \cup CasesOf(killer[k].marked)
    <3>1. killer'[k].todo = killer[k].todo
      BY <1>6, StopReleases
    <3>2. /\ \A c \in Case : tc'[c] = IF c \in CasesOf(killer[k].marked) \ killer[k].written
                                        THEN "RUN_FAILED" ELSE tc[c]
          /\ \A r \in Report \ killer[k].marked : report'[r] = report[r]
      BY <1>2, <2>2, FailReportsEffect
    <3>3. ASSUME NEW r \in Running, ~Settled(r), r \in killer[k].marked
          PROVE  report[r].case \in Case => tc'[report[r].case] # "RUN_ING"
      BY <3>2, <3>3 DEF Settled, Claimed, CasesOf
    <3>4. ASSUME NEW r \in Running, ~Settled(r), r \notin killer[k].marked,
                 r \in Claimed(k)', report[r].case \in killer'[k].written
          PROVE  report[r].case \in Case => tc'[report[r].case] # "RUN_ING"
      BY <2>2, <3>1, <3>2, <3>4 DEF Settled, Claimed
    <3> QED
      BY <1>1, <2>2, <3>1, <3>2, <3>3, <3>4, KillerBacks DEF Claimed, Running
  <2> QED
    BY <1>6, <2>1, <2>2, StopReleases
<1>7. CASE StopRemote(k)
  <2>1. /\ UNCHANGED <<tc, report>> /\ Claimed(k)' = Claimed(k)
        /\ \A c \in killer'[k].written :
             tc[c] = "RUN_FAILED" \/ c \in killer[k].written
    BY <1>7, StopRemotes DEF Claimed
  <2>2. ASSUME NEW r \in Running, ~Settled(r), r \in Claimed(k)',
               report[r].case \in killer'[k].written
        PROVE  tc'[report[r].case] # "RUN_ING"
    BY <2>1, <2>2 DEF Settled
  <2> QED
    BY <1>1, <2>1, <2>2, KillerBacks
<1>8. CASE StopFinish(k)
  <2>1. FailReports(k, killer[k].marked, TRUE) /\ Claimed(k)' = {}
    BY <1>8 DEF StopFinish, Claimed, Resting, TypeInv, TypeOK
  <2>2. /\ \A c \in Case : tc'[c] = IF c \in CasesOf(killer[k].marked) \ killer[k].written
                                      THEN "RUN_FAILED" ELSE tc[c]
        /\ \A r \in Report \ killer[k].marked : report'[r] = report[r]
    BY <1>2, <2>1, FailReportsEffect
  <2>3. ASSUME NEW r \in Running, ~Settled(r), r \in killer[k].marked
        PROVE  report[r].case \in Case => tc'[report[r].case] # "RUN_ING"
    BY <2>2, <2>3 DEF Settled, Claimed, CasesOf
  <2> QED
    BY <1>1, <2>1, <2>2, <2>3, KillerBacks DEF Running
<1>9. CASE TimeoutCommit(k)
  <2>1. PICK t \in killer[k].todo :
          /\ FailReports(k, {t}, FALSE)
          /\ killer'[k].todo = killer[k].todo \ {t}
          /\ \/ killer'[k] = Resting
             \/ /\ killer'[k].marked = killer[k].marked
                /\ \A c \in killer'[k].written :
                     \/ tc[c] = "RUN_FAILED"
                     \/ c \in killer[k].written \cup CasesOf({t})
    BY <1>9, TimeoutCommits
  <2>2. /\ \A c \in Case : tc'[c] = IF c \in CasesOf({t}) \ killer[k].written
                                      THEN "RUN_FAILED" ELSE tc[c]
        /\ \A r \in Report \ {t} : report'[r] = report[r]
    <3>1. {t} \in SUBSET Report
      BY <1>2
    <3> QED
      BY <2>1, <3>1, FailReportsEffect
  <2>3. ~Settled(t) => (report[t].case \in Case => tc'[report[t].case] # "RUN_ING")
    BY <2>1, <2>2 DEF Settled, Claimed, CasesOf
  <2>4. Claimed(k)' \subseteq Claimed(k)
    BY <2>1 DEF Claimed, Resting
  <2>5. ASSUME NEW r \in Running, ~Settled(r), r # t, r \in Claimed(k)',
               report[r].case \in killer'[k].written
        PROVE  report[r].case \in Case => tc'[report[r].case] # "RUN_ING"
    <3>1. killer'[k].written = {} \/
          report[r].case \in killer[k].written \cup CasesOf({t}) \/
          tc[report[r].case] = "RUN_FAILED"
      BY <2>1, <2>5, SMTT(30) DEF Resting
    <3> QED
      BY <2>2, <2>4, <2>5, <3>1 DEF Settled
  <2> QED
    BY <1>1, <2>2, <2>3, <2>4, <2>5, KillerBacks DEF Running
<1> QED
  BY <1>3, <1>4, <1>5, <1>6, <1>7, <1>8, <1>9 DEF StopRequest, StopStep

LEMMA NextCasesBacked ==
  ASSUME TypeInv, ProcessInv, RepairedInv, LinkInv, CasesBacked, [Next]_vars
  PROVE  CasesBacked'
<1>1. CASE UNCHANGED vars \/ \E n \in FlakyNode : NodeChanges(n)
  BY <1>1 DEF vars, NodeChanges, dbRows, CasesBacked, Backed, RunningOf, Running,
              Settled, Claimed, Up
<1>2. CASE \E p \in Caller : RequestStep(p) \/ ReplyStep(p)
  BY <1>2, RequestMoves, SettledStays, BackingStays DEF OthersStay
<1>3. CASE \E d \in Dispatcher : DispatchStep(d)
  <2>1. PICK d \in Dispatcher : DispatchStep(d)
    BY <1>3
  <2>2. /\ Up /\ UNCHANGED <<report, task, killer>> /\ OthersStay(d)
        /\ session[d].pc # "marked"
        /\ \A c \in Case : tc'[c] = "RUN_ING" => tc[c] = "RUN_ING"
    BY <2>1, DispatchMoves
  <2> QED
    BY <2>2, SettledStays, BackingStays DEF OthersStay
<1>4. CASE \/ \E k \in Stopper : StopRequest(k)
           \/ \E k \in Scanner, expired \in SUBSET Report : ScanTimeout(k, expired)
           \/ \E k \in Killer : StopStep(k)
  BY <1>4, StopBacked DEF Killer
<1>5. CASE Crash \/ RecoverStep
  BY <1>5 DEF Crash, RecoverStep, StopLeftBehind, RecoverMark, RecoverKill,
              RecoverStop, RecoverRepair, RecoverLeases,
              CasesBacked, RepairedInv, Up
<1>6. CASE \E r \in Report : OrphanExits(r)
  BY <1>6 DEF OrphanExits, CasesBacked, Up
<1> QED
  BY <1>1, <1>2, <1>3, <1>4, <1>5, <1>6, StartBacked, TaskBacked DEF Next

LEMMA SpecLinkInv == Spec => []LinkInv
<1>1. Init => LinkInv
  BY DEF Init, LinkInv, LaunchesItsReport, ClaimsMadeReports, Claimed, Idle,
         Resting, BeforeTask, Launching
<1>2. TypeInv /\ ProcessInv /\ LinkInv /\ [Next]_vars => LinkInv'
  BY NextLaunchesItsReport, NextClaimsMadeReports DEF LinkInv
<1> QED
  BY <1>1, <1>2, SpecProcessInv, PTL DEF Spec

\* A test case shown as running has a running report, or a coroutine about to
\* record one: it is never stuck in RUN_ING, which every start refuses, though
\* a stop and a background task may both leave the write of it to the other
\* (_update_testcase_and_report, stop_testcase, the timeout scanner).
THEOREM RunningCasesBacked == Spec => []RunningCaseBacked
<1>1. Init => CasesBacked
  BY DEF Init, CasesBacked
<1>2. TypeInv /\ ProcessInv /\ RepairedInv /\ LinkInv /\ CasesBacked /\ [Next]_vars
        => CasesBacked'
  BY NextCasesBacked
<1>3. CasesBacked => RunningCaseBacked
  BY DEF CasesBacked, RunningCaseBacked, Backed
<1> QED
  BY <1>1, <1>2, <1>3, SpecRepairedInv, SpecLinkInv, PTL DEF Spec
=============================================================================
