-------------------------- MODULE ExecutionProofs --------------------------
(***************************************************************************)
(* Theorems about module Execution, for every value of its constants: the  *)
(* types of its rows and coroutines, and its leases.                       *)
(***************************************************************************)
EXTENDS Execution, TLAPS

-----------------------------------------------------------------------------
(* Type correctness.  A queue row or a report in use and a busy session name a *)
(* test case: without this the status they read would have no type.           *)

ReportPC == {"bind", "lease", "launch", "failing", "release", "confirm"}

\* The queue rows that have a test case.
Held == {q \in Queue : queue[q].case \in Case}

RowsNamed ==
    \A q \in Queue : queue[q].status # "none" \/ queue[q].report # 0 => q \in Held
SessionNamed(s) ==
    /\ s.pc # "idle" => s.case \in Case
    /\ s.pc \in ReportPC => s.report \in Report
    /\ s.queue # 0 => s.queue \in Held
Named ==
    /\ RowsNamed
    /\ \A p \in Starter : SessionNamed(session[p])
    /\ \A r \in Report : task[r].setQueue \subseteq Held

TypeInv == TypeOK /\ Named

(* First what the shared operators preserve. *)

\* The rows and records a coroutine starts from are of their types.
LEMMA InitType == Init => TypeOK
  BY ExecutionAssumption
     DEF Init, TypeOK, ReportRow, NoReport, QueueRow, NoQueue, RegionArg,
         SessionRec, Idle, StarterPC, TaskRec, NoTask, KillerRec, Resting,
         TestCaseStatus, RunStatus, Report, Queue

LEMMA IdleType == Idle \in SessionRec
  BY ExecutionAssumption DEF Idle, SessionRec, StarterPC, RegionArg, TestCaseStatus

\* EndSession and Goto move one session and keep the types (RunStart).
LEMMA EndSessionType ==
  ASSUME TypeOK, NEW p \in Starter, EndSession(p)
  PROVE  session' \in [Starter -> SessionRec] /\ todo' \in SUBSET Queue
  BY IdleType DEF TypeOK, EndSession

LEMMA GotoType ==
  ASSUME TypeOK, NEW p \in Starter, NEW pc \in StarterPC, Goto(p, pc)
  PROVE  session' \in [Starter -> SessionRec]
  BY DEF TypeOK, Goto, SessionRec

\* AddReport gives a session its report.
LEMMA ReportedSessionType ==
  ASSUME NEW s \in SessionRec, NEW pc \in StarterPC, NEW r \in 0 .. MaxReport,
         NEW view \in SUBSET Node
  PROVE  [s EXCEPT !.pc = pc, !.report = r, !.view = view] \in SessionRec
  BY DEF SessionRec

LEMMA SetCaseType ==
  ASSUME TypeOK, NEW c, NEW s \in TestCaseStatus, SetCase(c, s)
  PROVE  tc' \in [Case -> TestCaseStatus]
  BY DEF TypeOK, SetCase

\* _run_testcase_now chooses among the nodes.
LEMMA ChoicesType ==
  ASSUME NEW c, NEW g, NEW count, NEW h, NEW nodes \in Choices(c, g, count, h)
  PROVE  nodes \in SUBSET Node
  BY DEF Choices, Available

LEMMA BeginType ==
  ASSUME TypeOK, NEW p \in Starter, NEW c \in Case, NEW g \in RegionArg,
         NEW nodes \in SUBSET Node, NEW isDebug \in BOOLEAN,
         Begin(p, c, g, nodes, isDebug)
  PROVE  TypeOK'
<1> DEFINE rec == [Idle EXCEPT !.pc = "prepare", !.case = c, !.region = g,
                     !.nodes = nodes, !.tcSeen = tc[c], !.debug = isDebug]
<1>1. tc[c] \in TestCaseStatus
  BY DEF TypeOK
<1>2. rec \in SessionRec
  BY <1>1, IdleType DEF SessionRec, StarterPC
<1>3. session' \in [Starter -> SessionRec]
  BY <1>2 DEF Begin, TypeOK
<1> QED
  BY <1>3 DEF Begin, TypeOK, dbRows, others

\* FailStart fails a report, its test case and some queue rows.
LEMMA FailStartType ==
  ASSUME TypeOK, NEW p \in Starter, NEW S, FailStart(p, S)
  PROVE  /\ tc' \in [Case -> TestCaseStatus]
         /\ report' \in [Report -> ReportRow]
         /\ queue' \in [Queue -> QueueRow]
<1>1. tc' \in [Case -> TestCaseStatus]
  BY SetCaseType DEF FailStart, TestCaseStatus
<1>2. report' \in [Report -> ReportRow]
  <2>1. \A r \in Report :
          [report[r] EXCEPT !.status = "RUN_FAILED"] \in ReportRow
    BY DEF TypeOK, ReportRow
  <2> QED
    BY <2>1 DEF FailStart, TypeOK
<1>3. \A q \in Queue : [queue[q] EXCEPT !.status = "failed"] \in QueueRow
  BY DEF TypeOK, QueueRow
<1>4. queue' \in [Queue -> QueueRow]
  BY <1>3 DEF FailStart, TypeOK
<1> QED
  BY <1>1, <1>2, <1>4

LEMMA StartFailedType ==
  ASSUME TypeOK, NEW p \in Starter, StartFailed(p)
  PROVE  /\ tc' \in [Case -> TestCaseStatus]
         /\ report' \in [Report -> ReportRow]
         /\ queue' \in [Queue -> QueueRow]
  BY FailStartType DEF StartFailed

\* The first of the two commits after a failed launch: some rows of the report,
\* or nothing.
LEMMA LaunchFailsWrites ==
  ASSUME NEW p, LaunchFails(p)
  PROVE  /\ Up /\ session[p].pc = "launch"
         /\ \/ UNCHANGED <<tc, report, queue>>
            \/ \E S \in SUBSET QueuesOf(session[p].report) : FailStart(p, S)
         /\ Goto(p, "release") \/ Goto(p, "failing")
         /\ UNCHANGED <<lease, run, todo, task, others>>
<1> DEFINE S == {q \in QueuesOf(session[p].report) : queue[q].status = "running"}
<1>1. FailStart(p, S) \/ UNCHANGED <<tc, report, queue>>
  BY DEF LaunchFails
<1>2. S \in SUBSET QueuesOf(session[p].report)
  OBVIOUS
<1> HIDE DEF S
<1>3. Goto(p, "release") \/ Goto(p, "failing")
  BY DEF LaunchFails
<1> QED
  BY <1>1, <1>2, <1>3 DEF LaunchFails

-----------------------------------------------------------------------------
(* Type correctness: one step per action. *)

LEMMA RequestType ==
  ASSUME TypeInv, NEW p \in Caller, RequestStep(p) \/ ReplyStep(p)
  PROVE  TypeOK'
<1> USE DEF dbRows, others
<1> USE DEF TypeInv
<1>0. p \in Starter
  BY DEF Starter
<1>1. CASE RequestRun(p)
  <2>1. PICK c \in Case, param \in RunParams :
          \E nodes \in Choices(c, param.region, param.count, FALSE) :
            Begin(p, c, param.region, nodes, FALSE)
    BY <1>1 DEF RequestRun
  <2>2. param.region \in RegionArg
    BY ExecutionAssumption
  <2> QED
    BY <1>0, <2>1, <2>2, ChoicesType, BeginType
<1>2. CASE RequestLegacyRun(p)
  <2>1. PICK c \in Case :
          \E nodes \in Choices(c, AnyRegion, 0, TRUE) :
            Begin(p, c, AnyRegion, nodes, FALSE)
    BY <1>2 DEF RequestLegacyRun
  <2> QED
    BY <1>0, <2>1, ChoicesType, BeginType DEF RegionArg
<1>3. CASE RequestDebug(p)
  BY <1>0, <1>3, BeginType DEF RequestDebug, RegionArg
<1>4. CASE RequestQueuedRun(p)
  <2>1. PICK c \in Case, param \in RunParams :
          session' = [session EXCEPT ![p] =
                       [Idle EXCEPT !.pc = "enqueue", !.case = c,
                                    !.region = param.region,
                                    !.count = param.count, !.tcSeen = tc[c]]]
    BY <1>4 DEF RequestQueuedRun
  <2>2. param.region \in RegionArg /\ param.count \in Nat /\ tc[c] \in TestCaseStatus
    BY ExecutionAssumption DEF TypeOK
  <2>3. session' \in [Starter -> SessionRec]
    BY <2>1, <2>2, IdleType DEF TypeOK, SessionRec, StarterPC
  <2> QED
    BY <1>4, <2>3 DEF RequestQueuedRun, TypeOK
<1>5. CASE RequestCancel(p)
  <2>1. PICK q \in Queue :
          /\ queue[q].status = "pending"
          /\ session' = [session EXCEPT ![p] =
                          [Idle EXCEPT !.pc = "cancel", !.queue = q,
                                       !.case = queue[q].case,
                                       !.tcSeen = tc[queue[q].case]]]
    BY <1>5 DEF RequestCancel
  <2>2. /\ queue[q].case \in Case /\ q \in 0 .. MaxQueue
        /\ tc[queue[q].case] \in TestCaseStatus
    BY <2>1, ExecutionAssumption DEF TypeOK, Named, RowsNamed, Held, Queue
  <2>3. session' \in [Starter -> SessionRec]
    BY <2>1, <2>2, IdleType DEF TypeOK, SessionRec, StarterPC
  <2> QED
    BY <1>5, <2>3 DEF RequestCancel, TypeOK
<1>6. CASE Enqueue(p)
  <2>1. tc' \in [Case -> TestCaseStatus]
    BY <1>6, SetCaseType DEF Enqueue, TypeOK, TestCaseStatus
  <2>2. queue' \in [Queue -> QueueRow]
    BY <1>0, <1>6, ExecutionAssumption DEF Enqueue, TypeOK, QueueRow, SessionRec
  <2> QED
    BY <1>0, <1>6, <2>1, <2>2, EndSessionType DEF Enqueue, TypeOK
<1>7. CASE Cancel(p)
  <2>1. tc' \in [Case -> TestCaseStatus]
    BY <1>7, SetCaseType DEF Cancel, TypeOK, TestCaseStatus
  <2>2. queue' \in [Queue -> QueueRow]
    <3>1. \A q \in Queue :
            [queue[q] EXCEPT !.status = "canceled"] \in QueueRow
      BY DEF TypeOK, QueueRow
    <3> QED
      BY <1>7, <3>1 DEF Cancel, TypeOK
  <2> QED
    BY <1>0, <1>7, <2>1, <2>2, IdleType DEF Cancel, TypeOK
<1> QED
  BY <1>1, <1>2, <1>3, <1>4, <1>5, <1>6, <1>7 DEF RequestStep, ReplyStep

LEMMA DispatchType ==
  ASSUME TypeInv, NEW d \in Dispatcher, DispatchStep(d)
  PROVE  TypeOK'
<1> USE DEF dbRows, others, TypeInv
<1>0. d \in Starter
  BY DEF Starter
<1>1. CASE Scan(d) \/ AbortScan(d) \/ SkipRow(d)
  BY <1>1 DEF Scan, AbortScan, SkipRow, TypeOK
<1>2. CASE StartRow(d)
  <2>1. PICK q \in Queue :
          /\ queue[q].status = "pending"
          /\ session' = [session EXCEPT ![d] =
                          [Idle EXCEPT !.pc = "claim", !.queue = q,
                                       !.case = queue[q].case,
                                       !.region = queue[q].region,
                                       !.count = queue[q].count,
                                       !.tcSeen = tc[queue[q].case]]]
    BY <1>2 DEF StartRow
  <2>2. /\ queue[q].case \in Case /\ q \in 0 .. MaxQueue
        /\ tc[queue[q].case] \in TestCaseStatus
        /\ queue[q].region \in RegionArg /\ queue[q].count \in Nat
    BY <2>1, ExecutionAssumption
       DEF TypeOK, Named, RowsNamed, Held, Queue, QueueRow
  <2>3. session' \in [Starter -> SessionRec]
    BY <2>1, <2>2, IdleType DEF TypeOK, SessionRec, StarterPC
  <2> QED
    BY <1>2, <2>3 DEF StartRow, TypeOK
<1>3. ASSUME NEW s \in {"running", "failed", "success"}
      PROVE  \A q \in Queue : [queue[q] EXCEPT !.status = s] \in QueueRow
  BY DEF TypeOK, QueueRow
<1>4. CASE Claim(d)
  <2>1. queue' \in [Queue -> QueueRow]
    BY <1>3, <1>4 DEF Claim, TypeOK
  <2>2. session' \in [Starter -> SessionRec] /\ todo' \in SUBSET Queue
    BY <1>0, <1>4, EndSessionType, GotoType DEF Claim, TypeOK, StarterPC
  <2> QED
    BY <1>4, <2>1, <2>2 DEF Claim, TypeOK
<1>5. CASE Select(d)
  <2>1. PICK nodes \in SUBSET Node :
          session' = [session EXCEPT ![d] =
                        [@ EXCEPT !.pc = "prepare", !.nodes = nodes]]
    <3>1. SelectChoices(d) \subseteq SUBSET Node
      BY ChoicesType DEF SelectChoices
    <3> QED
      BY <1>5, <3>1 DEF Select
  <2>2. [session[d] EXCEPT !.pc = "prepare", !.nodes = nodes] \in SessionRec
    <3>1. session[d] \in SessionRec
      BY <1>0 DEF TypeOK
    <3> QED
      BY <3>1 DEF SessionRec, StarterPC
  <2>3. session' \in [Starter -> SessionRec]
    BY <2>1, <2>2 DEF TypeOK
  <2> QED
    BY <1>5, <2>3 DEF Select, TypeOK
<1>6. CASE SelectRefused(d)
  BY <1>0, <1>6, EndSessionType DEF SelectRefused, TypeOK
<1>7. CASE PrepareBreaks(d)
  <2>1. queue' \in [Queue -> QueueRow]
    BY <1>3, <1>7 DEF PrepareBreaks, TypeOK
  <2>2. tc' \in [Case -> TestCaseStatus]
    BY <1>7, SetCaseType DEF PrepareBreaks, TypeOK, TestCaseStatus
  <2> QED
    BY <1>0, <1>7, <2>1, <2>2, EndSessionType DEF PrepareBreaks, TypeOK
<1>8. CASE BindQueue(d)
  <2>1. \A q \in Queue :
          [queue[q] EXCEPT !.report = session[d].report] \in QueueRow
    BY <1>0 DEF TypeOK, QueueRow, SessionRec
  <2>2. queue' \in [Queue -> QueueRow]
    BY <2>1, <1>8 DEF BindQueue, TypeOK
  <2> QED
    BY <1>0, <1>8, <2>2, GotoType DEF BindQueue, TypeOK, StarterPC
<1>9. CASE ConfirmStart(d)
  <2>1. queue' \in [Queue -> QueueRow]
    BY <1>3, <1>9 DEF ConfirmStart, TypeOK
  <2> QED
    BY <1>0, <1>9, <2>1, EndSessionType DEF ConfirmStart, TypeOK
<1> QED
  BY <1>1, <1>2, <1>4, <1>5, <1>6, <1>7, <1>8, <1>9 DEF DispatchStep

LEMMA StartType ==
  ASSUME TypeInv, NEW p \in Starter, StartStep(p)
  PROVE  TypeOK'
<1> USE DEF dbRows, others, TypeInv
<1>1. CASE PrepareFails(p)
  BY <1>1, EndSessionType DEF PrepareFails, TypeOK
<1>2. CASE MarkRunning(p)
  <2>1. tc' \in [Case -> TestCaseStatus]
    BY <1>2, SetCaseType DEF MarkRunning, TypeOK, TestCaseStatus
  <2> QED
    BY <1>2, <2>1, GotoType DEF MarkRunning, TypeOK, StarterPC
<1>3. CASE AddReport(p)
  <2> DEFINE rec(r) == [session[p] EXCEPT
         !.pc = IF session[p].queue = 0 THEN "lease" ELSE "bind",
         !.report = r,
         !.view = IF SnapshotReads
                    THEN session[p].nodes \cap LeasedNodes ELSE {}]
  <2>1. PICK r \in Report :
          /\ report' = [report EXCEPT ![r] =
                          [status |-> "RUN_ING", case |-> session[p].case,
                           region |-> session[p].region,
                           nodes |-> session[p].nodes]]
          /\ session' = [session EXCEPT ![p] = rec(r)]
    BY <1>3 DEF AddReport
  <2>2. r \in 0 .. MaxReport
    BY ExecutionAssumption DEF Report
  <2>3. report' \in [Report -> ReportRow]
    BY <2>1 DEF TypeOK, SessionRec, ReportRow
  <2>4. rec(r) \in SessionRec
    <3>1. /\ (IF SnapshotReads THEN session[p].nodes \cap LeasedNodes ELSE {})
               \in SUBSET Node
          /\ (IF session[p].queue = 0 THEN "lease" ELSE "bind") \in StarterPC
          /\ session[p] \in SessionRec
      BY DEF TypeOK, SessionRec, StarterPC
    <3> QED
      BY <2>2, <3>1, ReportedSessionType
  <2>5. session' \in [Starter -> SessionRec]
    BY <2>1, <2>4 DEF TypeOK
  <2> QED
    BY <1>3, <2>3, <2>5 DEF AddReport, TypeOK
<1>4. CASE LeaseNodes(p)
  <2>1. session[p].report \in Report /\ session[p].nodes \in SUBSET Node
    BY <1>4 DEF LeaseNodes, Named, SessionNamed, ReportPC, TypeOK, SessionRec
  <2>2. lease' \in SUBSET (Report \X Node)
    BY <1>4, <2>1 DEF LeaseNodes, TypeOK
  <2> QED
    BY <1>4, <2>2, GotoType DEF LeaseNodes, TypeOK, StarterPC
<1>5. CASE LeaseConflict(p)
  BY <1>5, StartFailedType, EndSessionType DEF LeaseConflict, TypeOK
<1>6. CASE Launch(p)
  <2>1. run' \in [Report -> RunStatus]
    BY <1>6 DEF Launch, TypeOK, RunStatus
  <2>2. task' \in [Report -> TaskRec]
    BY <1>6 DEF Launch, TypeOK, TaskRec, NoTask
  <2>3. session' \in [Starter -> SessionRec] /\ todo' \in SUBSET Queue
    BY <1>6, EndSessionType, GotoType DEF Launch, TypeOK, StarterPC
  <2> QED
    BY <1>6, <2>1, <2>2, <2>3 DEF Launch, TypeOK
<1>7. CASE LaunchFails(p)
  <2>1. /\ tc' \in [Case -> TestCaseStatus]
        /\ report' \in [Report -> ReportRow]
        /\ queue' \in [Queue -> QueueRow]
    BY <1>7, LaunchFailsWrites, FailStartType DEF TypeOK
  <2>2. session' \in [Starter -> SessionRec]
    BY <1>7, LaunchFailsWrites, GotoType DEF StarterPC
  <2> QED
    BY <1>7, <2>1, <2>2, LaunchFailsWrites DEF TypeOK
<1>8. CASE ReleaseUnlaunched(p)
  BY <1>8, EndSessionType DEF ReleaseUnlaunched, TypeOK
<1>9. CASE MarkStartFailed(p)
  BY <1>9, StartFailedType, GotoType DEF MarkStartFailed, TypeOK, StarterPC
<1> QED
  BY <1>1, <1>2, <1>3, <1>4, <1>5, <1>6, <1>7, <1>8, <1>9 DEF StartStep

LEMMA TaskType ==
  ASSUME TypeOK, NEW r \in Report, TaskStep(r)
  PROVE  TypeOK'
<1> USE DEF unseen
<1>0. ASSUME NEW pc \in {"spawned", "running", "exited", "commit", "finish",
                         "release", "done"},
             TaskGoto(r, pc)
      PROVE  task' \in [Report -> TaskRec]
  BY <1>0, ZenonT(40) DEF TaskGoto, TypeOK, TaskRec
<1>1. CASE Spawn(r)
  BY <1>0, <1>1 DEF Spawn, TypeOK
<1>s. ASSUME NEW s \in RunStatus
      PROVE  [run EXCEPT ![r] = s] \in [Report -> RunStatus]
  BY DEF TypeOK
<1>2. CASE SpawnFails(r)
  <2>1. run' \in [Report -> RunStatus]
    BY <1>2, <1>s DEF SpawnFails, RunStatus
  <2>2. [task[r] EXCEPT !.pc = "exited", !.result = "error"] \in TaskRec
    BY ZenonT(40) DEF TypeOK, TaskRec
  <2>3. task' \in [Report -> TaskRec]
    BY <1>2, <2>2 DEF SpawnFails, TypeOK
  <2> QED
    BY <1>2, <2>1, <2>3 DEF SpawnFails, TypeOK
<1>3. CASE MarkRunRunning(r)
  <2>1. run' \in [Report -> RunStatus]
    BY <1>3, <1>s DEF MarkRunRunning, RunStatus
  <2>2. task' \in [Report -> TaskRec]
    BY <1>0, <1>3 DEF MarkRunRunning
  <2> QED
    BY <1>3, <2>1, <2>2 DEF MarkRunRunning, TypeOK
<1>4. CASE Exit(r)
  <2>1. \A result \in {"ok", "bad"} :
          [task[r] EXCEPT !.pc = "exited", !.result = result] \in TaskRec
    BY DEF TypeOK, TaskRec
  <2>2. task' \in [Report -> TaskRec]
    BY <1>4, <2>1 DEF Exit, TypeOK
  <2> QED
    BY <1>4, <2>2 DEF Exit, TypeOK
<1>5. CASE ReadReport(r)
  <2>1. {q \in QueuesOf(r) : queue[q].status = "running"} \in SUBSET Queue
    BY DEF QueuesOf
  <2>2. CASE report[r].status = "RUN_ING"
    <3>1. [task[r] EXCEPT
             !.pc = "commit",
             !.setCase = tc[report[r].case] # Verdict(r),
             !.setQueue = {q \in QueuesOf(r) : queue[q].status = "running"}]
            \in TaskRec
      BY <2>1, ZenonT(40) DEF TypeOK, TaskRec
    <3>2. task' \in [Report -> TaskRec]
      BY <1>5, <2>2, <3>1 DEF ReadReport, TypeOK
    <3> QED
      BY <1>5, <3>2 DEF ReadReport, TypeOK
  <2>3. CASE report[r].status # "RUN_ING"
    <3>1. (IF task[r].result = "error" THEN "release" ELSE "finish")
            \in {"release", "finish"}
      OBVIOUS
    <3>2. task' \in [Report -> TaskRec]
      BY <1>0, <1>5, <2>3, <3>1 DEF ReadReport
    <3> QED
      BY <1>5, <3>2 DEF ReadReport, TypeOK
  <2> QED
    BY <2>2, <2>3
<1>6. CASE CommitResult(r)
  <2>1. Verdict(r) \in {"RUN_SUCCESS", "RUN_FAILED"}
    BY DEF Verdict
  <2>2. tc' \in [Case -> TestCaseStatus]
    BY <1>6, <2>1, SetCaseType DEF CommitResult, TypeOK, TestCaseStatus
  <2>3. report' \in [Report -> ReportRow]
    BY <1>6, <2>1, ZenonT(40) DEF CommitResult, TypeOK, ReportRow
  <2>4. queue' \in [Queue -> QueueRow]
    <3>1. ASSUME NEW s \in {"success", "failed"}
          PROVE  \A q \in Queue : [queue[q] EXCEPT !.status = s] \in QueueRow
      BY DEF TypeOK, QueueRow
    <3> QED
      BY <1>6, <3>1 DEF CommitResult, TypeOK
  <2>5. task' \in [Report -> TaskRec]
    <3>1. [task[r] EXCEPT
             !.pc = IF task[r].result = "error" THEN "release" ELSE "finish",
             !.setCase = FALSE, !.setQueue = {}] \in TaskRec
      BY ZenonT(40) DEF TypeOK, TaskRec
    <3> QED
      BY <1>6, <3>1 DEF CommitResult, TypeOK
  <2> QED
    BY <1>6, <2>2, <2>3, <2>4, <2>5 DEF CommitResult, TypeOK
<1>9. CASE ReadRun(r)
  <2>1. task[r].result \in {"none", "ok", "bad", "error"}
    BY DEF TypeOK, TaskRec
  <2>2. PICK v \in {"none", "ok", "bad", "error"} : task' = [task EXCEPT ![r] =
                    [task[r] EXCEPT !.pc = "close", !.result = v]]
    BY <1>9, <2>1 DEF ReadRun
  <2>3. [task[r] EXCEPT !.pc = "close", !.result = v] \in TaskRec
    BY ZenonT(40) DEF TypeOK, TaskRec
  <2>4. task' \in [Report -> TaskRec]
    BY <2>2, <2>3 DEF TypeOK
  <2> QED
    BY <1>9, <2>4 DEF ReadRun, TypeOK
<1>7. CASE FinishRun(r)
  <2>1. run' \in [Report -> RunStatus]
    BY <1>7 DEF FinishRun, TypeOK, RunStatus
  <2>2. task' \in [Report -> TaskRec]
    BY <1>0, <1>7 DEF FinishRun
  <2> QED
    BY <1>7, <2>1, <2>2 DEF FinishRun, TypeOK
<1>8. CASE ReleaseLeases(r)
  BY <1>0, <1>8 DEF ReleaseLeases, TypeOK
<1> QED
  BY <1>1, <1>2, <1>3, <1>4, <1>5, <1>6, <1>7, <1>8, <1>9 DEF TaskStep

LEMMA SnapshotType ==
  ASSUME TypeOK, NEW rec \in KillerRec, NEW b \in BOOLEAN
  PROVE  Snapshot(rec, b) \in KillerRec
<1> DEFINE bound == {q \in Queue : queue[q].report \in rec.todo \cup rec.marked}
           leased == {r \in rec.todo : Leases(r) \cap lease # {}}
           written == IF b
                        THEN {c \in Case : /\ tc[c] = "RUN_FAILED"
                                           /\ c \in CasesOf(rec.todo \cup rec.marked)}
                        ELSE rec.written
<1>1. /\ bound \in SUBSET Queue
      /\ leased \in SUBSET Report
      /\ written \in SUBSET (Case \cup {NoCase})
  BY DEF KillerRec
<1>2. Snapshot(rec, b) = [rec EXCEPT !.bound = bound, !.leased = leased,
                                     !.written = written]
  BY DEF Snapshot
<1> HIDE DEF bound, leased, written
<1> QED
  BY <1>1, <1>2 DEF KillerRec

LEMMA KillerGotoType ==
  ASSUME TypeOK, NEW k \in Killer,
         NEW pc \in {"mark", "kill", "release", "remote", "finish"},
         KillerGoto(k, pc)
  PROVE  killer' \in [Killer -> KillerRec]
<1>1. [killer[k] EXCEPT !.pc = pc] \in KillerRec
  <2>1. killer[k] \in KillerRec
    BY DEF TypeOK
  <2> QED
    BY <2>1 DEF KillerRec
<1>2. killer \in [Killer -> KillerRec]
  BY DEF TypeOK
<1>3. killer' = [killer EXCEPT ![k] = [killer[k] EXCEPT !.pc = pc]]
  BY DEF KillerGoto
<1> QED
  BY <1>1, <1>2, <1>3

\* FailReports fails reports, test cases and queue rows.
LEMMA FailReportsType ==
  ASSUME TypeOK, NEW k \in Killer, NEW R \in SUBSET Report,
         NEW b \in BOOLEAN, FailReports(k, R, b)
  PROVE  /\ tc' \in [Case -> TestCaseStatus]
         /\ report' \in [Report -> ReportRow]
         /\ queue' \in [Queue -> QueueRow]
<1>1. tc' \in [Case -> TestCaseStatus]
  BY DEF FailReports, TypeOK, TestCaseStatus
<1>2. \A r \in Report : [report[r] EXCEPT !.status = "RUN_FAILED"] \in ReportRow
  BY DEF TypeOK, ReportRow
<1>3. report' \in [Report -> ReportRow]
  BY <1>2 DEF FailReports, TypeOK
<1>4. \A q \in Queue : [queue[q] EXCEPT !.status = "failed"] \in QueueRow
  BY DEF TypeOK, QueueRow
<1>5. queue' \in [Queue -> QueueRow]
  BY <1>4 DEF FailReports, TypeOK
<1> QED
  BY <1>1, <1>3, <1>5
\* FailNodes marks nodes unhealthy.
LEMMA FailNodesType ==
  ASSUME TypeOK, NEW k \in Killer, FailNodes(k)
  PROVE  health' \in [Node -> {"ok", "sick", "disabled"}]
  BY DEF FailNodes, TypeOK

LEMMA RestingType == Resting \in KillerRec
  BY DEF Resting, KillerRec

LEMMA StopRequestType ==
  ASSUME TypeOK, NEW k \in Killer, NEW R \in SUBSET Report,
         StopRequest(k) \/ ScanTimeout(k, R)
  PROVE  TypeOK'
<1> USE DEF unmoved
<1>1. \A T \in SUBSET Report, b \in BOOLEAN :
        [Resting EXCEPT !.pc = "mark", !.todo = T, !.single = b] \in KillerRec
  BY RestingType DEF KillerRec, Resting
<1>2. \A T \in SUBSET Report :
        [Resting EXCEPT !.pc = "mark", !.todo = T] \in KillerRec
  BY RestingType DEF KillerRec, Resting
<1>3. CASE StopCase(k)
  <2>1. PICK c \in Case :
          killer' = [killer EXCEPT ![k] = Snapshot(
            [Resting EXCEPT !.pc = "mark", !.todo = RunningOf(c)], FALSE)]
    BY <1>3 DEF StopCase
  <2>2. RunningOf(c) \in SUBSET Report
    BY DEF RunningOf, Running
  <2>3. killer' \in [Killer -> KillerRec]
    BY <1>2, <2>1, <2>2, SnapshotType DEF TypeOK
  <2> QED
    BY <1>3, <2>3 DEF StopCase, TypeOK
<1>4. CASE StopCaseWithoutReport(k)
  <2>1. tc' \in [Case -> TestCaseStatus]
    BY <1>4, SetCaseType DEF StopCaseWithoutReport, TestCaseStatus
  <2> QED
    BY <1>4, <2>1 DEF StopCaseWithoutReport, TypeOK
<1>5. CASE StopExecution(k)
  <2>1. PICK r \in Running :
          killer' = [killer EXCEPT ![k] = Snapshot(
            [Resting EXCEPT !.pc = "mark", !.todo = {r}, !.single = TRUE], TRUE)]
    BY <1>5 DEF StopExecution
  <2>2. {r} \in SUBSET Report
    BY DEF Running
  <2>3. killer' \in [Killer -> KillerRec]
    BY <1>1, <2>1, <2>2, SnapshotType DEF TypeOK
  <2> QED
    BY <1>5, <2>3 DEF StopExecution, TypeOK
<1>6. CASE ScanTimeout(k, R)
  <2>1. killer' \in [Killer -> KillerRec]
    BY <1>2, <1>6, SnapshotType DEF ScanTimeout, TypeOK
  <2> QED
    BY <1>6, <2>1 DEF ScanTimeout, TypeOK
<1> QED
  BY <1>3, <1>4, <1>5, <1>6 DEF StopRequest

LEMMA StopType ==
  ASSUME TypeOK, NEW k \in Killer, StopStep(k)
  PROVE  TypeOK'
<1> USE DEF unmoved
<1>0. killer[k] \in KillerRec /\ killer[k].marked \in SUBSET Report
  BY DEF TypeOK, KillerRec
<1>c. \A R \in SUBSET Report : CasesOf(R) \in SUBSET (Case \cup {NoCase})
  BY DEF CasesOf, TypeOK, ReportRow
<1>q. ASSUME NEW R \in SUBSET Report,
             FailReports(k, R, TRUE) \/ FailReports(k, R, FALSE)
      PROVE  /\ tc' \in [Case -> TestCaseStatus]
             /\ report' \in [Report -> ReportRow]
             /\ queue' \in [Queue -> QueueRow]
  BY <1>q, FailReportsType
<1>1. CASE MarkRunStopping(k)
  <2>1. run' \in [Report -> RunStatus]
    BY <1>1 DEF MarkRunStopping, TypeOK, RunStatus
  <2> QED
    BY <1>1, <2>1, KillerGotoType DEF MarkRunStopping, TypeOK
<1>2. CASE KillProcess(k)
  <2>1. killer' \in [Killer -> KillerRec]
    BY <1>2, KillerGotoType DEF KillProcess
  <2> QED
    BY <1>2, <2>1 DEF KillProcess, TypeOK
<1>3. CASE StopRelease(k)
  <2>1. PICK r \in Report :
          IF Found(k, r)
            THEN /\ lease' = lease \ Leases(r)
                 /\ FailReports(k, killer[k].marked, TRUE)
                 /\ FailNodes(k)
                 /\ killer' = [killer EXCEPT ![k] = Snapshot(
                      [killer[k] EXCEPT !.pc = "remote", !.marked = {}, !.sick = {},
                         !.written = @ \cup CasesOf(killer[k].marked)],
                      killer[k].single)]
            ELSE /\ KillerGoto(k, "remote")
                 /\ UNCHANGED <<tc, report, queue, lease, health>>
    BY <1>3 DEF StopRelease
  <2>2. CASE Found(k, r)
    <3> DEFINE rec == [killer[k] EXCEPT
                 !.pc = "remote", !.marked = {}, !.sick = {},
                 !.written = @ \cup CasesOf(killer[k].marked)]
    <3>1. rec \in KillerRec /\ killer[k].single \in BOOLEAN
      BY <1>0, <1>c DEF KillerRec
    <3>2. Snapshot(rec, killer[k].single) \in KillerRec
      BY <3>1, SnapshotType
    <3>3. killer' \in [Killer -> KillerRec]
      BY <2>1, <2>2, <3>2 DEF TypeOK
    <3>4. health' \in [Node -> {"ok", "sick", "disabled"}]
      BY <2>1, <2>2, FailNodesType
    <3>5. lease' \in SUBSET (Report \X Node)
      BY <2>1, <2>2 DEF TypeOK
    <3>6. /\ tc' \in [Case -> TestCaseStatus]
          /\ report' \in [Report -> ReportRow]
          /\ queue' \in [Queue -> QueueRow]
      BY <1>0, <1>q, <2>1, <2>2
    <3> QED
      BY <1>3, <3>3, <3>4, <3>5, <3>6 DEF StopRelease, TypeOK
  <2>3. CASE ~Found(k, r)
    <3>1. killer' \in [Killer -> KillerRec]
      BY <2>1, <2>3, KillerGotoType
    <3> QED
      BY <1>3, <2>1, <2>3, <3>1 DEF StopRelease, TypeOK
  <2> QED
    BY <2>2, <2>3
<1>4. CASE StopRemote(k)
  <2>1. PICK r \in Report, failed \in SUBSET FlakyNode :
          killer' = [killer EXCEPT ![k] = Reread(
            [killer[k] EXCEPT !.pc = IF killer[k].todo = {r} THEN "finish" ELSE "mark",
                      !.todo = @ \ {r}, !.marked = @ \cup {r},
                      !.sick = @ \cup failed])]
    BY <1>4 DEF StopRemote
  <2> DEFINE rec == [killer[k] EXCEPT
               !.pc = IF killer[k].todo = {r} THEN "finish" ELSE "mark",
               !.todo = @ \ {r}, !.marked = @ \cup {r},
               !.sick = @ \cup failed]
  <2>2. failed \in SUBSET Node
    BY ExecutionAssumption
  <2>3. rec \in KillerRec /\ rec.single \in BOOLEAN
    BY <1>0, <2>2 DEF KillerRec
  <2>4. Reread(rec) \in KillerRec
    BY <2>3, SnapshotType DEF Reread
  <2>5. killer' \in [Killer -> KillerRec]
    BY <2>1, <2>4 DEF TypeOK
  <2> QED
    BY <1>4, <2>5 DEF StopRemote, TypeOK
<1>5. CASE StopFinish(k)
  <2>1. killer' \in [Killer -> KillerRec]
    BY <1>5, RestingType DEF StopFinish, TypeOK
  <2>2. health' \in [Node -> {"ok", "sick", "disabled"}]
    BY <1>5, FailNodesType DEF StopFinish
  <2>3. /\ tc' \in [Case -> TestCaseStatus]
        /\ report' \in [Report -> ReportRow]
        /\ queue' \in [Queue -> QueueRow]
    BY <1>0, <1>5, <1>q DEF StopFinish
  <2> QED
    BY <1>5, <2>1, <2>2, <2>3 DEF StopFinish, TypeOK
<1>6. CASE TimeoutCommit(k)
  <2>1. PICK r \in Report :
          /\ FailReports(k, {r}, FALSE)
          /\ lease' = IF Found(k, r) THEN lease \ Leases(r) ELSE lease
          /\ killer' = [killer EXCEPT ![k] =
               IF killer[k].todo = {r} THEN Resting
               ELSE Snapshot([killer[k] EXCEPT !.pc = "mark", !.todo = @ \ {r},
                                !.written = @ \cup CasesOf({r})], FALSE)]
    BY <1>6 DEF TimeoutCommit
  <2> DEFINE rec == [killer[k] EXCEPT !.pc = "mark", !.todo = @ \ {r},
                       !.written = @ \cup CasesOf({r})]
  <2>2. rec \in KillerRec
    BY <1>0, <1>c DEF KillerRec
  <2>3. Snapshot(rec, FALSE) \in KillerRec
    BY <2>2, SnapshotType
  <2>4. killer' \in [Killer -> KillerRec]
    BY <2>1, <2>3, RestingType DEF TypeOK
  <2>5. lease' \in SUBSET (Report \X Node)
    BY <2>1 DEF TypeOK
  <2>6. {r} \in SUBSET Report
    OBVIOUS
  <2>7. /\ tc' \in [Case -> TestCaseStatus]
        /\ report' \in [Report -> ReportRow]
        /\ queue' \in [Queue -> QueueRow]
    BY <1>q, <2>1, <2>6
  <2> QED
    BY <1>6, <2>4, <2>5, <2>7 DEF TimeoutCommit, TypeOK
<1> QED
  BY <1>1, <1>2, <1>3, <1>4, <1>5, <1>6 DEF StopStep

LEMMA RecoveryType ==
  ASSUME TypeOK, Crash \/ RecoverStep
  PROVE  TypeOK'
<1>1. CASE Crash
  BY <1>1, IdleType, RestingType DEF Crash, TypeOK, TaskRec, NoTask
<1>2. CASE StopLeftBehind
  BY <1>2 DEF StopLeftBehind, RecoverMark, RecoverKill, RecoverStop, TypeOK,
              RunStatus
<1>3. CASE RecoverRepair
  <2>1. \A r \in Report : [report[r] EXCEPT !.status = "RUN_FAILED"] \in ReportRow
    BY DEF TypeOK, ReportRow
  <2>2. report' \in [Report -> ReportRow]
    BY <1>3, <2>1 DEF RecoverRepair, RepairReports, TypeOK
  <2>3. \A q \in Queue : [queue[q] EXCEPT !.status = "failed"] \in QueueRow
    BY DEF TypeOK, QueueRow
  <2>4. queue' \in [Queue -> QueueRow]
    BY <1>3, <2>3 DEF RecoverRepair, TypeOK
  <2>5. tc' \in [Case -> TestCaseStatus] /\ run' \in [Report -> RunStatus]
    BY <1>3 DEF RecoverRepair, TypeOK, TestCaseStatus, RunStatus
  <2> QED
    BY <1>3, <2>2, <2>4, <2>5 DEF RecoverRepair, TypeOK
<1>4. CASE RecoverLeases
  BY <1>4 DEF RecoverLeases, TypeOK
<1> QED
  BY <1>1, <1>2, <1>3, <1>4 DEF RecoverStep

\* A process that ends by itself and a node that comes or goes.
LEMMA EnvironmentType ==
  ASSUME TypeOK,
         \/ \E r \in Report : OrphanExits(r)
         \/ \E n \in FlakyNode : NodeChanges(n)
  PROVE  TypeOK'
<1>1. CASE \E r \in Report : OrphanExits(r)
  BY <1>1 DEF OrphanExits, TypeOK
<1>2. CASE \E n \in FlakyNode : NodeChanges(n)
  BY <1>2, ExecutionAssumption DEF NodeChanges, dbRows, TypeOK
<1> QED
  BY <1>1, <1>2
-----------------------------------------------------------------------------
(* Named: whatever is in use names a test case. *)

\* What a step must leave behind for Named to survive it.
RowsKept ==
    \A q \in Queue : q \in Held \/ queue'[q].status # "none" \/ queue'[q].report # 0
                       => queue'[q].case \in Case
SessionsKept ==
    \A p \in Starter : session'[p] = session[p] \/ SessionNamed(session'[p])
TasksKept == \A r \in Report : task'[r].setQueue \subseteq task[r].setQueue \cup Held

LEMMA KeptNamed ==
  ASSUME TypeInv, RowsKept, SessionsKept, TasksKept
  PROVE  Named'
<1>1. Held \subseteq Held'
  BY DEF RowsKept, Held
<1>2. \A s : SessionNamed(s) =>
               /\ s.pc # "idle" => s.case \in Case
               /\ s.pc \in ReportPC => s.report \in Report
               /\ s.queue # 0 => s.queue \in Held'
  BY <1>1 DEF SessionNamed
<1>3. \A p \in Starter : SessionNamed(session'[p])
  BY DEF SessionsKept, TypeInv, Named
<1>4. RowsNamed' /\ (\A r \in Report : task[r].setQueue \subseteq Held)'
  BY <1>1 DEF RowsKept, RowsNamed, TasksKept, TypeInv, Named, Held
<1>5. (\A p \in Starter : SessionNamed(session[p]))'
  BY <1>2, <1>3 DEF SessionNamed
<1> QED
  BY <1>4, <1>5 DEF Named

\* Rows that keep their case keep their name.
LEMMA UnchangedKept ==
  ASSUME TypeInv
  PROVE  /\ queue' = queue => RowsKept
         /\ session' = session => SessionsKept
         /\ task' = task => TasksKept
  BY DEF TypeInv, Named, RowsNamed, Held, RowsKept, SessionsKept, TasksKept

\* A change of status of a row that some coroutine or report holds.
LEMMA StatusKept ==
  ASSUME TypeInv, NEW S \in SUBSET Held,
         \A q \in Queue : /\ queue'[q].case = queue[q].case
                          /\ q \in S \/ /\ queue'[q].status = queue[q].status
                                        /\ queue'[q].report = queue[q].report
  PROVE  RowsKept
  BY DEF TypeInv, Named, RowsNamed, Held, RowsKept

\* EndSession, Goto and the requests, one session at a time.
LEMMA SessionKept ==
  ASSUME TypeInv, NEW p \in Starter, NEW s, SessionNamed(s),
         session' = [session EXCEPT ![p] = s]
  PROVE  SessionsKept
  BY DEF TypeInv, TypeOK, SessionsKept

LEMMA IdleNamed == SessionNamed(Idle)
  BY DEF SessionNamed, Idle, ReportPC
\* EndSession and Goto keep the names, Goto under the report it needs.
LEMMA EndSessionKept ==
  ASSUME TypeInv, NEW p \in Starter, EndSession(p)
  PROVE  SessionsKept
  BY IdleNamed, SessionKept DEF EndSession

LEMMA GotoKept ==
  ASSUME TypeInv, NEW p \in Starter, NEW pc \in StarterPC, Goto(p, pc),
         session[p].pc # "idle",
         pc \in ReportPC => session[p].report \in Report
  PROVE  SessionsKept
<1>1. session[p] \in SessionRec /\ SessionNamed(session[p])
  BY DEF TypeInv, TypeOK, Named
<1>2. SessionNamed([session[p] EXCEPT !.pc = pc])
  BY <1>1 DEF SessionNamed, SessionRec
<1> QED
  BY <1>2, SessionKept DEF Goto

\* FailStart fails rows of the report.
LEMMA FailStartKept ==
  ASSUME TypeInv, NEW p \in Starter, session[p].report \in Report,
         NEW S \in SUBSET QueuesOf(session[p].report), FailStart(p, S)
  PROVE  RowsKept
<1>1. S \in SUBSET Held
  BY DEF QueuesOf, TypeInv, Named, RowsNamed, Report
<1>2. \A q \in Queue : /\ queue'[q].case = queue[q].case
                       /\ q \in S \/ /\ queue'[q].status = queue[q].status
                                     /\ queue'[q].report = queue[q].report
  BY DEF FailStart, TypeInv, TypeOK, QueueRow
<1> QED
  BY <1>1, <1>2, StatusKept

LEMMA StartFailedKept ==
  ASSUME TypeInv, NEW p \in Starter, session[p].report \in Report, StartFailed(p)
  PROVE  RowsKept
  BY FailStartKept DEF StartFailed

\* A coroutine writes the row it holds.
LEMMA RowKept ==
  ASSUME TypeInv, NEW p \in Starter,
         \A q \in Queue : /\ queue'[q].case = queue[q].case
                          /\ \/ q = session[p].queue
                             \/ /\ queue'[q].status = queue[q].status
                                /\ queue'[q].report = queue[q].report
  PROVE  RowsKept
<1> DEFINE S == {session[p].queue} \cap Queue
<1>1. S \in SUBSET Held
  BY ExecutionAssumption DEF TypeInv, Named, SessionNamed, Queue
<1>2. \A q \in Queue : q \in S \/ /\ queue'[q].status = queue[q].status
                                  /\ queue'[q].report = queue[q].report
  OBVIOUS
<1> HIDE DEF S
<1> QED
  BY <1>1, <1>2, StatusKept

LEMMA BeginKept ==
  ASSUME TypeInv, NEW p \in Starter, NEW c \in Case, NEW g, NEW nodes,
         NEW isDebug, Begin(p, c, g, nodes, isDebug)
  PROVE  SessionsKept
<1>1. SessionNamed([Idle EXCEPT !.pc = "prepare", !.case = c, !.region = g,
                      !.nodes = nodes, !.tcSeen = tc[c], !.debug = isDebug])
  BY DEF SessionNamed, Idle, ReportPC
<1> QED
  BY <1>1, SessionKept DEF Begin

LEMMA RequestNamed ==
  ASSUME TypeInv, NEW p \in Caller, RequestStep(p) \/ ReplyStep(p)
  PROVE  Named'
<1> USE DEF dbRows, others
<1>0. p \in Starter
  BY DEF Starter
<1>1. CASE RequestRun(p) \/ RequestLegacyRun(p) \/ RequestDebug(p)
  <2>1. PICK c, g, nodes, b : c \in Case /\ Begin(p, c, g, nodes, b)
    BY <1>1 DEF RequestRun, RequestLegacyRun, RequestDebug
  <2>2. SessionsKept
    BY <1>0, <2>1, BeginKept
  <2> QED
    BY <2>1, <2>2, UnchangedKept, KeptNamed DEF Begin
<1>2. CASE RequestQueuedRun(p)
  <2>1. PICK c \in Case, param \in RunParams :
          session' = [session EXCEPT ![p] =
                       [Idle EXCEPT !.pc = "enqueue", !.case = c,
                                    !.region = param.region,
                                    !.count = param.count, !.tcSeen = tc[c]]]
    BY <1>2 DEF RequestQueuedRun
  <2>2. SessionNamed([Idle EXCEPT !.pc = "enqueue", !.case = c,
                        !.region = param.region, !.count = param.count,
                        !.tcSeen = tc[c]])
    BY DEF SessionNamed, Idle, ReportPC
  <2> QED
    BY <1>0, <1>2, <2>1, <2>2, SessionKept, UnchangedKept, KeptNamed
       DEF RequestQueuedRun
<1>3. CASE RequestCancel(p)
  <2>1. PICK q \in Queue :
          /\ queue[q].status = "pending"
          /\ session' = [session EXCEPT ![p] =
                          [Idle EXCEPT !.pc = "cancel", !.queue = q,
                                       !.case = queue[q].case,
                                       !.tcSeen = tc[queue[q].case]]]
    BY <1>3 DEF RequestCancel
  <2>2. q \in Held
    BY <2>1 DEF TypeInv, Named, RowsNamed
  <2>3. SessionNamed([Idle EXCEPT !.pc = "cancel", !.queue = q,
                        !.case = queue[q].case, !.tcSeen = tc[queue[q].case]])
    BY <2>2 DEF SessionNamed, Idle, ReportPC, Held
  <2> QED
    BY <1>0, <1>3, <2>1, <2>3, SessionKept, UnchangedKept, KeptNamed
       DEF RequestCancel
<1>4. CASE Enqueue(p)
  <2>1. session[p].case \in Case
    BY <1>0, <1>4 DEF Enqueue, TypeInv, Named, SessionNamed
  <2>2. PICK q \in Queue :
          queue' = [queue EXCEPT ![q] =
                      [status |-> "pending", case |-> session[p].case,
                       region |-> session[p].region,
                       count |-> session[p].count, report |-> 0]]
    BY <1>4 DEF Enqueue
  <2>3. RowsKept
    BY <2>1, <2>2 DEF RowsKept, Held, TypeInv, TypeOK, Named, RowsNamed
  <2> QED
    BY <1>0, <1>4, <2>3, EndSessionKept, UnchangedKept, KeptNamed DEF Enqueue
<1>5. CASE Cancel(p)
  <2>3. RowsKept
    BY <1>0, <1>5, RowKept DEF Cancel, TypeInv, TypeOK, QueueRow
  <2>4. SessionsKept
    BY <1>0, <1>5, IdleNamed, SessionKept DEF Cancel
  <2> QED
    BY <1>5, <2>3, <2>4, UnchangedKept, KeptNamed DEF Cancel
<1> QED
  BY <1>1, <1>2, <1>3, <1>4, <1>5 DEF RequestStep, ReplyStep
LEMMA DispatchNamed ==
  ASSUME TypeInv, NEW d \in Dispatcher, DispatchStep(d)
  PROVE  Named'
<1> USE DEF dbRows, others
<1>0. d \in Starter
  BY DEF Starter
<1>1. CASE Scan(d) \/ AbortScan(d) \/ SkipRow(d)
  BY <1>1, UnchangedKept, KeptNamed DEF Scan, AbortScan, SkipRow
<1>2. CASE StartRow(d)
  <2>1. PICK q \in Queue :
          /\ queue[q].status = "pending"
          /\ session' = [session EXCEPT ![d] =
                          [Idle EXCEPT !.pc = "claim", !.queue = q,
                                       !.case = queue[q].case,
                                       !.region = queue[q].region,
                                       !.count = queue[q].count,
                                       !.tcSeen = tc[queue[q].case]]]
    BY <1>2 DEF StartRow
  <2>2. q \in Held
    BY <2>1 DEF TypeInv, Named, RowsNamed
  <2>3. SessionNamed([Idle EXCEPT !.pc = "claim", !.queue = q,
                        !.case = queue[q].case, !.region = queue[q].region,
                        !.count = queue[q].count,
                        !.tcSeen = tc[queue[q].case]])
    BY <2>2 DEF SessionNamed, Idle, ReportPC, Held
  <2> QED
    BY <1>0, <1>2, <2>1, <2>3, SessionKept, UnchangedKept, KeptNamed DEF StartRow
<1>3. CASE Claim(d)
  <2>1. RowsKept
    BY <1>0, <1>3, RowKept DEF Claim, TypeInv, TypeOK, QueueRow
  <2>2. SessionsKept
    BY <1>0, <1>3, EndSessionKept, GotoKept DEF Claim, StarterPC, ReportPC
  <2> QED
    BY <1>3, <2>1, <2>2, UnchangedKept, KeptNamed DEF Claim
<1>4. CASE Select(d)
  <2>1. PICK nodes : session' = [session EXCEPT ![d] =
                       [@ EXCEPT !.pc = "prepare", !.nodes = nodes]]
    BY <1>4 DEF Select
  <2>2. session[d] \in SessionRec /\ SessionNamed(session[d])
    BY <1>0 DEF TypeInv, TypeOK, Named
  <2>3. SessionNamed([session[d] EXCEPT !.pc = "prepare", !.nodes = nodes])
    BY <1>4, <2>2 DEF Select, SessionNamed, SessionRec, ReportPC
  <2> QED
    BY <1>0, <1>4, <2>1, <2>3, SessionKept, UnchangedKept, KeptNamed DEF Select
<1>5. CASE SelectRefused(d)
  BY <1>0, <1>5, EndSessionKept, UnchangedKept, KeptNamed DEF SelectRefused
<1>6. CASE PrepareBreaks(d)
  <2>1. RowsKept
    BY <1>0, <1>6, RowKept DEF PrepareBreaks, TypeInv, TypeOK, QueueRow
  <2> QED
    BY <1>0, <1>6, <2>1, EndSessionKept, UnchangedKept, KeptNamed DEF PrepareBreaks
<1>7. CASE BindQueue(d)
  <2>1. RowsKept
    BY <1>0, <1>7, RowKept DEF BindQueue, TypeInv, TypeOK, QueueRow
  <2>2. SessionsKept
    BY <1>0, <1>7, GotoKept
       DEF BindQueue, StarterPC, ReportPC, TypeInv, Named, SessionNamed
  <2> QED
    BY <1>7, <2>1, <2>2, UnchangedKept, KeptNamed DEF BindQueue
<1>8. CASE ConfirmStart(d)
  <2>1. RowsKept
    BY <1>0, <1>8, RowKept, UnchangedKept
       DEF ConfirmStart, TypeInv, TypeOK, QueueRow
  <2> QED
    BY <1>0, <1>8, <2>1, EndSessionKept, UnchangedKept, KeptNamed DEF ConfirmStart
<1> QED
  BY <1>1, <1>2, <1>3, <1>4, <1>5, <1>6, <1>7, <1>8 DEF DispatchStep

LEMMA ReportedSessionNamed ==
  ASSUME NEW s \in SessionRec, SessionNamed(s), s.pc # "idle", NEW pc,
         NEW r \in Report, NEW view
  PROVE  SessionNamed([s EXCEPT !.pc = pc, !.report = r, !.view = view])
  BY DEF SessionNamed, SessionRec

LEMMA StartNamed ==
  ASSUME TypeInv, NEW p \in Starter, StartStep(p)
  PROVE  Named'
<1> USE DEF dbRows, others
<1>0. session[p] \in SessionRec /\ SessionNamed(session[p])
  BY DEF TypeInv, TypeOK, Named
<1>r. session[p].pc \in ReportPC => session[p].report \in Report
  BY <1>0 DEF SessionNamed
<1>1. CASE PrepareFails(p)
  BY <1>1, EndSessionKept, UnchangedKept, KeptNamed DEF PrepareFails
<1>2. CASE MarkRunning(p)
  BY <1>2, GotoKept, UnchangedKept, KeptNamed DEF MarkRunning, StarterPC, ReportPC
<1>3. CASE AddReport(p)
  <2> DEFINE rec(r) == [session[p] EXCEPT
         !.pc = IF session[p].queue = 0 THEN "lease" ELSE "bind",
         !.report = r,
         !.view = IF SnapshotReads
                    THEN session[p].nodes \cap LeasedNodes ELSE {}]
  <2>1. PICK r \in Report : session' = [session EXCEPT ![p] = rec(r)]
    BY <1>3 DEF AddReport
  <2>2. SessionNamed(rec(r))
    BY <1>0, <1>3, ReportedSessionNamed DEF AddReport
  <2>3. SessionsKept
    <3> HIDE DEF rec
    <3> QED
      BY <2>1, <2>2, SessionKept
  <2> QED
    BY <1>3, <2>3, UnchangedKept, KeptNamed DEF AddReport
<1>4. CASE LeaseNodes(p)
  BY <1>4, <1>r, GotoKept, UnchangedKept, KeptNamed
     DEF LeaseNodes, StarterPC, ReportPC
<1>5. CASE LeaseConflict(p)
  BY <1>5, <1>r, StartFailedKept, EndSessionKept, UnchangedKept, KeptNamed
     DEF LeaseConflict, ReportPC
<1>6. CASE Launch(p)
  <2>1. SessionsKept
    BY <1>6, <1>r, EndSessionKept, GotoKept DEF Launch, StarterPC, ReportPC
  <2>2. TasksKept
    BY <1>6 DEF Launch, TasksKept, NoTask, TypeInv, TypeOK
  <2> QED
    BY <1>6, <2>1, <2>2, UnchangedKept, KeptNamed DEF Launch
<1>7. CASE LaunchFails(p)
  <2>1. session[p].report \in Report
    BY <1>7, <1>r, LaunchFailsWrites DEF ReportPC
  <2>2. RowsKept
    BY <1>7, <2>1, LaunchFailsWrites, FailStartKept, UnchangedKept
  <2>3. SessionsKept
    BY <1>7, <2>1, LaunchFailsWrites, GotoKept DEF StarterPC
  <2> QED
    BY <1>7, <2>2, <2>3, LaunchFailsWrites, UnchangedKept, KeptNamed
<1>8. CASE ReleaseUnlaunched(p)
  BY <1>8, EndSessionKept, UnchangedKept, KeptNamed DEF ReleaseUnlaunched
<1>9. CASE MarkStartFailed(p)
  BY <1>9, <1>r, StartFailedKept, GotoKept, UnchangedKept, KeptNamed
     DEF MarkStartFailed, StarterPC, ReportPC
<1> QED
  BY <1>1, <1>2, <1>3, <1>4, <1>5, <1>6, <1>7, <1>8, <1>9 DEF StartStep

LEMMA TaskNamed ==
  ASSUME TypeInv, NEW r \in Report, TaskStep(r)
  PROVE  Named'
<1> USE DEF unseen
<1>0. /\ QueuesOf(r) \in SUBSET Held /\ task[r].setQueue \in SUBSET Held
      /\ task[r] \in TaskRec /\ task \in [Report -> TaskRec]
  BY DEF QueuesOf, TypeInv, TypeOK, Named, RowsNamed, Report
<1>1. ASSUME NEW pc, TaskGoto(r, pc)
      PROVE  TasksKept
  BY <1>0, <1>1 DEF TaskGoto, TasksKept, TaskRec
<1>2. CASE Spawn(r) \/ MarkRunRunning(r) \/ FinishRun(r) \/ ReleaseLeases(r)
  BY <1>1, <1>2, UnchangedKept, KeptNamed
     DEF Spawn, MarkRunRunning, FinishRun, ReleaseLeases
<1>t. ASSUME NEW t, t.setQueue \in SUBSET Held, task' = [task EXCEPT ![r] = t]
      PROVE  TasksKept
  BY <1>0, <1>t DEF TasksKept
<1>3. CASE SpawnFails(r) \/ Exit(r)
  <2>1. PICK result : task' = [task EXCEPT ![r] =
                        [task[r] EXCEPT !.pc = "exited", !.result = result]]
    BY <1>3 DEF SpawnFails, Exit
  <2>2. [task[r] EXCEPT !.pc = "exited", !.result = result].setQueue \in SUBSET Held
    BY <1>0 DEF TaskRec
  <2>3. TasksKept
    BY <1>t, <2>1, <2>2
  <2> QED
    BY <1>3, <2>3, UnchangedKept, KeptNamed DEF SpawnFails, Exit
<1>6. CASE ReadRun(r)
  <2>1. PICK result : task' = [task EXCEPT ![r] =
                        [task[r] EXCEPT !.pc = "close", !.result = result]]
    BY <1>6 DEF ReadRun
  <2>2. [task[r] EXCEPT !.pc = "close", !.result = result].setQueue \in SUBSET Held
    BY <1>0 DEF TaskRec
  <2>3. TasksKept
    BY <1>t, <2>1, <2>2
  <2> QED
    BY <1>6, <2>3, UnchangedKept, KeptNamed DEF ReadRun
<1>4. CASE ReadReport(r)
  <2>1. CASE report[r].status = "RUN_ING"
    <3> DEFINE rows == {q \in QueuesOf(r) : queue[q].status = "running"}
               set == tc[report[r].case] # Verdict(r)
               t == [task[r] EXCEPT !.pc = "commit", !.setCase = set, !.setQueue = rows]
    <3>1. task' = [task EXCEPT ![r] = t]
      BY <1>4, <2>1 DEF ReadReport
    <3>2. t.setQueue \in SUBSET Held
      BY <1>0 DEF TaskRec
    <3> HIDE DEF t
    <3>3. TasksKept
      BY <1>t, <3>1, <3>2
    <3> QED
      BY <1>4, <3>3, UnchangedKept, KeptNamed DEF ReadReport
  <2>2. CASE report[r].status # "RUN_ING"
    <3>1. TasksKept
      BY <1>1, <1>4, <2>2 DEF ReadReport
    <3> QED
      BY <1>4, <3>1, UnchangedKept, KeptNamed DEF ReadReport
  <2> QED
    BY <2>1, <2>2
<1>5. CASE CommitResult(r)
  <2> DEFINE S == task[r].setQueue
  <2>1. \A q \in Queue : /\ queue'[q].case = queue[q].case
                         /\ q \in S \/ /\ queue'[q].status = queue[q].status
                                       /\ queue'[q].report = queue[q].report
    BY <1>5 DEF CommitResult, TypeInv, TypeOK, QueueRow
  <2>2. S \in SUBSET Held
    BY <1>0
  <2>3. RowsKept
    <3> HIDE DEF S
    <3> QED
      BY <2>1, <2>2, StatusKept
  <2>4. TasksKept
    BY <1>0, <1>5 DEF CommitResult, TasksKept, TaskRec
  <2> QED
    BY <1>5, <2>3, <2>4, UnchangedKept, KeptNamed DEF CommitResult
<1> QED
  BY <1>2, <1>3, <1>4, <1>5, <1>6 DEF TaskStep

LEMMA StopNamed ==
  ASSUME TypeInv, NEW k \in Killer, NEW R \in SUBSET Report,
         StopRequest(k) \/ ScanTimeout(k, R) \/ StopStep(k)
  PROVE  Named'
<1> USE DEF unmoved
<1>1. ASSUME NEW T \in SUBSET Report, NEW b, FailReports(k, T, b)
      PROVE  RowsKept
  <2> DEFINE S == {q \in Queue : queue[q].report \in T}
  <2>1. S \in SUBSET Held
    BY DEF TypeInv, Named, RowsNamed, Report
  <2>2. \A q \in Queue : /\ queue'[q].case = queue[q].case
                         /\ q \in S \/ /\ queue'[q].status = queue[q].status
                                       /\ queue'[q].report = queue[q].report
    BY <1>1 DEF FailReports, TypeInv, TypeOK, QueueRow
  <2> HIDE DEF S
  <2> QED
    BY <2>1, <2>2, StatusKept
<1>2. killer[k].marked \in SUBSET Report
  BY DEF TypeInv, TypeOK, KillerRec
<1>3. CASE StopRequest(k) \/ ScanTimeout(k, R)
  BY <1>3, UnchangedKept, KeptNamed
     DEF StopRequest, StopCase, StopCaseWithoutReport, StopExecution, ScanTimeout
<1>4. CASE MarkRunStopping(k) \/ KillProcess(k) \/ StopRemote(k)
  BY <1>4, UnchangedKept, KeptNamed DEF MarkRunStopping, KillProcess, StopRemote
<1>5. CASE StopRelease(k)
  <2>1. RowsKept
    BY <1>1, <1>2, <1>5, UnchangedKept DEF StopRelease
  <2> QED
    BY <1>5, <2>1, UnchangedKept, KeptNamed DEF StopRelease
<1>6. CASE StopFinish(k)
  BY <1>1, <1>2, <1>6, UnchangedKept, KeptNamed DEF StopFinish
<1>7. CASE TimeoutCommit(k)
  <2>1. RowsKept
    <3>1. PICK r \in Report : FailReports(k, {r}, FALSE)
      BY <1>7 DEF TimeoutCommit
    <3>2. {r} \in SUBSET Report
      OBVIOUS
    <3> QED
      BY <1>1, <3>1, <3>2
  <2> QED
    BY <1>7, <2>1, UnchangedKept, KeptNamed DEF TimeoutCommit
<1> QED
  BY <1>3, <1>4, <1>5, <1>6, <1>7 DEF StopStep

LEMMA OutsideNamed ==
  ASSUME TypeInv,
         \/ Crash \/ RecoverStep
         \/ \E r \in Report : OrphanExits(r)
         \/ \E n \in FlakyNode : NodeChanges(n)
  PROVE  Named'
<1>1. CASE Crash
  <2>1. SessionsKept /\ TasksKept
    BY <1>1, IdleNamed DEF Crash, SessionsKept, TasksKept, NoTask
  <2> QED
    BY <1>1, <2>1, UnchangedKept, KeptNamed DEF Crash
<1>2. CASE RecoverRepair
  <2>1. RowsKept
    BY <1>2 DEF RecoverRepair, InterruptedQueueStatus, RowsKept, Held,
                TypeInv, TypeOK, QueueRow, Named, RowsNamed
  <2> QED
    BY <1>2, <2>1, UnchangedKept, KeptNamed DEF RecoverRepair
<1>3. CASE \/ StopLeftBehind \/ RecoverLeases
           \/ \E r \in Report : OrphanExits(r)
           \/ \E n \in FlakyNode : NodeChanges(n)
  BY <1>3, UnchangedKept, KeptNamed
     DEF StopLeftBehind, RecoverMark, RecoverKill, RecoverStop, RecoverLeases,
         OrphanExits, NodeChanges, dbRows
<1> QED
  BY <1>1, <1>2, <1>3 DEF RecoverStep

-----------------------------------------------------------------------------
LEMMA NextTypeInv ==
  ASSUME TypeInv, [Next]_vars
  PROVE  TypeInv'
<1>0. TypeOK
  BY DEF TypeInv
<1>1. CASE \E p \in Caller : RequestStep(p) \/ ReplyStep(p)
  BY <1>1, RequestType, RequestNamed DEF TypeInv
<1>2. CASE \E d \in Dispatcher : DispatchStep(d)
  BY <1>2, DispatchType, DispatchNamed DEF TypeInv
<1>3. CASE \E p \in Starter : StartStep(p)
  BY <1>3, StartType, StartNamed DEF TypeInv
<1>4. CASE \E r \in Report : TaskStep(r)
  BY <1>0, <1>4, TaskType, TaskNamed DEF TypeInv
<1>5. CASE \E k \in Stopper : StopRequest(k)
  <2>1. PICK k \in Killer : StopRequest(k)
    BY <1>5 DEF Killer
  <2>2. {} \in SUBSET Report
    OBVIOUS
  <2> QED
    BY <1>0, <2>1, <2>2, StopRequestType, StopNamed DEF TypeInv
<1>6. CASE \E k \in Scanner, expired \in SUBSET Report : ScanTimeout(k, expired)
  <2>1. PICK k \in Killer, expired \in SUBSET Report : ScanTimeout(k, expired)
    BY <1>6 DEF Killer
  <2> QED
    BY <1>0, <2>1, StopRequestType, StopNamed DEF TypeInv
<1>7. CASE \E k \in Killer : StopStep(k)
  <2>1. PICK k \in Killer : StopStep(k)
    BY <1>7
  <2>2. {} \in SUBSET Report
    OBVIOUS
  <2> QED
    BY <1>0, <2>1, <2>2, StopType, StopNamed DEF TypeInv
<1>8. CASE Crash \/ RecoverStep
  BY <1>0, <1>8, RecoveryType, OutsideNamed DEF TypeInv
<1>9. CASE \/ \E r \in Report : OrphanExits(r)
           \/ \E n \in FlakyNode : NodeChanges(n)
  BY <1>0, <1>9, EnvironmentType, OutsideNamed DEF TypeInv
<1>10. CASE UNCHANGED vars
  BY <1>10 DEF vars, TypeInv, TypeOK, Named, RowsNamed, SessionNamed, Held
<1> QED
  BY <1>1, <1>2, <1>3, <1>4, <1>5, <1>6, <1>7, <1>8, <1>9, <1>10 DEF Next

LEMMA SpecTypeInv == Spec => []TypeInv
<1>1. Init => TypeInv
  <2>1. Init => Named
    BY ExecutionAssumption
       DEF Init, Named, RowsNamed, SessionNamed, Held, NoQueue, Idle, NoTask,
           ReportPC, Queue
  <2> QED
    BY <2>1, InitType DEF TypeInv
<1>2. TypeInv /\ [Next]_vars => TypeInv'
  BY NextTypeInv
<1> QED
  BY <1>1, <1>2, PTL DEF Spec

\* Every row, process record and program position of the execution services
\* keeps its type, whatever the interleaving, the crashes and the constants.
THEOREM TypeCorrect == Spec => []TypeOK
<1>1. TypeInv => TypeOK
  BY DEF TypeInv
<1> QED
  BY <1>1, SpecTypeInv, PTL

-----------------------------------------------------------------------------
(* The node leases of services/execution_node.py and the abstract lease    *)
(* service of module NodeLease, under both isolations.                     *)


\* A lookup made under the row locks sees the leases in force.
LEMMA ConflictsSeen ==
  ASSUME NEW p, Conflicts(p) = {}, ~(SnapshotReads /\ session[p].queue = 0)
  PROVE  session[p].nodes \cap LeasedNodes = {}
  BY DEF Conflicts

\* lease_nodes is an acquisition of free nodes, but for a lease from a snapshot.
LEMMA LeaseNodesAcquires ==
  ASSUME TypeInv, NEW p \in Starter, LeaseNodes(p), ~LeaseFromSnapshot
  PROVE  NL!Next
<1>1. session[p].report \in Report /\ session[p].nodes \in SUBSET Node
  BY DEF LeaseNodes, TypeInv, TypeOK, Named, SessionNamed, ReportPC, SessionRec
<1>2. session[p].nodes \subseteq NL!Free
  BY <1>1, ConflictsSeen DEF LeaseNodes, LeaseFromSnapshot, NL!Free, LeasedNodes
<1>3. NL!Acquire(session[p].report, session[p].nodes)
  BY <1>2 DEF LeaseNodes, NL!Acquire
<1> QED
  BY <1>1, <1>3 DEF NL!Next

\* Who touches the leases at all.
LEMMA LeaseSteps ==
  ASSUME TypeInv, [Next]_vars
  PROVE  \/ UNCHANGED lease
         \/ \E p \in Starter : LeaseNodes(p)
         \/ \E r \in Report : lease' = lease \ Leases(r)
         \/ lease' = {}
<1> USE DEF dbRows, others, unseen, unmoved
<1>1. CASE \E p \in Caller : RequestStep(p) \/ ReplyStep(p)
  BY <1>1 DEF RequestStep, ReplyStep, RequestRun, RequestLegacyRun,
              RequestDebug, RequestQueuedRun, RequestCancel, Begin,
              Enqueue, Cancel
<1>2. CASE \E d \in Dispatcher : DispatchStep(d)
  BY <1>2 DEF DispatchStep, Scan, AbortScan, SkipRow, StartRow, Claim,
              Select, SelectRefused, PrepareBreaks, BindQueue, ConfirmStart
<1>3. ASSUME NEW p \in Starter, StartStep(p)
      PROVE  \/ UNCHANGED lease
             \/ LeaseNodes(p)
             \/ \E r \in Report : lease' = lease \ Leases(r)
  <2>1. CASE LeaseNodes(p)
    BY <2>1
  <2>2. CASE ReleaseUnlaunched(p)
    <3>1. session[p].report \in Report
      BY <2>2 DEF ReleaseUnlaunched, TypeInv, Named, SessionNamed, ReportPC
    <3> QED
      BY <2>2, <3>1 DEF ReleaseUnlaunched
  <2>3. CASE \/ PrepareFails(p) \/ MarkRunning(p) \/ AddReport(p)
             \/ LeaseConflict(p) \/ Launch(p) \/ LaunchFails(p) \/ MarkStartFailed(p)
    BY <2>3 DEF PrepareFails, MarkRunning, AddReport, LeaseConflict, Launch,
                LaunchFails, MarkStartFailed
  <2> QED
    BY <1>3, <2>1, <2>2, <2>3 DEF StartStep
<1>4. ASSUME NEW r \in Report, TaskStep(r)
      PROVE  \/ UNCHANGED lease
             \/ lease' = lease \ Leases(r)
  <2>1. CASE ReleaseLeases(r)
    BY <2>1 DEF ReleaseLeases
  <2>2. CASE \/ Spawn(r) \/ SpawnFails(r) \/ MarkRunRunning(r) \/ Exit(r)
             \/ ReadReport(r) \/ CommitResult(r) \/ ReadRun(r) \/ FinishRun(r)
    BY <2>2 DEF Spawn, SpawnFails, MarkRunRunning, Exit, ReadReport,
                CommitResult, ReadRun, FinishRun
  <2> QED
    BY <1>4, <2>1, <2>2 DEF TaskStep
<1>5. ASSUME NEW k \in Killer, StopStep(k)
      PROVE  \/ UNCHANGED lease
             \/ \E r \in Report : lease' = lease \ Leases(r)
  <2>1. CASE StopRelease(k)
    BY <2>1 DEF StopRelease
  <2>2. CASE TimeoutCommit(k)
    BY <2>2 DEF TimeoutCommit
  <2>3. CASE \/ MarkRunStopping(k) \/ KillProcess(k) \/ StopRemote(k)
             \/ StopFinish(k)
    BY <2>3 DEF MarkRunStopping, KillProcess, StopRemote, StopFinish
  <2> QED
    BY <1>5, <2>1, <2>2, <2>3 DEF StopStep
<1>6. CASE \E k \in Stopper : StopRequest(k)
  BY <1>6 DEF StopRequest, StopCase, StopCaseWithoutReport, StopExecution
<1>7. CASE \E k \in Scanner, expired \in SUBSET Report : ScanTimeout(k, expired)
  BY <1>7 DEF ScanTimeout
<1>8. CASE Crash \/ StopLeftBehind \/ RecoverRepair
  BY <1>8 DEF Crash, StopLeftBehind, RecoverMark, RecoverKill, RecoverStop,
              RecoverRepair
<1>9. CASE RecoverLeases
  BY <1>9 DEF RecoverLeases
<1>10. CASE \/ \E r \in Report : OrphanExits(r)
            \/ \E n \in FlakyNode : NodeChanges(n)
            \/ UNCHANGED vars
  BY <1>10 DEF OrphanExits, NodeChanges, vars
<1> QED
  BY <1>1, <1>2, <1>3, <1>4, <1>5, <1>6, <1>7, <1>8, <1>9, <1>10
     DEF Next, RecoverStep

LEMMA StepImplementsService ==
  ASSUME TypeInv, [Next]_vars
  PROVE  NL!Next \/ LeaseFromSnapshot \/ UNCHANGED lease
<1>1. ASSUME NEW r \in Report, lease' = lease \ Leases(r)
      PROVE  NL!Next
  BY <1>1 DEF Leases, NL!Release, NL!Next
<1>2. ASSUME lease' = {}
      PROVE  NL!Next
  BY <1>2 DEF NL!ReleaseAll, NL!Next
<1> QED
  BY <1>1, <1>2, LeaseSteps, LeaseNodesAcquires

\* The leases of the execution services keep to the abstract lease service: a
\* report takes free nodes, all it needs in one step, and a release returns all
\* of them, however requests, dispatcher, stops and restarts interleave.  Under
\* the deployed isolation one step departs from it, the lease of a direct run
\* (lease_nodes looks the leases up in a snapshot older than its row locks).
THEOREM LeasesImplementService == Spec => LeaseServiceOrSnapshot
<1>1. Init => NL!Init
  BY DEF Init, NL!Init
<1>2. TypeInv /\ [Next]_vars => [NL!Next \/ LeaseFromSnapshot]_lease
  BY StepImplementsService
<1> QED
  BY <1>1, <1>2, SpecTypeInv, PTL DEF Spec, LeaseServiceOrSnapshot
=============================================================================
