---------------------------- MODULE ProcessProofs ----------------------------
(***************************************************************************)
(* A JMeter process is never lost: while the master is up its background   *)
(* task waits for it, and after a crash the run record leads recovery to   *)
(* it.  And recovery hands over a clean state, for every value of the      *)
(* constants and every number of crashes, also of crashes amid recovery.   *)
(***************************************************************************)
EXTENDS ExecutionProofs

\* The positions of a session whose report has no background task yet.
BeforeTask == {"bind", "lease", "launch"}
\* The positions of a session that has made a report and not handed it over.
Launching == BeforeTask \cup {"failing"}

\* A report row is new until AddReport fills it: no task, no session has it.
FreshUntouched ==
    \A r \in Report : report[r].status = "none" =>
        /\ task[r].pc = "none"
        /\ \A p \in Starter : session[p].pc \in Launching => session[p].report # r

\* One session launches a report, and only one.
OneLauncher ==
    \A p \in Starter : session[p].pc \in Launching =>
        /\ task[session[p].report].pc = "none"
        /\ \A o \in Starter \ {p} :
             session[o].pc \in Launching => session[o].report # session[p].report

\* The run record is active before the process exists and until it is gone.
RecordedFirst ==
    \A r \in Report : task[r].pc \in {"created", "spawned", "running"} =>
        run[r] \in RunActive

\* A crash leaves no coroutine.
NothingRunsDown ==
    ~Up => /\ \A p \in Starter : session[p].pc = "idle"
           /\ \A r \in Report : task[r].pc = "none"

ProcessInv == /\ FreshUntouched /\ OneLauncher /\ RecordedFirst
              /\ NothingRunsDown /\ ProcessRecorded

-----------------------------------------------------------------------------
(* What most steps keep: they fill no report row, give no session a report *)
(* of its own, and move no task.                                           *)

ReportsStayUsed ==
    \A r \in Report : report'[r].status = "none" => report[r].status = "none"
LaunchersKept ==
    \A p \in Starter : session'[p].pc \in Launching =>
        session[p].pc \in Launching /\ session'[p].report = session[p].report
RunsStayActive == \A r \in Report : run[r] \in RunActive => run'[r] \in RunActive

\* A step that only takes sessions, runs and processes further.
LEMMA QuietStep ==
  ASSUME TypeInv, ProcessInv, Up, UNCHANGED <<task, master>>,
         ReportsStayUsed, LaunchersKept, RunsStayActive, alive' \subseteq alive
  PROVE  ProcessInv'
<1>1. FreshUntouched'
  BY DEF ProcessInv, FreshUntouched, ReportsStayUsed, LaunchersKept
<1>2. OneLauncher'
  BY DEF ProcessInv, OneLauncher, LaunchersKept
<1>3. RecordedFirst' /\ NothingRunsDown' /\ ProcessRecorded'
  BY DEF ProcessInv, RecordedFirst, NothingRunsDown, ProcessRecorded,
         RunsStayActive, Up, TypeInv, TypeOK
<1> QED
  BY <1>1, <1>2, <1>3 DEF ProcessInv

LEMMA UnchangedQuiet ==
  /\ UNCHANGED report => ReportsStayUsed
  /\ UNCHANGED session => LaunchersKept
  /\ UNCHANGED run => RunsStayActive
  BY DEF ReportsStayUsed, LaunchersKept, RunsStayActive

\* Only Goto(p, "lease") of BindQueue and Goto(p, "launch") of LeaseNodes stay
\* before the launch.
LEMMA GotoQuiet ==
  ASSUME TypeInv, NEW p \in Starter, NEW pc, Goto(p, pc),
         pc \in Launching => session[p].pc \in Launching
  PROVE  LaunchersKept
  BY DEF TypeInv, TypeOK, Goto, LaunchersKept, SessionRec

LEMMA EndSessionQuiet ==
  ASSUME TypeInv, NEW p \in Starter, EndSession(p)
  PROVE  LaunchersKept
  BY DEF TypeInv, TypeOK, EndSession, LaunchersKept, Idle, Launching, BeforeTask

LEMMA SessionQuiet ==
  ASSUME TypeInv, NEW p \in Starter, NEW s, s.pc \notin Launching,
         session' = [session EXCEPT ![p] = s]
  PROVE  LaunchersKept
  BY DEF TypeInv, TypeOK, LaunchersKept

LEMMA FailStartQuiet ==
  ASSUME TypeInv, NEW p \in Starter, NEW S, FailStart(p, S)
  PROVE  ReportsStayUsed
  BY DEF TypeInv, TypeOK, ReportRow, FailStart, ReportsStayUsed

LEMMA StartFailedQuiet ==
  ASSUME TypeInv, NEW p \in Starter, StartFailed(p)
  PROVE  ReportsStayUsed
  BY FailStartQuiet DEF StartFailed

-----------------------------------------------------------------------------
(* One step per group of actions. *)

LEMMA RequestProcess ==
  ASSUME TypeInv, ProcessInv, NEW p \in Caller, RequestStep(p) \/ ReplyStep(p)
  PROVE  ProcessInv'
<1> USE DEF dbRows, others
<1>0. p \in Starter
  BY DEF Starter
<1>1. /\ Up /\ UNCHANGED <<task, master, report, run, alive>>
      /\ \E s : s.pc \notin Launching /\ session' = [session EXCEPT ![p] = s]
  <2>1. ASSUME NEW c, NEW g, NEW nodes, NEW b, Begin(p, c, g, nodes, b)
        PROVE  /\ UNCHANGED <<task, master, report, run, alive>>
               /\ \E s : s.pc \notin Launching /\ session' = [session EXCEPT ![p] = s]
    BY <2>1 DEF Begin, Launching, BeforeTask, Idle
  <2>2. CASE RequestRun(p) \/ RequestLegacyRun(p) \/ RequestDebug(p)
    BY <2>1, <2>2 DEF RequestRun, RequestLegacyRun, RequestDebug
  <2>3. CASE RequestQueuedRun(p) \/ RequestCancel(p)
    BY <2>3 DEF RequestQueuedRun, RequestCancel, Launching, BeforeTask, Idle
  <2>4. CASE Enqueue(p) \/ Cancel(p)
    BY <2>4 DEF Enqueue, Cancel, EndSession, Launching, BeforeTask, Idle
  <2> QED
    BY <2>2, <2>3, <2>4 DEF RequestStep, ReplyStep
<1> QED
  BY <1>0, <1>1, SessionQuiet, UnchangedQuiet, QuietStep

LEMMA DispatchProcess ==
  ASSUME TypeInv, ProcessInv, NEW d \in Dispatcher, DispatchStep(d)
  PROVE  ProcessInv'
<1> USE DEF dbRows, others
<1>0. d \in Starter
  BY DEF Starter
<1>1. Up /\ UNCHANGED <<task, master, report, run, alive>>
  BY DEF DispatchStep, Scan, AbortScan, SkipRow, StartRow, Claim, Select,
         SelectRefused, PrepareBreaks, BindQueue, ConfirmStart, Visit
<1>2. LaunchersKept
  <2>1. CASE Scan(d) \/ AbortScan(d) \/ SkipRow(d)
    BY <2>1, UnchangedQuiet DEF Scan, AbortScan, SkipRow
  <2>2. CASE StartRow(d)
    <3>1. PICK s : s.pc \notin Launching /\ session' = [session EXCEPT ![d] = s]
      BY <2>2 DEF StartRow, Launching, BeforeTask, Idle
    <3> QED
      BY <1>0, <3>1, SessionQuiet
  <2>3. CASE Claim(d)
    BY <1>0, <2>3, EndSessionQuiet, GotoQuiet DEF Claim, Launching, BeforeTask
  <2>4. CASE Select(d)
    <3>1. PICK nodes : session' = [session EXCEPT ![d] =
                         [session[d] EXCEPT !.pc = "prepare", !.nodes = nodes]]
      BY <2>4 DEF Select
    <3>2. [session[d] EXCEPT !.pc = "prepare", !.nodes = nodes].pc \notin Launching
      BY <1>0 DEF TypeInv, TypeOK, SessionRec, Launching, BeforeTask
    <3> QED
      BY <1>0, <3>1, <3>2, SessionQuiet
  <2>5. CASE SelectRefused(d) \/ PrepareBreaks(d) \/ ConfirmStart(d)
    BY <1>0, <2>5, EndSessionQuiet DEF SelectRefused, PrepareBreaks, ConfirmStart
  <2>6. CASE BindQueue(d)
    BY <1>0, <2>6, GotoQuiet DEF BindQueue, Launching, BeforeTask
  <2> QED
    BY <2>1, <2>2, <2>3, <2>4, <2>5, <2>6 DEF DispatchStep
<1> QED
  BY <1>1, <1>2, UnchangedQuiet, QuietStep

\* AddReport: the new report has no task and no other session.
LEMMA AddReportProcess ==
  ASSUME TypeInv, ProcessInv, NEW p \in Starter, AddReport(p)
  PROVE  ProcessInv'
<1> USE DEF others
<1>1. PICK r \in Report :
        /\ report[r].status = "none"
        /\ report' = [report EXCEPT ![r] =
                        [status |-> "RUN_ING", case |-> session[p].case,
                         region |-> session[p].region,
                         nodes |-> session[p].nodes]]
        /\ session'[p].report = r
        /\ \A o \in Starter \ {p} : session'[o] = session[o]
  <2> DEFINE view == IF SnapshotReads THEN session[p].nodes \cap LeasedNodes ELSE {}
             rec(r) == [session[p] EXCEPT
               !.pc = IF session[p].queue = 0 THEN "lease" ELSE "bind",
               !.report = r, !.view = view]
  <2>1. PICK r \in Report :
          /\ report[r].status = "none"
          /\ report' = [report EXCEPT ![r] =
                          [status |-> "RUN_ING", case |-> session[p].case,
                           region |-> session[p].region,
                           nodes |-> session[p].nodes]]
          /\ session' = [session EXCEPT ![p] = rec(r)]
    BY DEF AddReport, FirstOf
  <2>2. rec(r).report = r
    <3> HIDE DEF view
    <3> QED
      BY DEF TypeInv, TypeOK, SessionRec
  <2> HIDE DEF rec
  <2>3. session'[p].report = r /\ \A o \in Starter \ {p} : session'[o] = session[o]
    BY <2>1, <2>2 DEF TypeInv, TypeOK
  <2> QED
    BY <2>1, <2>3
<1>2. /\ Up /\ Up' /\ UNCHANGED <<task, run, alive, master>>
  BY DEF AddReport, Up
<1>3. /\ task[r].pc = "none"
      /\ \A o \in Starter : session[o].pc \in Launching => session[o].report # r
  BY <1>1 DEF ProcessInv, FreshUntouched
<1>4. FreshUntouched'
  BY <1>1, <1>2 DEF ProcessInv, FreshUntouched, TypeInv, TypeOK
<1>5. OneLauncher'
  BY <1>1, <1>2, <1>3 DEF ProcessInv, OneLauncher
<1>6. RecordedFirst' /\ NothingRunsDown' /\ ProcessRecorded'
  BY <1>2 DEF ProcessInv, RecordedFirst, NothingRunsDown, ProcessRecorded
<1> QED
  BY <1>4, <1>5, <1>6 DEF ProcessInv

\* Launch: the run record and the task appear together, before the process.
LEMMA LaunchProcess ==
  ASSUME TypeInv, ProcessInv, NEW p \in Starter, Launch(p)
  PROVE  ProcessInv'
<1> USE DEF others
<1> DEFINE r == session[p].report
<1>1. /\ Up /\ Up' /\ UNCHANGED <<report, alive, master>>
      /\ session[p].pc \in Launching /\ r \in Report
      /\ run' = [run EXCEPT ![r] = "preparing"]
      /\ task' = [task EXCEPT ![r] = [NoTask EXCEPT !.pc = "created"]]
  BY DEF Launch, Up, Launching, BeforeTask, TypeInv, Named, SessionNamed, ReportPC
<1>2. /\ session'[p].pc \notin Launching
      /\ \A o \in Starter \ {p} : session'[o] = session[o]
  BY DEF Launch, EndSession, Goto, Idle, Launching, BeforeTask, TypeInv, TypeOK, SessionRec
<1>3. task'[r].pc = "created" /\ \A s \in Report \ {r} : task'[s] = task[s]
  BY <1>1 DEF TypeInv, TypeOK, NoTask
<1>4. report[r].status # "none" /\ task[r].pc = "none" /\ r \notin alive
  BY <1>1 DEF ProcessInv, FreshUntouched, OneLauncher, ProcessRecorded
<1>5. run'[r] \in RunActive /\ \A s \in Report \ {r} : run'[s] = run[s]
  BY <1>1 DEF TypeInv, TypeOK, RunActive
<1> HIDE DEF r
<1>6. FreshUntouched'
  BY <1>1, <1>2, <1>3, <1>4 DEF ProcessInv, FreshUntouched
<1>7. OneLauncher'
  <2> SUFFICES ASSUME NEW o \in Starter, session'[o].pc \in Launching
               PROVE  /\ task'[session'[o].report].pc = "none"
                      /\ \A u \in Starter \ {o} : session'[u].pc \in Launching =>
                           session'[u].report # session'[o].report
    BY DEF OneLauncher
  <2>1. o # p /\ session'[o] = session[o] /\ session[o].report \in Report
    BY <1>2 DEF TypeInv, Named, SessionNamed, ReportPC, Launching, BeforeTask
  <2>2. session[o].report # r
    BY <1>1, <2>1 DEF r, ProcessInv, OneLauncher
  <2> QED
    BY <1>2, <1>3, <2>1, <2>2 DEF ProcessInv, OneLauncher
<1>8. RecordedFirst'
  BY <1>3, <1>5 DEF ProcessInv, RecordedFirst
<1>9. NothingRunsDown' /\ ProcessRecorded'
  BY <1>1, <1>3, <1>4, <1>5
     DEF ProcessInv, NothingRunsDown, ProcessRecorded, TypeInv, TypeOK
<1> QED
  BY <1>6, <1>7, <1>8, <1>9 DEF ProcessInv

LEMMA StartProcess ==
  ASSUME TypeInv, ProcessInv, NEW p \in Starter, StartStep(p)
  PROVE  ProcessInv'
<1> USE DEF dbRows, others
<1>1. CASE PrepareFails(p)
  BY <1>1, EndSessionQuiet, UnchangedQuiet, QuietStep DEF PrepareFails
<1>2. CASE MarkRunning(p)
  BY <1>2, GotoQuiet, UnchangedQuiet, QuietStep DEF MarkRunning, Launching, BeforeTask
<1>3. CASE LeaseNodes(p)
  BY <1>3, GotoQuiet, UnchangedQuiet, QuietStep DEF LeaseNodes, Launching, BeforeTask
<1>4. CASE LeaseConflict(p)
  BY <1>4, StartFailedQuiet, EndSessionQuiet, UnchangedQuiet, QuietStep
     DEF LeaseConflict
<1>5. CASE LaunchFails(p)
  <2>1. ReportsStayUsed
    BY <1>5, LaunchFailsWrites, FailStartQuiet, UnchangedQuiet
  <2>2. LaunchersKept
    BY <1>5, LaunchFailsWrites, GotoQuiet DEF Launching, BeforeTask
  <2> QED
    BY <1>5, <2>1, <2>2, LaunchFailsWrites, UnchangedQuiet, QuietStep
<1>6. CASE ReleaseUnlaunched(p)
  BY <1>6, EndSessionQuiet, UnchangedQuiet, QuietStep DEF ReleaseUnlaunched
<1>7. CASE MarkStartFailed(p)
  BY <1>7, StartFailedQuiet, GotoQuiet, UnchangedQuiet, QuietStep
     DEF MarkStartFailed, Launching, BeforeTask
<1> QED
  BY <1>1, <1>2, <1>3, <1>4, <1>5, <1>6, <1>7, AddReportProcess, LaunchProcess
     DEF StartStep

\* The background task alone spawns the process and waits for it, and it gives
\* up the run record only when the process is gone.
LEMMA TaskProcess ==
  ASSUME TypeInv, ProcessInv, NEW r \in Report, TaskStep(r)
  PROVE  ProcessInv'
<1> USE DEF unseen
<1>1. /\ Up /\ Up' /\ UNCHANGED <<session, master>>
      /\ task[r].pc # "none" /\ task'[r].pc # "none"
      /\ \A s \in Report \ {r} : task'[s] = task[s] /\ run'[s] = run[s]
  <2>1. task \in [Report -> TaskRec] /\ run \in [Report -> RunStatus]
    BY DEF TypeInv, TypeOK
  <2>2. CASE Spawn(r) \/ MarkRunRunning(r) \/ FinishRun(r) \/ ReleaseLeases(r)
    BY <2>1, <2>2 DEF Spawn, MarkRunRunning, FinishRun, ReleaseLeases,
                      TaskGoto, TaskRec, Up
  <2>3. CASE SpawnFails(r) \/ Exit(r)
    BY <2>1, <2>3, ZenonT(40) DEF SpawnFails, Exit, TaskRec, Up
  <2>4. CASE ReadReport(r)
    BY <2>1, <2>4, ZenonT(40) DEF ReadReport, TaskGoto, TaskRec, Up
  <2>5. CASE CommitResult(r)
    BY <2>1, <2>5 DEF CommitResult, TaskRec, Up
  <2>6. CASE ReadRun(r)
    BY <2>1, <2>6 DEF ReadRun, TaskRec, Up
  <2> QED
    BY <2>2, <2>3, <2>4, <2>5, <2>6 DEF TaskStep
<1>2. ReportsStayUsed
  <2>1. CASE CommitResult(r)
    BY <2>1 DEF CommitResult, Verdict, ReportsStayUsed, TypeInv, TypeOK, ReportRow
  <2>2. CASE ~CommitResult(r)
    BY <2>2, UnchangedQuiet
       DEF TaskStep, Spawn, SpawnFails, MarkRunRunning, Exit, ReadReport,
           ReadRun, FinishRun, ReleaseLeases
  <2> QED
    BY <2>1, <2>2
<1>3. FreshUntouched'
  BY <1>1, <1>2 DEF ProcessInv, FreshUntouched, ReportsStayUsed
<1>4. OneLauncher'
  <2>1. \A p \in Starter : session[p].pc \in Launching =>
          session[p].report \in Report \ {r}
    BY <1>1 DEF ProcessInv, OneLauncher, TypeInv, Named, SessionNamed, ReportPC,
                Launching, BeforeTask
  <2> QED
    BY <1>1, <2>1 DEF ProcessInv, OneLauncher
<1>5. /\ alive' \ {r} = alive \ {r}
      /\ r \in alive' => run'[r] \in RunActive /\ task'[r].pc \in {"spawned", "running"}
      /\ task'[r].pc \in {"created", "spawned", "running"} => run'[r] \in RunActive
  <2>1. /\ task \in [Report -> TaskRec] /\ run \in [Report -> RunStatus]
        /\ r \in alive => task[r].pc \in {"spawned", "running"} /\ run[r] \in RunActive
        /\ task[r].pc \in {"created", "spawned", "running"} => run[r] \in RunActive
    BY <1>1 DEF TypeInv, TypeOK, ProcessInv, ProcessRecorded, RecordedFirst
  <2>2. CASE Spawn(r) \/ MarkRunRunning(r)
    BY <2>1, <2>2 DEF Spawn, MarkRunRunning, TaskGoto, TaskRec, RunActive
  <2>3. CASE FinishRun(r) \/ ReleaseLeases(r)
    BY <2>1, <2>3 DEF FinishRun, ReleaseLeases, TaskGoto, TaskRec
  <2>4. CASE SpawnFails(r) \/ Exit(r)
    <3>1. task'[r].pc = "exited"
      <4>1. CASE SpawnFails(r)
        BY <2>1, <4>1 DEF SpawnFails, TaskRec
      <4>2. CASE Exit(r)
        BY <2>1, <4>2 DEF Exit, TaskRec
      <4> QED
        BY <2>4, <4>1, <4>2
    <3>2. alive' \ {r} = alive \ {r} /\ r \notin alive'
      <4>1. CASE SpawnFails(r)
        BY <2>1, <4>1 DEF SpawnFails
      <4>2. CASE Exit(r)
        BY <4>2 DEF Exit
      <4> QED
        BY <2>4, <4>1, <4>2
    <3> QED
      BY <3>1, <3>2
  <2>5. CASE ReadReport(r)
    <3>1. UNCHANGED <<alive, run>> /\ task[r].pc = "exited"
      BY <2>5 DEF ReadReport
    <3>2. task'[r].pc \in {"commit", "release", "finish"}
      BY <2>1, <2>5, ZenonT(40) DEF ReadReport, TaskGoto, TaskRec
    <3> QED
      BY <2>1, <3>1, <3>2
  <2>6. CASE CommitResult(r)
    BY <2>1, <2>6 DEF CommitResult, TaskRec
  <2>7. CASE ReadRun(r)
    BY <2>1, <2>7 DEF ReadRun, TaskRec
  <2> QED
    BY <2>2, <2>3, <2>4, <2>5, <2>6, <2>7 DEF TaskStep
<1>6. RecordedFirst' /\ NothingRunsDown'
  BY <1>1, <1>5 DEF ProcessInv, RecordedFirst, NothingRunsDown
<1>7. ProcessRecorded'
  <2>1. alive' \subseteq alive \cup {r} /\ alive \subseteq Report
    BY <1>5 DEF TypeInv, TypeOK
  <2> QED
    BY <1>1, <1>5, <2>1 DEF ProcessInv, ProcessRecorded, Up
<1> QED
  BY <1>3, <1>4, <1>6, <1>7 DEF ProcessInv

\* A stop marks the run record active once more before it kills the process.
LEMMA StopProcess ==
  ASSUME TypeInv, ProcessInv, NEW k \in Killer, NEW R,
         StopRequest(k) \/ ScanTimeout(k, R) \/ StopStep(k)
  PROVE  ProcessInv'
<1> USE DEF unmoved
<1>0. ASSUME NEW T, NEW b, FailReports(k, T, b)
      PROVE  ReportsStayUsed
  BY <1>0 DEF FailReports, ReportsStayUsed, TypeInv, TypeOK, ReportRow
<1>1. Up /\ UNCHANGED <<task, session, master>> /\ alive' \subseteq alive
  BY DEF StopRequest, StopCase, StopCaseWithoutReport, StopExecution, ScanTimeout,
         StopStep, MarkRunStopping, KillProcess, StopRelease, StopRemote,
         StopFinish, TimeoutCommit
<1>2. RunsStayActive
  <2>1. CASE MarkRunStopping(k)
    BY <2>1 DEF MarkRunStopping, RunsStayActive, RunActive, TypeInv, TypeOK
  <2>2. CASE ~MarkRunStopping(k)
    BY <2>2, UnchangedQuiet
       DEF StopRequest, StopCase, StopCaseWithoutReport, StopExecution,
           ScanTimeout, StopStep, KillProcess, StopRelease, StopRemote,
           StopFinish, TimeoutCommit
  <2> QED
    BY <2>1, <2>2
<1>3. ReportsStayUsed
  BY <1>0, UnchangedQuiet
     DEF StopRequest, StopCase, StopCaseWithoutReport, StopExecution, ScanTimeout,
         StopStep, MarkRunStopping, KillProcess, StopRelease, StopRemote,
         StopFinish, TimeoutCommit
<1> QED
  BY <1>1, <1>2, <1>3, UnchangedQuiet, QuietStep

\* What happens to the master itself, or around it.
LEMMA MasterProcess ==
  ASSUME TypeInv, ProcessInv,
         \/ Crash \/ RecoverStep
         \/ \E r \in Report : OrphanExits(r)
         \/ \E n \in FlakyNode : NodeChanges(n)
  PROVE  ProcessInv'
<1> USE DEF dbRows
<1>1. CASE Crash
  <2>1. FreshUntouched' /\ OneLauncher' /\ RecordedFirst' /\ NothingRunsDown'
    BY <1>1 DEF Crash, FreshUntouched, OneLauncher, RecordedFirst,
                NothingRunsDown, Idle, NoTask, Launching, BeforeTask
  <2>2. ProcessRecorded'
    BY <1>1 DEF Crash, ProcessInv, ProcessRecorded, Up
  <2> QED
    BY <2>1, <2>2 DEF ProcessInv
<1>2. CASE RecoverStep
  <2>1. /\ ~Up /\ UNCHANGED <<task, session>>
        /\ \A p \in Starter : session[p].pc = "idle"
        /\ \A r \in Report : task[r].pc = "none"
    BY <1>2 DEF RecoverStep, StopLeftBehind, RecoverMark, RecoverKill,
                RecoverStop, RecoverRepair, RecoverLeases, Up,
                ProcessInv, NothingRunsDown
  <2>2. FreshUntouched' /\ OneLauncher' /\ RecordedFirst' /\ NothingRunsDown'
    BY <2>1 DEF FreshUntouched, OneLauncher, RecordedFirst, NothingRunsDown,
                Launching, BeforeTask
  <2>3. ProcessRecorded'
    <3>1. CASE StopLeftBehind
      <4>1. ASSUME NEW r \in Report, RecoverMark(r)
            PROVE  ProcessRecorded'
        BY <2>1, <4>1 DEF RecoverMark, ProcessInv, ProcessRecorded, RunActive,
                          Up, TypeInv, TypeOK
      <4>2. ASSUME NEW r \in Report, RecoverKill(r)
            PROVE  ProcessRecorded'
        BY <2>1, <4>2 DEF RecoverKill, ProcessInv, ProcessRecorded, Up
      <4>3. ASSUME RecoverStop
            PROVE  ProcessRecorded'
        BY <4>3 DEF RecoverStop, LeftBehind, ProcessInv, ProcessRecorded,
                    TypeInv, TypeOK
      <4> QED
        BY <3>1, <4>1, <4>2, <4>3 DEF StopLeftBehind
    <3>2. CASE RecoverRepair \/ RecoverLeases
      BY <3>2 DEF RecoverRepair, RecoverLeases, ProcessInv, ProcessRecorded
    <3> QED
      BY <1>2, <3>1, <3>2 DEF RecoverStep
  <2> QED
    BY <2>2, <2>3 DEF ProcessInv
<1>3. CASE \/ \E r \in Report : OrphanExits(r)
           \/ \E n \in FlakyNode : NodeChanges(n)
  BY <1>3 DEF OrphanExits, NodeChanges, ProcessInv, FreshUntouched, OneLauncher,
              RecordedFirst, NothingRunsDown, ProcessRecorded, Up
<1> QED
  BY <1>1, <1>2, <1>3

LEMMA NextProcessInv ==
  ASSUME TypeInv, ProcessInv, [Next]_vars
  PROVE  ProcessInv'
<1>1. CASE UNCHANGED vars
  BY <1>1 DEF vars, ProcessInv, FreshUntouched, OneLauncher, RecordedFirst,
              NothingRunsDown, ProcessRecorded, Up
<1>2. CASE \/ \E k \in Stopper : StopRequest(k)
           \/ \E k \in Scanner, expired \in SUBSET Report : ScanTimeout(k, expired)
           \/ \E k \in Killer : StopStep(k)
  BY <1>2, StopProcess DEF Killer
<1> QED
  BY <1>1, <1>2, RequestProcess, DispatchProcess, StartProcess, TaskProcess,
     MasterProcess DEF Next

LEMMA SpecProcessInv == Spec => [](TypeInv /\ ProcessInv)
<1>1. Init => ProcessInv
  BY DEF Init, ProcessInv, FreshUntouched, OneLauncher, RecordedFirst,
         NothingRunsDown, ProcessRecorded, Up, Idle, NoTask, Launching, BeforeTask
<1>2. TypeInv /\ ProcessInv /\ [Next]_vars => ProcessInv'
  BY NextProcessInv
<1> QED
  BY <1>1, <1>2, SpecTypeInv, PTL DEF Spec

\* A live JMeter process is on record as an active run, so that a restart finds
\* it, and while the master is up its background task waits for it: however
\* requests, stops, timeouts, crashes and crashes amid recovery interleave.
THEOREM ProcessesRecorded == Spec => []ProcessRecorded
<1>1. ProcessInv => ProcessRecorded
  BY DEF ProcessInv
<1> QED
  BY <1>1, SpecProcessInv, PTL

-----------------------------------------------------------------------------
(* Recovery.  Between its second and its third transaction the repaired rows *)
(* stay as they are: no coroutine exists that could touch them.              *)

RepairedInv ==
    master = "repaired" =>
        /\ Running = {} /\ alive = {}
        /\ \A c \in Case : tc[c] # "RUN_ING"
        /\ \A q \in Queue : queue[q].status # "running"
        /\ \A r \in Report : run[r] \notin RunActive

\* While the master is down only a crash, recovery, an orphan or a node moves.
LEMMA DownSteps ==
  ASSUME ~Up, [Next]_vars
  PROVE  \/ Crash \/ RecoverStep \/ UNCHANGED vars
         \/ /\ UNCHANGED <<tc, report, queue, run, master, lease, task, session>>
            /\ alive' \subseteq alive
<1>1. \A p \in Caller : ~(RequestStep(p) \/ ReplyStep(p))
  BY DEF RequestStep, ReplyStep, RequestRun, RequestLegacyRun, RequestDebug,
         RequestQueuedRun, RequestCancel, Enqueue, Cancel
<1>2. \A d \in Dispatcher : ~DispatchStep(d)
  BY DEF DispatchStep, Scan, AbortScan, SkipRow, StartRow, Claim, Select,
         SelectRefused, PrepareBreaks, BindQueue, ConfirmStart, Visit
<1>3. \A p \in Starter : ~StartStep(p)
  BY DEF StartStep, PrepareFails, MarkRunning, AddReport, LeaseNodes,
         LeaseConflict, Launch, LaunchFails, MarkStartFailed, ReleaseUnlaunched
<1>4. \A r \in Report : ~TaskStep(r)
  BY DEF TaskStep, Spawn, SpawnFails, MarkRunRunning, Exit, ReadReport,
         CommitResult, ReadRun, FinishRun, ReleaseLeases
<1>5. /\ \A k \in Stopper : ~StopRequest(k)
      /\ \A k \in Scanner, R \in SUBSET Report : ~ScanTimeout(k, R)
      /\ \A k \in Killer : ~StopStep(k)
  BY DEF StopRequest, StopCase, StopCaseWithoutReport, StopExecution, ScanTimeout,
         StopStep, MarkRunStopping, KillProcess, StopRelease, StopRemote,
         StopFinish, TimeoutCommit
<1>6. CASE \/ \E r \in Report : OrphanExits(r)
           \/ \E n \in FlakyNode : NodeChanges(n)
  BY <1>6 DEF OrphanExits, NodeChanges, dbRows
<1> QED
  BY <1>1, <1>2, <1>3, <1>4, <1>5, <1>6 DEF Next

\* While it is up it goes down by a crash, and in no other way.
LEMMA NextUp ==
  ASSUME Up, [Next]_vars
  PROVE  Crash \/ Up'
<1> USE DEF others, dbRows, unseen, unmoved
<1>1. CASE \E p \in Caller : RequestStep(p) \/ ReplyStep(p)
  BY <1>1 DEF Up, RequestStep, ReplyStep, RequestRun, RequestLegacyRun,
              RequestDebug, RequestQueuedRun, RequestCancel, Enqueue, Cancel, Begin
<1>2. CASE \E d \in Dispatcher : DispatchStep(d)
  BY <1>2 DEF Up, DispatchStep, Scan, AbortScan, SkipRow, StartRow, Claim, Select,
              SelectRefused, PrepareBreaks, BindQueue, ConfirmStart
<1>3. CASE \E p \in Starter : StartStep(p)
  BY <1>3 DEF Up, StartStep, PrepareFails, MarkRunning, AddReport, LeaseNodes,
              LeaseConflict, Launch, LaunchFails, MarkStartFailed, ReleaseUnlaunched
<1>4. CASE \E r \in Report : TaskStep(r) \/ OrphanExits(r)
  BY <1>4 DEF Up, TaskStep, Spawn, SpawnFails, MarkRunRunning, Exit, ReadReport,
              CommitResult, ReadRun, FinishRun, ReleaseLeases, OrphanExits
<1>5. CASE \/ \E k \in Stopper : StopRequest(k)
           \/ \E k \in Scanner, expired \in SUBSET Report : ScanTimeout(k, expired)
           \/ \E k \in Killer : StopStep(k)
  BY <1>5 DEF Up, StopRequest, StopCase, StopCaseWithoutReport, StopExecution,
              ScanTimeout, StopStep, MarkRunStopping, KillProcess, StopRelease,
              StopRemote, StopFinish, TimeoutCommit
<1>6. CASE UNCHANGED vars \/ RecoverStep \/ \E n \in FlakyNode : NodeChanges(n)
  BY <1>6 DEF Up, vars, RecoverStep, StopLeftBehind, RecoverMark, RecoverKill,
              RecoverStop, RecoverRepair, RecoverLeases,
              NodeChanges
<1> QED
  BY <1>1, <1>2, <1>3, <1>4, <1>5, <1>6 DEF Next

LEMMA NextRepairedInv ==
  ASSUME TypeInv, ProcessInv, RepairedInv, [Next]_vars
  PROVE  RepairedInv'
<1>1. CASE ~Up
  <2>1. CASE RecoverRepair
    <3>1. Running' = {} /\ \A c \in Case : tc'[c] # "RUN_ING"
      BY <2>1 DEF RecoverRepair, RepairReports, Running, TypeInv, TypeOK, ReportRow
    <3>2. \A q \in Queue : queue'[q].status # "running"
      BY <2>1 DEF RecoverRepair, InterruptedQueueStatus, TypeInv, TypeOK, QueueRow
    <3>3. /\ \A r \in Report : run'[r] \notin RunActive
          /\ alive' = {}
      BY <2>1 DEF RecoverRepair, RunActive, ProcessInv, ProcessRecorded
    <3> QED
      BY <3>1, <3>2, <3>3 DEF RepairedInv
  <2>2. CASE Crash \/ StopLeftBehind \/ RecoverLeases
    BY <2>2 DEF Crash, StopLeftBehind, RecoverMark, RecoverKill, RecoverStop,
                RecoverLeases, RepairedInv
  <2>3. CASE \/ UNCHANGED vars
             \/ UNCHANGED <<tc, report, queue, run, master, lease>> /\ alive' \subseteq alive
    BY <2>3 DEF vars, RepairedInv, Running
  <2> QED
    BY <1>1, <2>1, <2>2, <2>3, DownSteps DEF RecoverStep
<1>2. CASE Up
  <2>1. master' # "repaired"
    BY <1>2, NextUp DEF Up, Crash
  <2> QED
    BY <2>1 DEF RepairedInv
<1> QED
  BY <1>1, <1>2

\* Recovery hands over a clean state: nothing runs, nothing is leased, no
\* process is left, whatever the crashed master was doing.
THEOREM RecoveryHandsOverClean == Spec => RecoveryClean
<1>1. Init => RepairedInv
  BY DEF Init, RepairedInv
<1>2. TypeInv /\ ProcessInv /\ RepairedInv /\ [Next]_vars => RepairedInv'
  BY NextRepairedInv
<1>3. TypeInv /\ ProcessInv /\ RepairedInv /\ [Next]_vars =>
        [~Up /\ Up' =>
           /\ Running' = {} /\ lease' = {} /\ alive' = {}
           /\ \A c \in Case : tc'[c] # "RUN_ING"
           /\ \A q \in Queue : queue'[q].status # "running"
           /\ \A r \in Report : run'[r] \notin RunActive]_vars
  <2> SUFFICES ASSUME TypeInv, ProcessInv, RepairedInv, [Next]_vars, ~Up, Up'
               PROVE  /\ Running' = {} /\ lease' = {} /\ alive' = {}
                      /\ \A c \in Case : tc'[c] # "RUN_ING"
                      /\ \A q \in Queue : queue'[q].status # "running"
                      /\ \A r \in Report : run'[r] \notin RunActive
    OBVIOUS
  <2>1. RecoverLeases
    BY DownSteps DEF Up, vars, Crash, RecoverStep, StopLeftBehind, RecoverMark,
                     RecoverKill, RecoverStop, RecoverRepair
  <2> QED
    BY <2>1 DEF RecoverLeases, RepairedInv, Running
<1> QED
  BY <1>1, <1>2, <1>3, SpecProcessInv, PTL DEF Spec, RecoveryClean

\* A row that waits in the queue is still there, untouched, after any number of
\* crashes and restarts.
THEOREM PendingRowsSurvive == Spec => PendingSurvives
<1>1. TypeInv /\ [Next]_vars =>
        [(~Up \/ ~Up') =>
           \A q \in Queue : queue[q].status = "pending" =>
                              queue'[q] = queue[q]]_vars
  <2> SUFFICES ASSUME TypeInv, [Next]_vars, ~Up \/ ~Up', NEW q \in Queue,
                      queue[q].status = "pending"
               PROVE  queue'[q] = queue[q]
    OBVIOUS
  <2>1. CASE RecoverRepair
    BY <2>1 DEF RecoverRepair, InterruptedQueueStatus
  <2>2. CASE Crash \/ StopLeftBehind \/ RecoverLeases
    BY <2>2 DEF Crash, StopLeftBehind, RecoverMark, RecoverKill, RecoverStop,
                RecoverLeases
  <2>3. CASE \/ UNCHANGED vars
             \/ UNCHANGED <<tc, report, queue, run, master, lease>>
    BY <2>3 DEF vars
  <2>4. CASE Up
    BY <2>2, <2>4, NextUp DEF Up
  <2> QED
    BY <2>1, <2>2, <2>3, <2>4, DownSteps DEF RecoverStep
<1> QED
  BY <1>1, SpecTypeInv, PTL DEF Spec, PendingSurvives
=============================================================================
