--------------------------- MODULE OutcomeProofs ---------------------------
(***************************************************************************)
(* What a run nobody stops can rely on: its slave nodes are its own while  *)
(* its JMeter process lives, its queue row starts it once, and the row     *)
(* shows what became of it.  A stop and a timeout take the nodes back and  *)
(* overwrite what they find, so each theorem says which runs it is about.  *)
(***************************************************************************)
EXTENDS RunProofs

-----------------------------------------------------------------------------
(* A run is undisturbed while it is shown as running and no stop and no     *)
(* timeout has it on its list.                                             *)

KillerShape ==
    \A k \in Killer :
        /\ killer[k].pc \in {"idle", "finish"} => killer[k].todo = {}
        /\ killer[k].pc = "idle" => killer[k].marked = {}
        /\ k \in Scanner => /\ killer[k].marked = {}
                            /\ killer[k].pc \notin {"remote", "finish"}

Undisturbed(r) ==
    report[r].status = "RUN_ING" /\ \A k \in Killer : r \notin Claimed(k)

\* What a stop does to its list: it leaves out only what it has failed.
LEMMA StopClaims ==
  ASSUME TypeInv, KillerShape, NEW k \in Killer, NEW E,
         StopRequest(k) \/ ScanTimeout(k, E) \/ StopStep(k)
  PROVE  /\ killer'[k].pc \in {"idle", "finish"} => killer'[k].todo = {}
         /\ killer'[k].pc = "idle" => killer'[k].marked = {}
         /\ k \in Scanner => /\ killer'[k].marked = {}
                             /\ killer'[k].pc \notin {"remote", "finish"}
         /\ \A r \in Claimed(k) \ Claimed(k)' : report'[r].status = "RUN_FAILED"
         /\ Running' \subseteq Running
         /\ \A r \in Report \ Claimed(k) : Leases(r) \cap lease \subseteq lease'
<1>1. /\ killer[k].todo \in SUBSET Report /\ killer[k].marked \in SUBSET Report
      /\ ~(k \in Stopper /\ k \in Scanner)
  BY ExecutionAssumption DEF TypeInv, TypeOK, KillerRec
<1>2. Running' \subseteq Running
  BY StopEnds
<1>3. CASE StopCase(k) \/ StopExecution(k) \/ ScanTimeout(k, E)
  <2>1. /\ killer[k].pc = "idle" /\ killer'[k].pc = "mark"
        /\ killer'[k].marked = {} /\ UNCHANGED lease
    BY <1>3, StopBegins
  <2> QED
    BY <1>2, <2>1 DEF KillerShape, Claimed
<1>4. CASE StopCaseWithoutReport(k)
  BY <1>2, <1>4 DEF StopCaseWithoutReport, KillerShape, Claimed
<1>5. CASE MarkRunStopping(k) \/ KillProcess(k)
  <2>1. /\ killer'[k].pc \in {"kill", "release"}
        /\ killer'[k].todo = killer[k].todo
        /\ killer'[k].marked = killer[k].marked /\ UNCHANGED lease
    BY <1>5, KillerGotoMoves DEF MarkRunStopping, KillProcess
  <2> QED
    BY <1>2, <2>1 DEF KillerShape, Claimed
<1>6. CASE StopRelease(k)
  <2>1. /\ k \in Stopper /\ killer'[k].pc = "remote"
        /\ killer'[k].todo = killer[k].todo
    BY <1>6, StopReleases
  <2>2. CASE killer'[k].marked = killer[k].marked /\ UNCHANGED lease
    BY <1>1, <1>2, <2>1, <2>2 DEF Claimed
  <2>3. CASE /\ FailReports(k, killer[k].marked, TRUE)
             /\ killer'[k].marked = {}
             /\ \E r \in killer[k].todo : lease' = lease \ Leases(r)
    <3>1. \A r \in killer[k].marked : report'[r].status = "RUN_FAILED"
      BY <1>1, <2>3, FailReportsRows
    <3>2. \A r \in Report \ Claimed(k) : Leases(r) \cap lease \subseteq lease'
      BY <2>3 DEF Claimed, Leases
    <3> QED
      BY <1>1, <1>2, <2>1, <2>3, <3>1, <3>2 DEF Claimed
  <2> QED
    BY <1>6, <2>2, <2>3, StopReleases
<1>7. CASE StopRemote(k)
  <2>1. /\ killer[k].pc = "remote" /\ UNCHANGED lease
        /\ \E r \in killer[k].todo :
             /\ killer'[k].todo = killer[k].todo \ {r}
             /\ killer'[k].marked = killer[k].marked \cup {r}
             /\ killer'[k].pc = IF killer[k].todo = {r} THEN "finish" ELSE "mark"
    <3>1. killer[k].pc = "remote" /\ UNCHANGED lease
      BY <1>7, StopRemotes
    <3>2. PICK r \in killer[k].todo :
             /\ killer'[k].todo = killer[k].todo \ {r}
             /\ killer'[k].marked = killer[k].marked \cup {r}
             /\ killer'[k].pc = IF killer[k].todo = {r} THEN "finish" ELSE "mark"
      BY <1>7, StopRemotes
    <3> QED
      BY <3>1, <3>2
  <2> QED
    BY <1>2, <2>1 DEF KillerShape, Claimed
<1>8. CASE StopFinish(k)
  <2>1. /\ killer[k].pc = "finish" /\ killer'[k] = Resting /\ UNCHANGED lease
    BY <1>8 DEF StopFinish, TypeInv, TypeOK
  <2>2. \A r \in killer[k].marked : report'[r].status = "RUN_FAILED"
    <3>1. FailReports(k, killer[k].marked, TRUE)
      BY <1>8 DEF StopFinish
    <3> QED
      BY <1>1, <3>1, FailReportsRows
  <2> QED
    BY <1>2, <2>1, <2>2 DEF KillerShape, Claimed, Resting
<1>9. CASE TimeoutCommit(k)
  <2>1. PICK t \in killer[k].todo :
          /\ FailReports(k, {t}, FALSE)
          /\ lease' = lease \/ lease' = lease \ Leases(t)
          /\ killer'[k].todo = killer[k].todo \ {t}
          /\ \/ killer'[k] = Resting
             \/ killer'[k].pc = "mark" /\ killer'[k].marked = killer[k].marked
    BY <1>9, TimeoutCommits
  <2>2. k \in Scanner /\ killer[k].marked = {}
    BY <1>9, TimeoutCommits DEF KillerShape
  <2>3. report'[t].status = "RUN_FAILED"
    BY <1>1, <2>1, FailReportsRows
  <2>4. \A r \in Report \ Claimed(k) : Leases(r) \cap lease \subseteq lease'
    BY <2>1 DEF Claimed, Leases
  <2>5. /\ killer'[k].marked = {} /\ killer'[k].pc \in {"idle", "mark"}
        /\ killer'[k].pc = "idle" => killer'[k].todo = {}
    BY <2>1, <2>2 DEF Resting
  <2>6. Claimed(k) \ Claimed(k)' = {t}
    BY <2>1, <2>2, <2>5 DEF Claimed
  <2> QED
    BY <1>2, <2>2, <2>3, <2>4, <2>5, <2>6
<1> QED
  BY <1>3, <1>4, <1>5, <1>6, <1>7, <1>8, <1>9 DEF StopRequest, StopStep

\* A session that starts a run touches no stop and no process.
LEMMA StartMoves ==
  ASSUME TypeInv, NEW p \in Starter, StartStep(p)
  PROVE  Up /\ Up' /\ UNCHANGED <<killer, alive, master>> /\ OthersStay(p)
<1>1. Up /\ Up' /\ UNCHANGED <<killer, alive, master>>
  BY AddReportMoves, LaunchFailsWrites
     DEF StartStep, PrepareFails, MarkRunning, LeaseNodes, LeaseConflict,
         Launch, MarkStartFailed, ReleaseUnlaunched, dbRows, others, Up
<1>2. OthersStay(p)
  BY GotoMoves, EndSessionMoves, AddReportMoves, LaunchFailsWrites
     DEF StartStep, PrepareFails, MarkRunning, LeaseNodes, LeaseConflict,
         Launch, MarkStartFailed, ReleaseUnlaunched
<1> QED
  BY <1>1, <1>2

\* A background task writes rows at its commit only, and returns its nodes last.
LEMMA TaskKeeps ==
  ASSUME NEW r \in Report, TaskStep(r), ~CommitResult(r)
  PROVE  UNCHANGED <<tc, report, queue>> /\ (ReleaseLeases(r) \/ UNCHANGED lease)
<1>1. CASE \/ Spawn(r) \/ SpawnFails(r) \/ MarkRunRunning(r) \/ FinishRun(r)
           \/ ReleaseLeases(r)
  BY <1>1 DEF Spawn, SpawnFails, MarkRunRunning, FinishRun, ReleaseLeases
<1>2. CASE Exit(r)
  BY <1>2 DEF Exit
<1>3. CASE ReadReport(r)
  BY <1>3 DEF ReadReport
<1>4. CASE ReadRun(r)
  BY <1>4 DEF ReadRun
<1> QED
  BY <1>1, <1>2, <1>3, <1>4 DEF TaskStep

LEMMA NextKillerShape ==
  ASSUME TypeInv, KillerShape, [Next]_vars
  PROVE  KillerShape'
<1>1. CASE UNCHANGED killer
  BY <1>1 DEF KillerShape
<1>2. CASE \/ \E k \in Stopper : StopRequest(k)
           \/ \E k \in Scanner, expired \in SUBSET Report : ScanTimeout(k, expired)
           \/ \E k \in Killer : StopStep(k)
  <2>1. PICK k \in Killer :
               \E R : StopRequest(k) \/ ScanTimeout(k, R) \/ StopStep(k)
    BY <1>2 DEF Killer
  <2>2. \A o \in Killer \ {k} : killer'[o] = killer[o]
    BY <2>1, StopMoves
  <2> QED
    BY <2>1, <2>2, StopClaims DEF KillerShape
<1>3. CASE Crash
  BY <1>3 DEF Crash, KillerShape, Resting
<1>4. CASE \/ UNCHANGED vars \/ RecoverStep
           \/ \E n \in FlakyNode : NodeChanges(n)
           \/ \E r \in Report : OrphanExits(r)
  BY <1>1, <1>4 DEF vars, NodeChanges, OrphanExits, RecoverStep,
                    StopLeftBehind, RecoverMark, RecoverKill, RecoverStop,
                    RecoverRepair, RecoverLeases
<1>5. CASE \/ \E p \in Caller : RequestStep(p) \/ ReplyStep(p)
           \/ \E d \in Dispatcher : DispatchStep(d)
           \/ \E p \in Starter : StartStep(p)
           \/ \E r \in Report : TaskStep(r)
  BY <1>1, <1>5, RequestMoves, DispatchMoves, StartMoves, TaskMoves
<1> QED
  BY <1>2, <1>3, <1>4, <1>5 DEF Next

\* A report runs once: nothing returns it to RUN_ING.
LEMMA NextRunning ==
  ASSUME TypeInv, [Next]_vars
  PROVE  \A r \in Running' : report[r].status \in {"none", "RUN_ING"}
<1>1. CASE UNCHANGED report
  BY <1>1 DEF Running
<1>2. CASE \E p \in Starter : StartStep(p)
  <2>1. PICK p \in Starter : StartStep(p)
    BY <1>2
  <2>2. CASE AddReport(p)
    BY <2>2, AddReportMoves DEF Running
  <2>3. CASE (\E S : FailStart(p, S)) \/ UNCHANGED report
    BY <2>3, FailStartEnds DEF Running
  <2> QED
    BY <2>1, <2>2, <2>3, LaunchFailsWrites
       DEF StartStep, PrepareFails, MarkRunning, LeaseNodes, LeaseConflict,
           Launch, MarkStartFailed, StartFailed, ReleaseUnlaunched, dbRows
<1>3. CASE \E r \in Report : TaskStep(r)
  <2>1. PICK r \in Report : TaskStep(r)
    BY <1>3
  <2>2. CASE CommitResult(r)
    BY <2>2 DEF CommitResult, Verdict, Running, TypeInv, TypeOK, ReportRow
  <2>3. CASE ~CommitResult(r)
    BY <1>1, <2>1, <2>3, TaskKeeps
  <2> QED
    BY <2>2, <2>3
<1>4. CASE \/ \E k \in Stopper : StopRequest(k)
           \/ \E k \in Scanner, expired \in SUBSET Report : ScanTimeout(k, expired)
           \/ \E k \in Killer : StopStep(k)
  BY <1>4, StopEnds DEF Killer, Running
<1>5. CASE Crash \/ RecoverStep
  BY <1>5 DEF Crash, RecoverStep, StopLeftBehind, RecoverMark, RecoverKill,
              RecoverStop, RecoverRepair, RepairReports,
              RecoverLeases, Running, TypeInv, TypeOK, ReportRow
<1>6. CASE \/ UNCHANGED vars
           \/ \E n \in FlakyNode : NodeChanges(n)
           \/ \E r \in Report : OrphanExits(r)
  BY <1>1, <1>6 DEF vars, NodeChanges, OrphanExits, dbRows
<1>7. CASE \/ \E p \in Caller : RequestStep(p) \/ ReplyStep(p)
           \/ \E d \in Dispatcher : DispatchStep(d)
  BY <1>1, <1>7, RequestMoves, DispatchMoves
<1> QED
  BY <1>2, <1>3, <1>4, <1>5, <1>6, <1>7 DEF Next

\* A report that is undisturbed after a step of the running master was so
\* before, or has just been made.
LEMMA NextUndisturbed ==
  ASSUME TypeInv, KillerShape, Up, Up', [Next]_vars
  PROVE  \A r \in Report :
           Undisturbed(r)' => Undisturbed(r) \/ report[r].status = "none"
<1> SUFFICES ASSUME NEW r \in Report, Undisturbed(r)', report[r].status # "none"
             PROVE  \A k \in Killer : r \notin Claimed(k)
  BY NextRunning DEF Undisturbed, Running
<1>1. CASE UNCHANGED killer
  BY <1>1 DEF Undisturbed, Claimed
<1>2. CASE \/ \E k \in Stopper : StopRequest(k)
           \/ \E k \in Scanner, expired \in SUBSET Report : ScanTimeout(k, expired)
           \/ \E k \in Killer : StopStep(k)
  <2>1. PICK k \in Killer :
               \E R : StopRequest(k) \/ ScanTimeout(k, R) \/ StopStep(k)
    BY <1>2 DEF Killer
  <2>2. \A o \in Killer \ {k} : r \notin Claimed(o)
    BY <2>1, StopMoves DEF Claimed, Undisturbed
  <2>3. r \notin Claimed(k)
    BY <2>1, StopClaims DEF Undisturbed
  <2> QED
    BY <2>2, <2>3
<1>3. CASE Crash \/ RecoverStep
  BY <1>3 DEF Crash, RecoverStep, StopLeftBehind, RecoverMark, RecoverKill,
              RecoverStop, RecoverRepair, RecoverLeases, Up
<1>4. CASE \/ UNCHANGED vars
           \/ \E n \in FlakyNode : NodeChanges(n)
           \/ \E o \in Report : OrphanExits(o)
  BY <1>1, <1>4 DEF vars, NodeChanges, OrphanExits
<1>5. CASE \/ \E p \in Caller : RequestStep(p) \/ ReplyStep(p)
           \/ \E d \in Dispatcher : DispatchStep(d)
           \/ \E p \in Starter : StartStep(p)
           \/ \E o \in Report : TaskStep(o)
  BY <1>1, <1>5, RequestMoves, DispatchMoves, StartMoves, TaskMoves
<1> QED
  BY <1>2, <1>3, <1>4, <1>5 DEF Next

-----------------------------------------------------------------------------
(* The nodes of an undisturbed run are leased from the launch until JMeter  *)
(* is gone.                                                                *)

\* A failed launch has failed its report before it returns the nodes.
ReleaseOver ==
    \A p \in Starter : session[p].pc = "release" =>
        report[session[p].report].status \notin {"none", "RUN_ING"}

Engaged(r) ==
    \/ task[r].pc \in {"created", "spawned", "running"}
    \/ \E p \in Starter : session[p].report = r /\ session[p].pc = "launch"
NodesHeld ==
    \A r \in Report : Engaged(r) /\ Undisturbed(r) => {r} \X report[r].nodes \subseteq lease

HeldInv == KillerShape /\ ReleaseOver /\ NodesHeld

LEMMA NextReleaseOver ==
  ASSUME TypeInv, ProcessInv, ReleaseOver, [Next]_vars
  PROVE  ReleaseOver'
<1>0. /\ RowsStay
      /\ \A r \in Running' : report[r].status \in {"none", "RUN_ING"}
      /\ \A p \in Starter : session[p].pc = "release" => session[p].report \in Report
  BY NextRowsStay, NextRunning DEF TypeInv, Named, SessionNamed, ReportPC
<1>1. CASE \A p \in Starter : session'[p].pc = "release" =>
             session[p].pc = "release" /\ session'[p].report = session[p].report
  BY <1>0, <1>1 DEF ReleaseOver, RowsStay, Running
<1>2. CASE \E p \in Caller : RequestStep(p) \/ ReplyStep(p)
  BY <1>1, <1>2, RequestMoves DEF OthersStay
<1>3. CASE \E d \in Dispatcher : DispatchStep(d)
  BY <1>1, <1>3, DispatchMoves DEF OthersStay
<1>4. ASSUME NEW p \in Starter, StartStep(p)
      PROVE  ReleaseOver'
  <2>1. CASE PrepareFails(p) \/ LeaseConflict(p) \/ ReleaseUnlaunched(p) \/ Launch(p)
    <3>1. OthersStay(p) /\ session'[p].pc # "release"
      BY <2>1, EndSessionMoves, GotoMoves
         DEF PrepareFails, LeaseConflict, ReleaseUnlaunched, Launch, Idle
    <3> QED
      BY <1>1, <3>1 DEF OthersStay
  <2>2. CASE MarkRunning(p) \/ LeaseNodes(p)
    BY <1>1, <2>2, GotoMoves DEF MarkRunning, LeaseNodes, OthersStay
  <2>3. CASE AddReport(p)
    BY <1>1, <2>3, AddReportMoves DEF OthersStay
  <2>4. CASE LaunchFails(p) \/ MarkStartFailed(p)
    <3>1. /\ OthersStay(p) /\ session'[p].report = session[p].report
          /\ session[p].pc \in Launching
      BY <2>4, LaunchFailsWrites, GotoMoves DEF MarkStartFailed, Launching, BeforeTask
    <3>2. /\ session[p].report \in Report
          /\ report[session[p].report].status # "none"
      BY <3>1 DEF ProcessInv, FreshUntouched, BeforeTask, Launching, TypeInv,
                  Named, SessionNamed, ReportPC
    <3>3. session[p].report \notin Running'
      BY <2>4, FailStartEnds DEF LaunchFails, MarkStartFailed, StartFailed, Running
    <3> QED
      BY <1>0, <3>1, <3>2, <3>3 DEF ReleaseOver, RowsStay, Running, OthersStay
  <2> QED
    BY <1>4, <2>1, <2>2, <2>3, <2>4 DEF StartStep
<1>5. CASE Crash \/ RecoverStep
  BY <1>1, <1>5 DEF Crash, RecoverStep, StopLeftBehind, RecoverMark,
                    RecoverKill, RecoverStop, RecoverRepair,
                    RecoverLeases, Idle
<1>6. CASE \/ UNCHANGED vars
           \/ \E n \in FlakyNode : NodeChanges(n)
           \/ \E r \in Report : OrphanExits(r)
  BY <1>1, <1>6 DEF vars, NodeChanges, OrphanExits
<1>7. CASE \E r \in Report : TaskStep(r)
  BY <1>1, <1>7, TaskMoves
<1>8. CASE \/ \E k \in Stopper : StopRequest(k)
           \/ \E k \in Scanner, expired \in SUBSET Report : ScanTimeout(k, expired)
           \/ \E k \in Killer : StopStep(k)
  BY <1>1, <1>8, StopMoves DEF Killer
<1> QED
  BY <1>2, <1>3, <1>4, <1>5, <1>6, <1>7, <1>8 DEF Next

\* A step of the running master that takes no node from an undisturbed run and
\* launches nothing but what holds its nodes.
LEMMA HeldStays ==
  ASSUME TypeInv, KillerShape, NodesHeld, Up, Up', [Next]_vars,
         \A r \in Report : Engaged(r)' =>
             /\ report[r].status # "none"
             /\ Undisturbed(r) =>
                  \/ Engaged(r) /\ Leases(r) \cap lease \subseteq lease'
                  \/ {r} \X report[r].nodes \subseteq lease'
  PROVE  NodesHeld'
<1> SUFFICES ASSUME NEW r \in Report, Engaged(r)', Undisturbed(r)'
             PROVE  {r} \X report'[r].nodes \subseteq lease'
  BY DEF NodesHeld
<1>1. report[r].status # "none" /\ Undisturbed(r)
  BY NextUndisturbed
<1>2. report'[r].nodes = report[r].nodes
  BY <1>1, NextRowsStay DEF RowsStay
<1>3. report[r].nodes \subseteq Node
  BY DEF TypeInv, TypeOK, ReportRow
<1>4. CASE {r} \X report[r].nodes \subseteq lease'
  BY <1>2, <1>4
<1>5. CASE Engaged(r) /\ Leases(r) \cap lease \subseteq lease'
  <2>1. {r} \X report[r].nodes \subseteq lease
    BY <1>1, <1>5 DEF NodesHeld
  <2>2. {r} \X report[r].nodes \subseteq Leases(r)
    BY <1>3 DEF Leases
  <2> QED
    BY <1>2, <1>5, <2>1, <2>2
<1> QED
  BY <1>1, <1>4, <1>5

\* The report of an engaged run has been made.
LEMMA EngagedMade ==
  ASSUME ProcessInv, NEW r \in Report, Engaged(r)
  PROVE  report[r].status # "none"
  BY DEF Engaged, ProcessInv, FreshUntouched, BeforeTask, Launching

LEMMA StartHeld ==
  ASSUME TypeInv, ProcessInv, LinkInv, HeldInv, NEW p \in Starter, StartStep(p)
  PROVE  NodesHeld'
<1>1. /\ Up /\ Up' /\ UNCHANGED killer /\ OthersStay(p) /\ [Next]_vars
  BY StartMoves DEF Next
<1>2. CASE \/ PrepareFails(p) \/ LeaseConflict(p) \/ MarkRunning(p)
           \/ LaunchFails(p) \/ MarkStartFailed(p)
  <2>1. UNCHANGED <<lease, task>> /\ session'[p].pc # "launch"
    BY <1>2, EndSessionMoves, GotoMoves, LaunchFailsWrites
       DEF PrepareFails, LeaseConflict, MarkRunning, MarkStartFailed, dbRows, Idle
  <2>2. \A r \in Report : Engaged(r)' => Engaged(r)
    BY <1>1, <2>1 DEF Engaged, OthersStay
  <2> QED
    BY <1>1, <2>1, <2>2, EngagedMade, HeldStays DEF HeldInv
<1>3. CASE AddReport(p)
  <2>1. UNCHANGED <<lease, task>> /\ session'[p].pc # "launch"
    BY <1>3, AddReportMoves
  <2>2. \A r \in Report : Engaged(r)' => Engaged(r)
    BY <1>1, <2>1 DEF Engaged, OthersStay
  <2> QED
    BY <1>1, <2>1, <2>2, EngagedMade, HeldStays DEF HeldInv
<1>4. CASE LeaseNodes(p)
  <2>1. /\ UNCHANGED task /\ session[p].pc = "lease"
        /\ session'[p].pc = "launch" /\ session'[p].report = session[p].report
        /\ lease' = lease \cup ({session[p].report} \X session[p].nodes)
    BY <1>4, GotoMoves DEF LeaseNodes
  <2>2. /\ session[p].report \in Report
        /\ report[session[p].report].status # "none"
        /\ report[session[p].report].nodes = session[p].nodes
    BY <2>1 DEF LinkInv, LaunchesItsReport, BeforeTask, Launching, ProcessInv,
                FreshUntouched, TypeInv, Named, SessionNamed, ReportPC
  <2>3. \A r \in Report : Engaged(r)' => Engaged(r) \/ r = session[p].report
    BY <1>1, <2>1 DEF Engaged, OthersStay
  <2> QED
    BY <1>1, <2>1, <2>2, <2>3, EngagedMade, HeldStays DEF HeldInv
<1>5. CASE Launch(p)
  <2>1. /\ UNCHANGED lease /\ session[p].pc = "launch"
        /\ session'[p].pc # "launch"
        /\ task' = [task EXCEPT ![session[p].report] =
                      [NoTask EXCEPT !.pc = "created"]]
    BY <1>5, GotoMoves, EndSessionMoves DEF Launch, Idle
  <2>2. \A r \in Report \ {session[p].report} : task'[r] = task[r]
    BY <2>1 DEF TypeInv, TypeOK
  <2>3. \A r \in Report : Engaged(r)' => Engaged(r)
    BY <1>1, <2>1, <2>2 DEF Engaged, OthersStay
  <2> QED
    BY <1>1, <2>1, <2>3, EngagedMade, HeldStays DEF HeldInv
<1>6. CASE ReleaseUnlaunched(p)
  <2>1. /\ UNCHANGED task /\ session[p].pc = "release"
        /\ session'[p].pc # "launch"
        /\ lease' = lease \ Leases(session[p].report)
    BY <1>6, EndSessionMoves DEF ReleaseUnlaunched, Idle
  <2>2. \A r \in Report : Engaged(r)' => Engaged(r)
    BY <1>1, <2>1 DEF Engaged, OthersStay
  <2>3. ~Undisturbed(session[p].report)
    BY <2>1 DEF HeldInv, ReleaseOver, Undisturbed
  <2>4. \A r \in Report : Undisturbed(r) => Leases(r) \cap lease \subseteq lease'
    BY <2>1, <2>3 DEF Leases
  <2> QED
    BY <1>1, <2>2, <2>4, EngagedMade, HeldStays DEF HeldInv
<1> QED
  BY <1>2, <1>3, <1>4, <1>5, <1>6 DEF StartStep

LEMMA TaskHeld ==
  ASSUME TypeInv, ProcessInv, HeldInv, NEW r \in Report, TaskStep(r)
  PROVE  NodesHeld'
<1>1. /\ Up /\ Up' /\ UNCHANGED <<session, killer>> /\ [Next]_vars
      /\ \A s \in Report \ {r} : task'[s] = task[s]
  BY TaskMoves DEF Next
<1>2. task \in [Report -> TaskRec]
  BY DEF TypeInv, TypeOK
<1>3. CASE ReleaseLeases(r)
  <2>1. /\ task[r].pc = "release" /\ task'[r].pc = "done"
        /\ lease' = lease \ Leases(r)
    BY <1>2, <1>3 DEF ReleaseLeases, TaskGoto, TaskRec
  <2>2. ~Engaged(r)'
    BY <1>1, <2>1 DEF Engaged, ProcessInv, OneLauncher, BeforeTask, Launching
  <2>3. \A s \in Report : Engaged(s)' => Engaged(s) /\ s # r
    BY <1>1, <2>2 DEF Engaged
  <2>4. \A s \in Report \ {r} : Leases(s) \cap lease \subseteq lease'
    BY <2>1 DEF Leases
  <2> QED
    BY <1>1, <2>3, <2>4, EngagedMade, HeldStays DEF HeldInv
<1>4. CASE CommitResult(r)
  <2>1. UNCHANGED lease /\ task'[r].pc \in {"release", "finish"}
    BY <1>2, <1>4 DEF CommitResult, TaskRec
  <2>2. \A s \in Report : Engaged(s)' => Engaged(s)
    BY <1>1, <2>1 DEF Engaged
  <2> QED
    BY <1>1, <2>1, <2>2, EngagedMade, HeldStays DEF HeldInv
<1>5. CASE ~ReleaseLeases(r) /\ ~CommitResult(r)
  <2>1. UNCHANGED lease
    BY <1>5, TaskKeeps
  <2>2. task'[r].pc \in {"created", "spawned", "running"} =>
          task[r].pc \in {"created", "spawned", "running"}
    <3>1. CASE \/ Spawn(r) \/ SpawnFails(r) \/ MarkRunRunning(r) \/ FinishRun(r)
      BY <1>2, <3>1 DEF Spawn, SpawnFails, MarkRunRunning, FinishRun, TaskGoto, TaskRec
    <3>2. CASE Exit(r)
      BY <1>2, <3>2 DEF Exit, TaskRec
    <3>3. CASE ReadReport(r)
      <4>1. task'[r].pc \in {"commit", "release", "finish"}
        BY <1>2, <3>3 DEF ReadReport, TaskGoto, TaskRec
      <4> QED
        BY <4>1
    <3>4. CASE ReadRun(r)
      BY <1>2, <3>4 DEF ReadRun, TaskRec
    <3> QED
      BY <1>5, <3>1, <3>2, <3>3, <3>4 DEF TaskStep
  <2>3. \A s \in Report : Engaged(s)' => Engaged(s)
    BY <1>1, <2>2 DEF Engaged
  <2> QED
    BY <1>1, <2>1, <2>3, EngagedMade, HeldStays DEF HeldInv
<1> QED
  BY <1>3, <1>4, <1>5

LEMMA NextNodesHeld ==
  ASSUME TypeInv, ProcessInv, LinkInv, HeldInv, [Next]_vars
  PROVE  NodesHeld'
<1>1. CASE ~Up
  <2>1. UNCHANGED <<task, session>> \/ Crash
    BY <1>1, DownSteps DEF RecoverStep, StopLeftBehind, RecoverMark,
                           RecoverKill, RecoverStop, RecoverRepair,
                           RecoverLeases, vars
  <2>2. CASE UNCHANGED <<task, session>>
    <3>1. \A r \in Report : ~Engaged(r)'
      BY <1>1, <2>2 DEF Engaged, ProcessInv, NothingRunsDown
    <3> QED
      BY <3>1 DEF NodesHeld
  <2>3. CASE Crash
    BY <2>3 DEF Crash, NodesHeld, Engaged, Idle, NoTask
  <2> QED
    BY <2>1, <2>2, <2>3
<1>2. CASE Crash
  BY <1>2 DEF Crash, NodesHeld, Engaged, Idle, NoTask
<1>3. ASSUME Up, Up', UNCHANGED <<task, lease>>,
             \A p \in Starter : session'[p].pc = "launch" => session'[p] = session[p]
      PROVE  NodesHeld'
  <2>1. \A r \in Report : Engaged(r)' => Engaged(r)
    BY <1>3 DEF Engaged
  <2> QED
    BY <1>3, <2>1, EngagedMade, HeldStays DEF HeldInv
<1>4. CASE \E p \in Caller : RequestStep(p) \/ ReplyStep(p)
  BY <1>3, <1>4, RequestMoves DEF OthersStay
<1>5. CASE \E d \in Dispatcher : DispatchStep(d)
  BY <1>3, <1>5, DispatchMoves DEF OthersStay
<1>6. CASE \/ \E k \in Stopper : StopRequest(k)
           \/ \E k \in Scanner, expired \in SUBSET Report : ScanTimeout(k, expired)
           \/ \E k \in Killer : StopStep(k)
  <2>1. PICK k \in Killer :
               \E R : StopRequest(k) \/ ScanTimeout(k, R) \/ StopStep(k)
    BY <1>6 DEF Killer
  <2>2. Up /\ Up' /\ UNCHANGED <<task, session>>
    BY <2>1, StopMoves
  <2>3. \A r \in Report : /\ Engaged(r)' => Engaged(r)
                          /\ Undisturbed(r) => Leases(r) \cap lease \subseteq lease'
    BY <2>1, <2>2, StopClaims DEF Engaged, Undisturbed, HeldInv
  <2> QED
    BY <2>2, <2>3, EngagedMade, HeldStays DEF HeldInv
<1>7. CASE Up /\ (UNCHANGED vars \/ \E n \in FlakyNode : NodeChanges(n))
  BY <1>3, <1>7 DEF vars, NodeChanges, dbRows, Up
<1>8. CASE Up /\ (RecoverStep \/ \E r \in Report : OrphanExits(r))
  BY <1>8 DEF RecoverStep, StopLeftBehind, RecoverMark, RecoverKill,
              RecoverStop, RecoverRepair, RecoverLeases, OrphanExits, Up
<1> QED
  BY <1>1, <1>2, <1>4, <1>5, <1>6, <1>7, <1>8, StartHeld, TaskHeld DEF Next

LEMMA SpecHeldInv ==
  Spec => [](TypeInv /\ ProcessInv /\ RepairedInv /\ LinkInv /\ HeldInv)
<1>1. Init => HeldInv
  BY DEF Init, HeldInv, KillerShape, ReleaseOver, NodesHeld, Engaged, Idle,
         Resting, NoTask
<1>2. TypeInv /\ ProcessInv /\ LinkInv /\ HeldInv /\ [Next]_vars => HeldInv'
  BY NextKillerShape, NextReleaseOver, NextNodesHeld DEF HeldInv
<1> QED
  BY <1>1, <1>2, SpecRepairedInv, SpecLinkInv, PTL DEF Spec

-----------------------------------------------------------------------------
(* Where nobody stops a run and none times out, a run is shown as running   *)
(* for as long as it has a coroutine.                                      *)

NobodyStops == \A k \in Killer : killer[k].pc = "idle"

Calm == \A r \in Report : ReportAttended(r) => r \in Running

LEMMA CalmStop ==
  ASSUME TypeInv, NobodyStops, NobodyStops',
         \/ \E k \in Stopper : StopRequest(k)
         \/ \E k \in Scanner, expired \in SUBSET Report : ScanTimeout(k, expired)
         \/ \E k \in Killer : StopStep(k)
  PROVE  \E k \in Stopper : StopCaseWithoutReport(k)
<1>1. \A k \in Killer : \A R : ~(StopCase(k) \/ StopExecution(k) \/ ScanTimeout(k, R))
  BY StopBegins DEF NobodyStops
<1>2. \A k \in Killer : ~StopStep(k)
  BY DEF NobodyStops, StopStep, MarkRunStopping, KillProcess, StopRelease,
         StopRemote, StopFinish, TimeoutCommit
<1> QED
  BY <1>1, <1>2 DEF StopRequest, Killer

\* A step that ends no report, and gives none a coroutine.
LEMMA CalmStays ==
  ASSUME Calm, UNCHANGED report,
         \A r \in Report : task'[r].pc \in Working => ReportAttended(r),
         \A p \in Starter : session'[p].pc \in BeforeTask =>
             session[p].pc \in BeforeTask /\ session'[p].report = session[p].report
  PROVE  Calm'
<1>1. \A r \in Report : ReportAttended(r)' => ReportAttended(r)
  BY DEF ReportAttended
<1> QED
  BY <1>1 DEF Calm, Running

LEMMA StartCalm ==
  ASSUME TypeInv, ProcessInv, Calm, NEW p \in Starter, StartStep(p)
  PROVE  Calm'
<1> USE DEF BeforeTask, dbRows, others
<1>1. OthersStay(p)
  BY StartMoves
<1>2. CASE \/ PrepareFails(p) \/ MarkRunning(p) \/ LeaseNodes(p)
           \/ ReleaseUnlaunched(p)
  <2>1. /\ UNCHANGED <<report, task>>
        /\ session'[p].pc \in BeforeTask =>
             session[p].pc \in BeforeTask /\ session'[p].report = session[p].report
    BY <1>2, GotoMoves, EndSessionMoves
       DEF PrepareFails, MarkRunning, LeaseNodes, ReleaseUnlaunched, Idle
  <2> QED
    BY <1>1, <2>1, CalmStays DEF OthersStay, ReportAttended
<1>3. CASE AddReport(p)
  <2>1. /\ UNCHANGED task
        /\ report'[session'[p].report].status = "RUN_ING"
        /\ \A r \in Report \ {session'[p].report} : report'[r] = report[r]
    BY <1>3, AddReportMoves
  <2>2. \A r \in Report : ReportAttended(r)' => ReportAttended(r) \/ r = session'[p].report
    BY <1>1, <2>1 DEF ReportAttended, OthersStay
  <2> QED
    BY <2>1, <2>2 DEF Calm, Running
<1>4. CASE LeaseConflict(p) \/ LaunchFails(p) \/ MarkStartFailed(p)
  <2>1. /\ UNCHANGED task /\ session[p].pc \in Launching
        /\ session'[p].pc \notin BeforeTask
    BY <1>4, GotoMoves, EndSessionMoves, LaunchFailsWrites
       DEF LeaseConflict, MarkStartFailed, Launching, Idle
  <2>2. \A r \in Report \ {session[p].report} : report'[r] = report[r]
    <3>1. (\E S : FailStart(p, S)) \/ UNCHANGED report
      BY <1>4, LaunchFailsWrites DEF LeaseConflict, MarkStartFailed, StartFailed
    <3> QED
      BY <3>1 DEF FailStart, TypeInv, TypeOK
  <2>3. \A r \in Report : ReportAttended(r)' => ReportAttended(r)
    BY <1>1, <2>1 DEF ReportAttended, OthersStay
  <2>4. \A r \in Report : ReportAttended(r)' => r # session[p].report
    <3>1. /\ task[session[p].report].pc = "none"
          /\ \A o \in Starter \ {p} : session[o].pc \in BeforeTask =>
               session[o].report # session[p].report
      BY <2>1 DEF ProcessInv, OneLauncher, Launching
    <3> QED
      BY <1>1, <2>1, <3>1 DEF ReportAttended, OthersStay, Working
  <2>5. ASSUME NEW r \in Report, ReportAttended(r)'
        PROVE  r \in Running'
    <3>1. r # session[p].report /\ r \in Running
      BY <2>3, <2>4, <2>5 DEF Calm
    <3> QED
      BY <2>2, <3>1 DEF Running
  <2> QED
    BY <2>5 DEF Calm
<1>5. CASE Launch(p)
  <2>1. /\ UNCHANGED report /\ session[p].pc = "launch"
        /\ session'[p].pc \notin BeforeTask
        /\ task' = [task EXCEPT ![session[p].report] =
                      [NoTask EXCEPT !.pc = "created"]]
    BY <1>5, GotoMoves, EndSessionMoves DEF Launch, Idle
  <2>2. \A r \in Report \ {session[p].report} : task'[r] = task[r]
    BY <2>1 DEF TypeInv, TypeOK
  <2> QED
    BY <1>1, <2>1, <2>2, CalmStays DEF OthersStay, ReportAttended
<1> QED
  BY <1>2, <1>3, <1>4, <1>5 DEF StartStep

LEMMA TaskCalm ==
  ASSUME TypeInv, ProcessInv, Calm, NEW r \in Report, TaskStep(r)
  PROVE  Calm'
<1>1. UNCHANGED session /\ \A s \in Report \ {r} : task'[s] = task[s]
  BY TaskMoves
<1>2. task \in [Report -> TaskRec] /\ report \in [Report -> ReportRow]
  BY DEF TypeInv, TypeOK
<1>3. CASE CommitResult(r)
  <2>1. /\ task[r].pc = "commit" /\ task'[r].pc \in {"release", "finish"}
        /\ \A s \in Report \ {r} : report'[s] = report[s]
    BY <1>2, <1>3 DEF CommitResult, TaskRec
  <2>2. ~ReportAttended(r)'
    BY <1>1, <2>1 DEF ReportAttended, Working, ProcessInv, OneLauncher, Launching
  <2>3. \A s \in Report \ {r} : ReportAttended(s)' => ReportAttended(s)
    BY <1>1 DEF ReportAttended
  <2> QED
    BY <2>1, <2>2, <2>3 DEF Calm, Running
<1>4. CASE ~CommitResult(r)
  <2>1. UNCHANGED report
    BY <1>4, TaskKeeps
  <2>2. task'[r].pc \in Working => task[r].pc \in Working
    <3>1. CASE \/ Spawn(r) \/ SpawnFails(r) \/ MarkRunRunning(r)
               \/ FinishRun(r) \/ ReleaseLeases(r)
      BY <1>2, <3>1 DEF Spawn, SpawnFails, MarkRunRunning, FinishRun,
                        ReleaseLeases, TaskGoto, TaskRec, Working
    <3>2. CASE Exit(r) \/ ReadReport(r)
      BY <3>2 DEF Exit, ReadReport, Working
    <3>3. CASE ReadRun(r)
      BY <1>2, <3>3 DEF ReadRun, TaskRec, Working
    <3> QED
      BY <1>4, <3>1, <3>2, <3>3 DEF TaskStep
  <2> QED
    BY <1>1, <2>1, <2>2, CalmStays DEF ReportAttended
<1> QED
  BY <1>3, <1>4

LEMMA NextCalm ==
  ASSUME TypeInv, ProcessInv, Calm, NobodyStops, NobodyStops', [Next]_vars
  PROVE  Calm'
<1>1. CASE Crash
  BY <1>1 DEF Crash, Calm, ReportAttended, Idle, NoTask, BeforeTask, Working
<1>2. CASE RecoverStep
  <2>1. ~Up /\ UNCHANGED <<task, session>>
    BY <1>2 DEF RecoverStep, StopLeftBehind, RecoverMark, RecoverKill,
                RecoverStop, RecoverRepair, RecoverLeases, Up
  <2>2. \A r \in Report : ~ReportAttended(r)'
    BY <2>1 DEF ReportAttended, ProcessInv, NothingRunsDown, BeforeTask, Working
  <2> QED
    BY <2>2 DEF Calm
<1>3. CASE \/ UNCHANGED vars
           \/ \E n \in FlakyNode : NodeChanges(n)
           \/ \E r \in Report : OrphanExits(r)
  BY <1>3, CalmStays DEF vars, NodeChanges, dbRows, OrphanExits, ReportAttended
<1>4. CASE \E p \in Caller : RequestStep(p) \/ ReplyStep(p)
  BY <1>4, RequestMoves, CalmStays DEF OthersStay, BeforeTask, ReportAttended
<1>5. CASE \E d \in Dispatcher : DispatchStep(d)
  BY <1>5, DispatchMoves, CalmStays DEF OthersStay, BeforeTask, ReportAttended
<1>6. CASE \/ \E k \in Stopper : StopRequest(k)
           \/ \E k \in Scanner, expired \in SUBSET Report : ScanTimeout(k, expired)
           \/ \E k \in Killer : StopStep(k)
  BY <1>6, CalmStop, CalmStays DEF StopCaseWithoutReport, unmoved, ReportAttended
<1> QED
  BY <1>1, <1>2, <1>3, <1>4, <1>5, <1>6, StartCalm, TaskCalm DEF Next

LEMMA SpecCalm == Spec /\ []NobodyStops => []Calm
<1>1. Init => Calm
  BY DEF Init, Calm, ReportAttended, Idle, NoTask, BeforeTask, Working
<1>2. TypeInv /\ ProcessInv /\ Calm /\ NobodyStops /\ NobodyStops' /\ [Next]_vars
        => Calm'
  BY NextCalm
<1> QED
  BY <1>1, <1>2, SpecProcessInv, PTL DEF Spec

\* Every process has the leases of its nodes, also while the master is down.
AliveHeld == \A r \in alive : {r} \X report[r].nodes \subseteq lease

LEMMA SpecAliveHeld == Spec /\ []NobodyStops => []AliveHeld
<1>1. Init => AliveHeld
  BY DEF Init, AliveHeld
<1>2. TypeInv /\ ProcessInv /\ HeldInv /\ Calm /\ NobodyStops /\ Up => AliveHeld
  <2> SUFFICES ASSUME TypeInv, ProcessInv, HeldInv, Calm, NobodyStops, Up,
                      NEW r \in alive
               PROVE  {r} \X report[r].nodes \subseteq lease
    BY DEF AliveHeld
  <2>1. r \in Report /\ task[r].pc \in {"spawned", "running"}
    BY DEF TypeInv, TypeOK, ProcessInv, ProcessRecorded
  <2>2. Engaged(r) /\ report[r].status = "RUN_ING"
    BY <2>1 DEF Engaged, Calm, ReportAttended, Working, Running
  <2>3. \A k \in Killer : Claimed(k) = {}
    BY DEF NobodyStops, HeldInv, KillerShape, Claimed
  <2> QED
    BY <2>1, <2>2, <2>3 DEF HeldInv, NodesHeld, Undisturbed
<1>3. ProcessInv /\ AliveHeld /\ [Next]_vars => Up' \/ AliveHeld'
  <2> SUFFICES ASSUME ProcessInv, AliveHeld, [Next]_vars, ~Up'
               PROVE  AliveHeld'
    OBVIOUS
  <2>1. CASE Crash
    BY <2>1 DEF Crash, AliveHeld
  <2>2. CASE ~Up
    <3>1. CASE RecoverStep
      BY <3>1 DEF RecoverStep, StopLeftBehind, RecoverMark, RecoverKill,
                  RecoverStop, RecoverRepair, RecoverLeases,
                  AliveHeld, ProcessInv, ProcessRecorded, Up
    <3>2. CASE UNCHANGED <<report, lease>> /\ alive' \subseteq alive
      BY <3>2 DEF AliveHeld
    <3> QED
      BY <2>1, <2>2, <3>1, <3>2, DownSteps DEF vars
  <2> QED
    BY <2>1, <2>2, NextUp
<1> QED
  BY <1>1, <1>2, <1>3, SpecHeldInv, SpecCalm, PTL DEF Spec

-----------------------------------------------------------------------------
(* One row of the execution queue starts one run.  The dispatcher is the     *)
(* only coroutine that binds a report to a row, and the row it holds is      *)
(* unbound until it does.                                                    *)

Holding == {"select", "prepare", "marked", "bind"}
Bound == {"lease", "launch", "confirm"}
HoldsRow(d) ==
    LET s == session[d] IN
    /\ s.pc # "idle" => s.queue # 0
    /\ s.pc = "claim" => queue[s.queue].report = 0 /\ queue[s.queue].status # "none"
    /\ s.pc \in Holding =>
         queue[s.queue].report = 0 /\ queue[s.queue].status \notin {"none", "pending"}
    /\ s.pc \in Bound => queue[s.queue].report = s.report

QueueInv ==
    /\ \A q \in Queue : queue[q].status \in {"none", "pending"} => queue[q].report = 0
    /\ \A d \in Dispatcher : HoldsRow(d)

\* Most writes to the queue leave the binding alone and return no row to it.
BindingsKept ==
    \A q \in Queue :
        /\ queue'[q].report = queue[q].report
        /\ queue'[q].status \in {"none", "pending"} => queue'[q].status = queue[q].status

\* How the session of a dispatcher may move while its row is kept.
CarriesOn(d) ==
    \/ session'[d].pc = "idle"
    \/ session'[d] = session[d]
    \/ /\ session'[d].queue = session[d].queue /\ session[d].pc # "idle"
       /\ \/ session'[d].pc \in {"failing", "release"}
          \/ session[d].pc \in Holding /\ session'[d].pc \in Holding
          \/ /\ session[d].pc \in Bound /\ session'[d].pc \in Bound
             /\ session'[d].report = session[d].report

LEMMA SessionRow ==
  ASSUME TypeInv, NEW p \in Starter, session[p].queue # 0
  PROVE  session[p].queue \in Queue
  BY DEF TypeInv, Named, SessionNamed, Held

LEMMA QueueInvStays ==
  ASSUME TypeInv, QueueInv, BindingsKept, \A d \in Dispatcher : CarriesOn(d)
  PROVE  QueueInv'
<1>1. \A q \in Queue : queue'[q].status \in {"none", "pending"} => queue'[q].report = 0
  BY DEF QueueInv, BindingsKept
<1>2. ASSUME NEW d \in Dispatcher
      PROVE  HoldsRow(d)'
  <2>1. HoldsRow(d) /\ CarriesOn(d) /\ d \in Starter
    BY DEF QueueInv, Starter
  <2>2. CASE session'[d].pc = "idle"
    BY <2>2 DEF HoldsRow, Holding, Bound
  <2>3. CASE session'[d].pc # "idle" /\ session[d].pc # "idle"
    <3>1. session[d].queue \in Queue /\ session'[d].queue = session[d].queue
      BY <2>1, <2>3, SessionRow DEF HoldsRow, CarriesOn
    <3> QED
      BY <2>1, <2>3, <3>1 DEF HoldsRow, CarriesOn, BindingsKept, Holding, Bound
  <2> QED
    BY <2>1, <2>2, <2>3 DEF CarriesOn
<1> QED
  BY <1>1, <1>2 DEF QueueInv

LEMMA StartFailedKeeps ==
  ASSUME TypeInv, NEW p \in Starter, NEW S, FailStart(p, S)
  PROVE  BindingsKept
  BY DEF FailStart, BindingsKept, TypeInv, TypeOK, QueueRow

LEMMA FailReportsKeeps ==
  ASSUME TypeInv, NEW k, NEW R, NEW b, FailReports(k, R, b)
  PROVE  BindingsKept
  BY DEF FailReports, BindingsKept, TypeInv, TypeOK, QueueRow

LEMMA UnchangedKeeps == UNCHANGED queue => BindingsKept
  BY DEF BindingsKept

LEMMA StartQueue ==
  ASSUME TypeInv, QueueInv, NEW p \in Starter, StartStep(p)
  PROVE  BindingsKept /\ QueueInv' /\ \A d \in Dispatcher : CarriesOn(d)
<1> USE DEF dbRows, others
<1>1. BindingsKept
  <2>1. CASE AddReport(p)
    BY <2>1, AddReportMoves, UnchangedKeeps
  <2>2. CASE LeaseConflict(p) \/ LaunchFails(p) \/ MarkStartFailed(p)
    BY <2>2, StartFailedKeeps, UnchangedKeeps, LaunchFailsWrites
       DEF LeaseConflict, MarkStartFailed, StartFailed
  <2>3. CASE \/ PrepareFails(p) \/ MarkRunning(p) \/ LeaseNodes(p)
             \/ Launch(p) \/ ReleaseUnlaunched(p)
    BY <2>3, UnchangedKeeps DEF PrepareFails, MarkRunning, LeaseNodes, Launch,
                                ReleaseUnlaunched
  <2> QED
    BY <2>1, <2>2, <2>3 DEF StartStep
<1>2. \A d \in Dispatcher \ {p} : CarriesOn(d)
  BY StartMoves DEF OthersStay, CarriesOn, Starter
<1>3. p \in Dispatcher => CarriesOn(p)
  <2> SUFFICES ASSUME p \in Dispatcher
               PROVE  CarriesOn(p)
    OBVIOUS
  <2>1. CASE PrepareFails(p) \/ LeaseConflict(p) \/ ReleaseUnlaunched(p)
    BY <2>1, EndSessionMoves
       DEF PrepareFails, LeaseConflict, ReleaseUnlaunched, CarriesOn, Idle
  <2>2. CASE MarkRunning(p) \/ LeaseNodes(p) \/ LaunchFails(p) \/ MarkStartFailed(p)
    BY <2>2, GotoMoves, LaunchFailsWrites
       DEF MarkRunning, LeaseNodes, MarkStartFailed, CarriesOn, Holding, Bound
  <2>3. CASE AddReport(p)
    <3>1. session[p].pc = "marked" /\ session[p].queue # 0
      BY <2>3, AddReportMoves DEF QueueInv, HoldsRow
    <3> QED
      BY <2>3, <3>1, AddReportMoves DEF CarriesOn, Holding
  <2>4. CASE Launch(p)
    <3>1. session[p].pc = "launch" /\ session[p].queue # 0
      BY <2>4 DEF Launch, QueueInv, HoldsRow
    <3> QED
      BY <2>4, <3>1, GotoMoves DEF Launch, CarriesOn, Bound
  <2> QED
    BY <2>1, <2>2, <2>3, <2>4 DEF StartStep
<1> QED
  BY <1>1, <1>2, <1>3, QueueInvStays

LEMMA RequestQueue ==
  ASSUME TypeInv, QueueInv, NEW p \in Caller, RequestStep(p) \/ ReplyStep(p)
  PROVE  /\ QueueInv'
         /\ BindingsKept \/ Enqueue(p)
<1> USE DEF dbRows, others
<1>1. \A d \in Dispatcher : session'[d] = session[d]
  BY RequestMoves, ExecutionAssumption DEF OthersStay, Starter
<1>2. CASE RequestStep(p)
  <2>1. UNCHANGED queue
    BY <1>2 DEF RequestStep, RequestRun, RequestLegacyRun, RequestDebug,
                RequestQueuedRun, RequestCancel, Begin
  <2> QED
    BY <1>1, <2>1, UnchangedKeeps, QueueInvStays DEF CarriesOn
<1>3. CASE Cancel(p)
  <2>1. BindingsKept
    BY <1>3 DEF Cancel, BindingsKept, TypeInv, TypeOK, QueueRow
  <2> QED
    BY <1>1, <2>1, QueueInvStays DEF CarriesOn
<1>4. CASE Enqueue(p)
  <2>1. PICK q \in Queue :
          /\ queue[q].status = "none"
          /\ queue' = [queue EXCEPT ![q] =
               [status |-> "pending", case |-> session[p].case,
                region |-> session[p].region,
                count |-> session[p].count, report |-> 0]]
    BY <1>4 DEF Enqueue, FirstOf
  <2>2. /\ queue'[q].status = "pending" /\ queue'[q].report = 0
        /\ \A o \in Queue \ {q} : queue'[o] = queue[o]
    BY <2>1 DEF TypeInv, TypeOK
  <2>3. \A o \in Queue : queue'[o].status \in {"none", "pending"} => queue'[o].report = 0
    BY <2>2 DEF QueueInv
  <2>4. ASSUME NEW d \in Dispatcher
        PROVE  HoldsRow(d)'
    <3>1. HoldsRow(d) /\ session'[d] = session[d] /\ d \in Starter
      BY <1>1 DEF QueueInv, Starter
    <3>2. queue[q].report = 0
      BY <2>1 DEF QueueInv
    <3>3. CASE session[d].queue = q
      BY <2>1, <2>2, <3>1, <3>2, <3>3 DEF HoldsRow
    <3>4. CASE session[d].queue # q
      BY <2>2, <3>1, <3>4, SessionRow DEF HoldsRow, Holding, Bound
    <3> QED
      BY <3>3, <3>4
  <2> QED
    BY <1>4, <2>3, <2>4 DEF QueueInv
<1> QED
  BY <1>2, <1>3, <1>4 DEF ReplyStep

LEMMA DispatchQueue ==
  ASSUME TypeInv, QueueInv, NEW d \in Dispatcher, DispatchStep(d)
  PROVE  /\ QueueInv'
         /\ BindingsKept \/ BindQueue(d)
         /\ CarriesOn(d) \/ StartRow(d) \/ Claim(d) \/ BindQueue(d)
<1> USE DEF dbRows, others
<1>0. d \in Starter /\ \A e \in Dispatcher : e = d
  BY OneDispatcher DEF Starter
<1>1. CASE \/ Scan(d) \/ AbortScan(d) \/ SkipRow(d) \/ SelectRefused(d)
  <2>1. UNCHANGED queue /\ CarriesOn(d)
    BY <1>0, <1>1, EndSessionMoves DEF Scan, AbortScan, SkipRow, Visit, SelectRefused,
                                 CarriesOn, Idle
  <2> QED
    BY <1>0, <2>1, UnchangedKeeps, QueueInvStays
<1>2. CASE PrepareBreaks(d)
  <2>1. CarriesOn(d)
    BY <1>0, <1>2, EndSessionMoves DEF PrepareBreaks, CarriesOn, Idle
  <2>2. BindingsKept
    BY <1>2 DEF PrepareBreaks, BindingsKept, TypeInv, TypeOK, QueueRow
  <2> QED
    BY <1>0, <2>1, <2>2, QueueInvStays
<1>3. CASE ConfirmStart(d)
  <2>1. CarriesOn(d)
    BY <1>0, <1>3, EndSessionMoves DEF ConfirmStart, CarriesOn, Idle
  <2>2. BindingsKept
    BY <1>3 DEF ConfirmStart, BindingsKept, TypeInv, TypeOK, QueueRow
  <2> QED
    BY <1>0, <2>1, <2>2, QueueInvStays
<1>4. CASE Select(d)
  <2>1. PICK nodes : session' = [session EXCEPT ![d] =
                       [session[d] EXCEPT !.pc = "prepare", !.nodes = nodes]]
    BY <1>4 DEF Select
  <2>2. /\ session[d].pc = "select" /\ session'[d].pc = "prepare"
        /\ session'[d].queue = session[d].queue /\ UNCHANGED queue
    BY <1>0, <1>4, <2>1 DEF Select, TypeInv, TypeOK, SessionRec
  <2> QED
    BY <1>0, <2>2, UnchangedKeeps, QueueInvStays DEF CarriesOn, Holding
<1>5. CASE StartRow(d)
  <2>1. PICK q \in Queue :
          /\ queue[q].status = "pending"
          /\ session' = [session EXCEPT ![d] =
               [Idle EXCEPT !.pc = "claim", !.queue = q, !.case = queue[q].case,
                            !.region = queue[q].region, !.count = queue[q].count,
                            !.tcSeen = tc[queue[q].case]]]
    BY <1>5 DEF StartRow, Visit, FirstOf, TypeInv, TypeOK
  <2>2. /\ session'[d].pc = "claim" /\ session'[d].queue = q /\ UNCHANGED queue
        /\ queue[q].report = 0
    BY <1>0, <1>5, <2>1 DEF StartRow, Idle, TypeInv, TypeOK, QueueInv
  <2>3. q # 0
    BY ExecutionAssumption DEF Queue
  <2>4. HoldsRow(d)'
    BY <2>1, <2>2, <2>3 DEF HoldsRow, Holding, Bound
  <2> QED
    BY <1>0, <1>5, <2>2, <2>4, UnchangedKeeps DEF QueueInv
<1>6. CASE Claim(d)
  <2>1. /\ session[d].pc = "claim"
        /\ queue' = [queue EXCEPT ![session[d].queue].status = "running"]
        /\ \/ session'[d].pc = "idle"
           \/ session'[d].pc = "select" /\ session'[d].queue = session[d].queue
    BY <1>0, <1>6, EndSessionMoves, GotoMoves DEF Claim, Idle
  <2>2. BindingsKept
    BY <2>1 DEF BindingsKept, TypeInv, TypeOK, QueueRow
  <2>3. HoldsRow(d) /\ session[d].queue \in Queue
    BY <1>0, <2>1, SessionRow DEF QueueInv, HoldsRow
  <2>4. queue'[session[d].queue].status = "running"
    BY <2>1, <2>3 DEF TypeInv, TypeOK, QueueRow
  <2>5. HoldsRow(d)'
    BY <2>1, <2>2, <2>3, <2>4 DEF HoldsRow, Holding, Bound, BindingsKept
  <2>6. \A q \in Queue : queue'[q].status \in {"none", "pending"} => queue'[q].report = 0
    BY <2>2 DEF BindingsKept, QueueInv
  <2> QED
    BY <1>0, <1>6, <2>2, <2>5, <2>6 DEF QueueInv
<1>7. CASE BindQueue(d)
  <2>1. /\ session[d].pc = "bind" /\ session'[d].pc = "lease"
        /\ session'[d].queue = session[d].queue
        /\ session'[d].report = session[d].report
        /\ queue' = [queue EXCEPT ![session[d].queue].report = session[d].report]
    BY <1>0, <1>7, GotoMoves DEF BindQueue
  <2>2. HoldsRow(d) /\ session[d].queue \in Queue
    BY <1>0, <2>1, SessionRow DEF QueueInv, HoldsRow
  <2>3. /\ queue'[session[d].queue].report = session[d].report
        /\ \A q \in Queue : queue'[q].status = queue[q].status
        /\ \A q \in Queue \ {session[d].queue} : queue'[q] = queue[q]
    BY <2>1, <2>2 DEF TypeInv, TypeOK, QueueRow
  <2>4. HoldsRow(d)'
    BY <2>1, <2>2, <2>3 DEF HoldsRow, Holding, Bound
  <2>5. \A q \in Queue : queue'[q].status \in {"none", "pending"} => queue'[q].report = 0
    BY <2>1, <2>2, <2>3 DEF QueueInv, HoldsRow, Holding
  <2> QED
    BY <1>0, <1>7, <2>4, <2>5 DEF QueueInv
<1> QED
  BY <1>1, <1>2, <1>3, <1>4, <1>5, <1>6, <1>7 DEF DispatchStep

\* Every step keeps the rows but an Enqueue, which takes a fresh one, and a bind.
LEMMA NextQueue ==
  ASSUME TypeInv, QueueInv, [Next]_vars
  PROVE  /\ QueueInv'
         /\ \/ BindingsKept
            \/ \E p \in Caller : Enqueue(p)
            \/ \E d \in Dispatcher : BindQueue(d)
<1>0. \A d \in Dispatcher : d \in Starter
  BY DEF Starter
<1>1. ASSUME BindingsKept, UNCHANGED session \/ \A p \in Starter : session'[p] = Idle
      PROVE  QueueInv'
  BY <1>0, <1>1, QueueInvStays DEF CarriesOn, Idle
<1>2. CASE \/ UNCHANGED vars
           \/ \E n \in FlakyNode : NodeChanges(n)
           \/ \E r \in Report : OrphanExits(r)
           \/ Crash
  BY <1>1, <1>2, UnchangedKeeps DEF vars, NodeChanges, OrphanExits, Crash, dbRows
<1>3. CASE RecoverStep
  <2>1. UNCHANGED session
    BY <1>3 DEF RecoverStep, StopLeftBehind, RecoverMark, RecoverKill,
                RecoverStop, RecoverRepair, RecoverLeases
  <2>2. BindingsKept
    <3>1. CASE RecoverRepair
      BY <3>1 DEF RecoverRepair, InterruptedQueueStatus, BindingsKept, TypeInv,
                  TypeOK, QueueRow
    <3>2. CASE ~RecoverRepair
      BY <1>3, <3>2, UnchangedKeeps DEF RecoverStep, StopLeftBehind,
                                        RecoverMark, RecoverKill, RecoverStop,
                                        RecoverLeases
    <3> QED
      BY <3>1, <3>2
  <2> QED
    BY <1>1, <2>1, <2>2
<1>4. CASE \/ \E k \in Stopper : StopRequest(k)
           \/ \E k \in Scanner, expired \in SUBSET Report : ScanTimeout(k, expired)
           \/ \E k \in Killer : StopStep(k)
  <2>1. UNCHANGED session
    BY <1>4, StopMoves DEF Killer
  <2>2. BindingsKept
    BY <1>4, FailReportsKeeps, UnchangedKeeps
       DEF StopRequest, StopCase, StopCaseWithoutReport, StopExecution,
           ScanTimeout, StopStep, MarkRunStopping, KillProcess, StopRelease,
           StopRemote, StopFinish, TimeoutCommit
  <2> QED
    BY <1>1, <2>1, <2>2
<1>5. ASSUME NEW r \in Report, TaskStep(r)
      PROVE  BindingsKept /\ UNCHANGED session
  <2>1. CASE CommitResult(r)
    <3>1. BindingsKept
      BY <2>1 DEF CommitResult, BindingsKept, TypeInv, TypeOK, QueueRow
    <3> QED
      BY <1>5, <3>1, TaskMoves
  <2>2. CASE ~CommitResult(r)
    BY <1>5, <2>2, TaskMoves, TaskKeeps, UnchangedKeeps
  <2> QED
    BY <2>1, <2>2
<1> QED
  BY <1>1, <1>2, <1>3, <1>4, <1>5, StartQueue, RequestQueue, DispatchQueue DEF Next

LEMMA SpecQueueInv == Spec => [](TypeInv /\ QueueInv)
<1>1. Init => QueueInv
  BY DEF Init, QueueInv, HoldsRow, NoQueue, Idle, Holding, Bound, Starter
<1>2. TypeInv /\ QueueInv /\ [Next]_vars => QueueInv'
  BY NextQueue
<1> QED
  BY <1>1, <1>2, SpecTypeInv, PTL DEF Spec

\* One queue row starts at most one run, whatever is canceled, stopped, refused
\* or restarted meanwhile: the report a row is bound to stays, and a row that
\* left the queue never returns to it (dispatch_pending_once,
\* _claim_execution_queue_for_start, _bind_execution_queue_report).
THEOREM QueueRowsStartOnce == Spec => QueueStartsOnce
<1>1. TypeInv /\ QueueInv /\ [Next]_vars =>
        [\A q \in Queue :
           /\ queue[q].report # 0 => queue'[q].report = queue[q].report
           /\ queue[q].status \notin {"none", "pending"} =>
                queue'[q].status # "pending"]_queue
  <2> SUFFICES ASSUME TypeInv, QueueInv, [Next]_vars, NEW q \in Queue
               PROVE  /\ queue[q].report # 0 => queue'[q].report = queue[q].report
                      /\ queue[q].status \notin {"none", "pending"} =>
                           queue'[q].status # "pending"
    OBVIOUS
  <2>1. CASE BindingsKept
    BY <2>1 DEF BindingsKept
  <2>2. CASE \E p \in Caller : Enqueue(p)
    <3>1. PICK e \in Queue : /\ queue[e].status = "none"
                             /\ \A o \in Queue \ {e} : queue'[o] = queue[o]
      BY <2>2 DEF Enqueue, FirstOf, TypeInv, TypeOK
    <3> QED
      BY <3>1 DEF QueueInv
  <2>3. ASSUME NEW d \in Dispatcher, BindQueue(d)
        PROVE  /\ queue[q].report # 0 => queue'[q].report = queue[q].report
               /\ queue[q].status \notin {"none", "pending"} =>
                    queue'[q].status # "pending"
    <3>1. queue[session[d].queue].report = 0
      BY <2>3 DEF BindQueue, QueueInv, HoldsRow, Holding
    <3>2. queue'[q].status = queue[q].status
      BY <2>3 DEF BindQueue, TypeInv, TypeOK, QueueRow
    <3>3. q # session[d].queue => queue'[q] = queue[q]
      BY <2>3 DEF BindQueue, TypeInv, TypeOK
    <3> QED
      BY <3>1, <3>2, <3>3
  <2> QED
    BY <2>1, <2>2, <2>3, NextQueue
<1> QED
  BY <1>1, SpecQueueInv, PTL DEF Spec, QueueStartsOnce

-----------------------------------------------------------------------------
(* Who may share a node.  Under REPEATABLE READ a direct run may be given a  *)
(* node that is leased already, so exclusive leases cannot be had.  What     *)
(* holds whatever the isolation: a session that leases from a snapshot has   *)
(* no queue row, and a report gets its queue row before its first lease.     *)

SharedInv ==
    /\ \A r \in Report : report[r].status = "none" =>
         Leases(r) \cap lease = {} /\ QueuesOf(r) = {}
    /\ \A p \in Starter :
         /\ session[p].pc = "bind" => Leases(session[p].report) \cap lease = {}
         /\ session[p].pc \in Launching /\ session[p].queue = 0 =>
              QueuesOf(session[p].report) = {}
    /\ LeasesSharedByDirectRuns

\* The rows of a report change only when the dispatcher binds one to it.
LEMMA NextQueuesOf ==
  ASSUME TypeInv, QueueInv, [Next]_vars, NEW r \in Report
  PROVE  \/ QueuesOf(r)' = QueuesOf(r)
         \/ \E d \in Dispatcher : BindQueue(d) /\ session[d].report = r
<1>0. r # 0
  BY DEF Report
<1>1. CASE BindingsKept
  BY <1>1 DEF BindingsKept, QueuesOf
<1>2. CASE \E p \in Caller : Enqueue(p)
  <2>1. PICK q \in Queue :
          /\ queue[q].status = "none" /\ queue'[q].report = 0
          /\ \A o \in Queue \ {q} : queue'[o] = queue[o]
    BY <1>2 DEF Enqueue, FirstOf, TypeInv, TypeOK
  <2>2. queue[q].report = 0
    BY <2>1 DEF QueueInv
  <2> QED
    BY <1>0, <2>1, <2>2 DEF QueuesOf
<1>3. ASSUME NEW d \in Dispatcher, BindQueue(d), session[d].report # r
      PROVE  QueuesOf(r)' = QueuesOf(r)
  <2>1. queue[session[d].queue].report = 0
    BY <1>3 DEF BindQueue, QueueInv, HoldsRow, Holding
  <2>2. \A q \in Queue : queue'[q].report =
           IF q = session[d].queue THEN session[d].report ELSE queue[q].report
    BY <1>3 DEF BindQueue, TypeInv, TypeOK, QueueRow
  <2> QED
    BY <1>0, <1>3, <2>1, <2>2 DEF QueuesOf
<1> QED
  BY <1>1, <1>2, <1>3, NextQueue

\* Only LeaseNodes gives a report nodes, and only the report of its session.
LEMMA NextLeasesOf ==
  ASSUME TypeInv, [Next]_vars, NEW r \in Report
  PROVE  \/ Leases(r) \cap lease' \subseteq lease
         \/ \E p \in Starter : LeaseNodes(p) /\ session[p].report = r
<1>1. ASSUME NEW p \in Starter, LeaseNodes(p), session[p].report # r
      PROVE  Leases(r) \cap lease' \subseteq lease
  BY <1>1 DEF LeaseNodes, Leases
<1> QED
  BY <1>1, LeaseSteps

\* How a session comes to launch a report.
LEMMA NextLaunching ==
  ASSUME TypeInv, [Next]_vars, NEW p \in Starter, session'[p].pc \in Launching
  PROVE  /\ session'[p].queue = session[p].queue
         /\ \/ /\ session[p].pc \in Launching
               /\ session'[p].pc = "bind" => session[p].pc = "bind"
               /\ session'[p].report = session[p].report
            \/ /\ AddReport(p) /\ session'[p].report \in Report
               /\ report[session'[p].report].status = "none"
<1>1. CASE \A o \in Starter : ~AddReport(o)
  BY <1>1, NextLaunchersStay DEF LaunchersStay
<1>2. CASE AddReport(p)
  BY <1>2, AddReportMoves
<1>3. ASSUME NEW o \in Starter \ {p}, AddReport(o)
      PROVE  session'[p] = session[p]
  BY <1>3, AddReportMoves DEF OthersStay
<1> QED
  BY <1>1, <1>2, <1>3

LEMMA NextShared ==
  ASSUME TypeInv, ProcessInv, QueueInv, SharedInv, [Next]_vars
  PROVE  SharedInv'
<1>0. /\ RowsStay
      /\ \A p \in Starter : session[p].pc \in Launching =>
           /\ session[p].report \in Report
           /\ report[session[p].report].status # "none"
           /\ \A o \in Starter \ {p} : session[o].pc \in Launching =>
                session[o].report # session[p].report
  BY NextRowsStay DEF ProcessInv, FreshUntouched, OneLauncher, Launching,
     BeforeTask, TypeInv, Named, SessionNamed, ReportPC
<1>1. \A d \in Dispatcher : BindQueue(d) =>
        /\ d \in Starter /\ session[d].pc = "bind" /\ session[d].queue # 0
        /\ UNCHANGED lease
  BY DEF BindQueue, QueueInv, HoldsRow, Starter
<1>2. \A p \in Starter : LeaseNodes(p) => session[p].pc = "lease"
  BY DEF LeaseNodes
<1>3. ASSUME NEW r \in Report, report'[r].status = "none"
      PROVE  Leases(r) \cap lease' = {} /\ QueuesOf(r)' = {}
  <2>1. report[r].status = "none"
    BY <1>0, <1>3 DEF RowsStay
  <2>2. Leases(r) \cap lease' \subseteq lease
    BY <1>0, <1>2, <2>1, NextLeasesOf DEF Launching, BeforeTask
  <2>3. QueuesOf(r)' = QueuesOf(r)
    BY <1>0, <1>1, <2>1, NextQueuesOf DEF Launching, BeforeTask
  <2> QED
    BY <2>1, <2>2, <2>3 DEF SharedInv
<1>4. ASSUME NEW p \in Starter, session'[p].pc = "bind"
      PROVE  Leases(session'[p].report) \cap lease' = {}
  <2> DEFINE r == session'[p].report
  <2>1. /\ r \in Report /\ Leases(r) \cap lease = {}
        /\ \A o \in Starter : session[o].pc = "lease" => session[o].report # r
    <3>1. CASE AddReport(p) /\ r \in Report /\ report[r].status = "none"
      BY <1>0, <3>1 DEF SharedInv, Launching, BeforeTask
    <3>2. CASE session[p].pc = "bind" /\ r = session[p].report
      BY <1>0, <3>2 DEF SharedInv, Launching, BeforeTask
    <3> QED
      BY <1>4, <3>1, <3>2, NextLaunching DEF Launching, BeforeTask
  <2> QED
    BY <1>2, <2>1, NextLeasesOf
<1>5. ASSUME NEW p \in Starter, session'[p].pc \in Launching, session'[p].queue = 0,
             NEW r \in Report, r = session'[p].report
      PROVE  QueuesOf(r)' = {}
  <2>1. CASE AddReport(p) /\ r \in Report /\ report[r].status = "none"
    <3>1. QueuesOf(r)' = QueuesOf(r)
      BY <1>0, <1>1, <2>1, NextQueuesOf DEF Launching, BeforeTask
    <3> QED
      BY <2>1, <3>1 DEF SharedInv
  <2>2. CASE session[p].pc \in Launching /\ r = session[p].report
    <3>1. session[p].queue = 0
      BY <1>5, NextLaunching
    <3>2. \A d \in Dispatcher : BindQueue(d) => session[d].report # r
      BY <1>0, <1>1, <2>2, <3>1 DEF Launching, BeforeTask
    <3>3. QueuesOf(r)' = QueuesOf(r) /\ QueuesOf(r) = {}
      BY <2>2, <3>1, <3>2, NextQueuesOf DEF SharedInv
    <3> QED
      BY <3>3
  <2> QED
    BY <1>5, <2>1, <2>2, NextLaunching
<1>6. ASSUME NEW n \in Node, NEW r \in Report, NEW s \in Report, r # s,
             <<r, n>> \in lease', <<s, n>> \in lease'
      PROVE  SharedOnlyByDirectRun(r, s)'
  <2>1. CASE <<r, n>> \in lease /\ <<s, n>> \in lease
    <3>1. SharedOnlyByDirectRun(r, s)
      BY <1>6, <2>1 DEF SharedInv, LeasesSharedByDirectRuns
    <3>2. \A t \in {r, s} : QueuesOf(t)' = QueuesOf(t)
      <4>1. Leases(r) \cap lease # {} /\ Leases(s) \cap lease # {}
        BY <2>1 DEF Leases
      <4>2. \A d \in Dispatcher : BindQueue(d) => session[d].report \notin {r, s}
        BY <1>1, <4>1 DEF SharedInv
      <4> QED
        BY <4>2, NextQueuesOf
    <3> QED
      BY <3>1, <3>2 DEF SharedOnlyByDirectRun, QueuesOf
  <2>2. ASSUME NEW t \in {r, s}, <<t, n>> \notin lease
        PROVE  SharedOnlyByDirectRun(r, s)'
    <3>1. PICK p \in Starter : LeaseNodes(p) /\ session[p].report = t
      <4>1. <<t, n>> \in Leases(t) /\ <<t, n>> \in lease'
        BY <1>6, <2>2 DEF Leases
      <4> QED
        BY <2>2, <4>1, NextLeasesOf
    <3>2. /\ session[p].pc = "lease" /\ Conflicts(p) = {}
          /\ lease' = lease \cup ({t} \X session[p].nodes) /\ UNCHANGED queue
      BY <3>1 DEF LeaseNodes
    <3>3. n \in session[p].nodes
      BY <1>6, <2>2, <3>2
    <3>4. n \in LeasedNodes
      BY <1>6, <2>2, <3>2 DEF LeasedNodes
    <3>5. SnapshotReads /\ session[p].queue = 0
      BY <3>2, <3>3, <3>4 DEF Conflicts
    <3>6. QueuesOf(t)' = {}
      BY <3>1, <3>2, <3>5 DEF SharedInv, Launching, BeforeTask, QueuesOf
    <3> QED
      BY <3>5, <3>6 DEF SharedOnlyByDirectRun
  <2> QED
    BY <2>1, <2>2
<1>7. LeasesSharedByDirectRuns'
  BY <1>6 DEF LeasesSharedByDirectRuns
<1>8. \A p \in Starter : session'[p].pc \in Launching /\ session'[p].queue = 0 =>
        QueuesOf(session[p].report)' = {}
  <2> SUFFICES ASSUME NEW p \in Starter, session'[p].pc \in Launching,
                      session'[p].queue = 0
               PROVE  QueuesOf(session[p].report)' = {}
    OBVIOUS
  <2>1. session'[p].report \in Report
    BY <1>0, NextLaunching
  <2> QED
    BY <1>5, <2>1 DEF QueuesOf
<1>9. \A p \in Starter : session'[p].pc = "bind" =>
        (Leases(session[p].report) \cap lease)' = {}
  BY <1>4 DEF Leases
<1>10. \A r \in Report : report'[r].status = "none" =>
         (Leases(r) \cap lease)' = {} /\ QueuesOf(r)' = {}
  BY <1>3 DEF Leases
<1> QED
  BY <1>7, <1>8, <1>9, <1>10, ZenonT(40) DEF SharedInv

\* A node leased to two reports was given to a direct run: whatever the
\* isolation, the runs of the execution queue never share a node among
\* themselves, and under READ COMMITTED no two runs do (lease_nodes,
\* _bind_execution_queue_report, release_by_report).
THEOREM LeasesShared == Spec => []LeasesSharedByDirectRuns
<1>1. Init => SharedInv
  BY DEF Init, SharedInv, LeasesSharedByDirectRuns, QueuesOf, NoQueue, Idle,
         Launching, BeforeTask, Report
<1>2. TypeInv /\ ProcessInv /\ QueueInv /\ SharedInv /\ [Next]_vars => SharedInv'
  BY NextShared
<1>3. SharedInv => LeasesSharedByDirectRuns
  BY DEF SharedInv
<1> QED
  BY <1>1, <1>2, <1>3, SpecProcessInv, SpecQueueInv, PTL DEF Spec

\* Two runs that are neither stopped nor timed out drive the same slave node
\* only if a direct run was given it from a look that was out of date,
\* whatever else is stopped, fails or is restarted beside them
\* (_run_testcase_now, lease_nodes, release_by_report).
LiveEnginesDisjoint ==
    Up => \A r, s \in alive :
            /\ r # s /\ Undisturbed(r) /\ Undisturbed(s)
            /\ report[r].nodes \cap report[s].nodes # {}
            => SharedOnlyByDirectRun(r, s)

\* The engines of undisturbed runs are kept apart as their leases are.
THEOREM UndisturbedEnginesDisjoint == Spec => []LiveEnginesDisjoint
<1>1. TypeInv /\ ProcessInv /\ HeldInv /\ LeasesSharedByDirectRuns
        => LiveEnginesDisjoint
  <2> SUFFICES ASSUME TypeInv, ProcessInv, HeldInv, LeasesSharedByDirectRuns, Up,
                      NEW r \in alive, NEW s \in alive, r # s,
                      Undisturbed(r), Undisturbed(s),
                      report[r].nodes \cap report[s].nodes # {}
               PROVE  SharedOnlyByDirectRun(r, s)
    BY DEF LiveEnginesDisjoint
  <2>1. r \in Report /\ s \in Report
    BY DEF TypeInv, TypeOK
  <2>2. Engaged(r) /\ Engaged(s)
    BY DEF ProcessInv, ProcessRecorded, Engaged
  <2>3. /\ {r} \X report[r].nodes \subseteq lease
        /\ {s} \X report[s].nodes \subseteq lease
        /\ report[r].nodes \subseteq Node
    BY <2>1, <2>2 DEF HeldInv, NodesHeld, TypeInv, TypeOK, ReportRow
  <2> QED
    BY <2>1, <2>3 DEF LeasesSharedByDirectRuns
<1> QED
  BY <1>1, SpecHeldInv, LeasesShared, PTL

\* Nor do two JMeter processes drive the same slave node while the master is
\* down and they run on without it, as long as nobody stops a run: a stop
\* returns the nodes of a run it may have failed to kill.
EnginesSharedByDirectRuns ==
    \A r, s \in alive :
        r # s /\ report[r].nodes \cap report[s].nodes # {} =>
            SharedOnlyByDirectRun(r, s)

\* A process has the leases of its nodes while the master is down, too.
THEOREM EnginesStayDisjoint ==
  Spec /\ []NobodyStops => []EnginesSharedByDirectRuns
<1>1. TypeInv /\ AliveHeld /\ LeasesSharedByDirectRuns => EnginesSharedByDirectRuns
  <2> SUFFICES ASSUME TypeInv, AliveHeld, LeasesSharedByDirectRuns,
                      NEW r \in alive, NEW s \in alive, r # s,
                      report[r].nodes \cap report[s].nodes # {}
               PROVE  SharedOnlyByDirectRun(r, s)
    BY DEF EnginesSharedByDirectRuns
  <2>1. r \in Report /\ s \in Report /\ report[r].nodes \subseteq Node
    BY DEF TypeInv, TypeOK, ReportRow
  <2> QED
    BY <2>1 DEF AliveHeld, LeasesSharedByDirectRuns
<1> QED
  BY <1>1, SpecTypeInv, SpecAliveHeld, LeasesShared, PTL

-----------------------------------------------------------------------------
(* The row of a run nobody stops shows what became of the run.  A row and   *)
(* its report are written together, by the coroutine that ends the run; the *)
(* task does so from the rows it read in an earlier transaction, and the    *)
(* dispatcher binds a row it claimed long before.                           *)

RowAgrees(q) ==
    LET status == report[queue[q].report].status IN
    queue[q].report # 0 =>
        /\ queue[q].status = "success" => status = "RUN_SUCCESS"
        /\ queue[q].status = "failed" => status = "RUN_FAILED"
        /\ queue[q].status = "running" => status = "RUN_ING"

\* What a task read of the rows of its report is still all it has to write.
ReadRows(r) ==
    task[r].pc = "commit" =>
        /\ task[r].setQueue \subseteq QueuesOf(r)
        /\ \A q \in QueuesOf(r) : queue[q].status = "running" => q \in task[r].setQueue

\* Nobody but a user has touched the row the dispatcher is about to bind, and
\* the report it is about to confirm exists.
HoldsOpenRow(d) ==
    LET s == session[d] IN
    /\ s.pc \in Holding => queue[s.queue].status \in {"running", "canceled"}
    /\ s.pc = "confirm" => report[s.report].status # "none"

AgreeInv ==
    /\ \A q \in Queue : RowAgrees(q)
    /\ \A r \in Report : ReadRows(r)
    /\ \A d \in Dispatcher : HoldsOpenRow(d)

\* What a step may make of a row that is bound, and of one that is not.
Honest(q) ==
    LET r == queue[q].report IN
    r # 0 =>
        \/ queue'[q].status = queue[q].status /\ report'[r].status = report[r].status
        \/ queue'[q].status = "canceled"
        \/ queue'[q].status = "success" /\ report'[r].status = "RUN_SUCCESS"
        \/ queue'[q].status = "failed" /\ report'[r].status = "RUN_FAILED"
FreeRowsOpen ==
    \A q \in Queue : queue[q].report = 0 =>
        queue'[q].status \in {queue[q].status, "running", "canceled"}
HonestStep ==
    /\ \A q \in Queue : Honest(q)
    /\ FreeRowsOpen \/ \A d \in Dispatcher : session'[d].pc \notin Holding

ReadsStay ==
    \A r \in Report : task'[r].pc = "commit" =>
        task[r].pc = "commit" /\ task'[r].setQueue = task[r].setQueue
HoldsOn(d) ==
    /\ session'[d].pc \in Holding =>
         session[d].pc \in Holding /\ session'[d].queue = session[d].queue
    /\ session'[d].pc = "confirm" =>
         session[d].pc \in Bound /\ session'[d].report = session[d].report

\* A dispatcher that carries on has no row it did not have.
LEMMA CarriesOnHoldsOn ==
  ASSUME NEW d, CarriesOn(d)
  PROVE  HoldsOn(d)
  BY DEF CarriesOn, HoldsOn, Holding, Bound

LEMMA StartRowHoldsOn ==
  ASSUME TypeInv, NEW d \in Dispatcher, StartRow(d)
  PROVE  HoldsOn(d)
<1>1. d \in Starter
  BY DEF Starter
<1>2. session'[d].pc = "claim"
  BY <1>1 DEF StartRow, Idle, TypeInv, TypeOK
<1> QED
  BY <1>2 DEF HoldsOn, Holding

LEMMA UnchangedHonest ==
  ASSUME UNCHANGED <<queue, report>>
  PROVE  BindingsKept /\ HonestStep
  BY DEF BindingsKept, HonestStep, Honest, FreeRowsOpen

LEMMA RowAgreesStays ==
  ASSUME TypeInv, BindingsKept, NEW q \in Queue, RowAgrees(q), Honest(q)
  PROVE  RowAgrees(q)'
  BY DEF RowAgrees, Honest, BindingsKept

LEMMA ReadRowsStay ==
  ASSUME TypeInv, BindingsKept, \A q \in Queue : Honest(q),
         NEW r \in Report, ReadRows(r), ReadsStay
  PROVE  ReadRows(r)'
<1>1. r # 0
  BY DEF Report
<1>2. QueuesOf(r)' = QueuesOf(r)
  BY DEF QueuesOf, BindingsKept
<1>3. \A q \in QueuesOf(r) : queue'[q].status = "running" => queue[q].status = "running"
  BY <1>1 DEF QueuesOf, Honest
<1> QED
  BY <1>2, <1>3 DEF ReadRows, ReadsStay

LEMMA OpenRowStays ==
  ASSUME TypeInv, ProcessInv, QueueInv, AgreeInv, RowsStay, HonestStep,
         NEW d \in Dispatcher, HoldsOn(d)
  PROVE  HoldsOpenRow(d)'
<1>0. d \in Starter /\ HoldsRow(d) /\ HoldsOpenRow(d)
  BY DEF Starter, QueueInv, AgreeInv
<1>1. ASSUME session'[d].pc \in Holding
      PROVE  queue'[session'[d].queue].status \in {"running", "canceled"}
  <2>1. /\ session[d].pc \in Holding /\ session'[d].queue = session[d].queue
        /\ FreeRowsOpen
    BY <1>1 DEF HoldsOn, HonestStep
  <2>2. session[d].queue \in Queue /\ queue[session[d].queue].report = 0
    BY <1>0, <2>1, SessionRow DEF HoldsRow, Holding
  <2>3. queue[session[d].queue].status \in {"running", "canceled"}
    BY <1>0, <2>1 DEF HoldsOpenRow
  <2> QED
    BY <2>1, <2>2, <2>3 DEF FreeRowsOpen
<1>2. ASSUME session'[d].pc = "confirm"
      PROVE  report'[session'[d].report].status # "none"
  <2>1. session[d].pc \in Bound /\ session'[d].report = session[d].report
    BY <1>2 DEF HoldsOn
  <2>2. session[d].report \in Report
    BY <1>0, <2>1 DEF TypeInv, Named, SessionNamed, ReportPC, Bound
  <2>3. report[session[d].report].status # "none"
    BY <1>0, <2>1, <2>2 DEF HoldsOpenRow, ProcessInv, FreshUntouched, Bound, BeforeTask,
                              Launching
  <2> QED
    BY <2>1, <2>2, <2>3 DEF RowsStay
<1> QED
  BY <1>1, <1>2 DEF HoldsOpenRow

LEMMA AgreeStays ==
  ASSUME TypeInv, ProcessInv, QueueInv, AgreeInv, RowsStay, BindingsKept, HonestStep,
         ReadsStay, \A d \in Dispatcher : HoldsOn(d)
  PROVE  AgreeInv'
<1>1. \A q \in Queue : RowAgrees(q)'
  BY RowAgreesStays DEF AgreeInv, HonestStep
<1>2. \A r \in Report : ReadRows(r)'
  BY ReadRowsStay DEF AgreeInv, HonestStep
<1>3. \A d \in Dispatcher : HoldsOpenRow(d)'
  BY OpenRowStays
<1> QED
  BY <1>1, <1>2, <1>3 DEF AgreeInv

\* A refused start fails the report and its rows in one commit; a new report
\* is nobody's yet.
LEMMA StartAgrees ==
  ASSUME TypeInv, ProcessInv, QueueInv, AgreeInv, NEW p \in Starter, StartStep(p)
  PROVE  HonestStep
<1> USE DEF dbRows, others
<1>1. CASE AddReport(p)
  <2>1. PICK r \in Report :
          /\ report[r].status = "none" /\ UNCHANGED queue
          /\ \A s \in Report \ {r} : report'[s] = report[s]
    BY <1>1, AddReportMoves
  <2>2. ASSUME NEW q \in Queue
        PROVE  Honest(q)
    <3>1. RowAgrees(q) /\ queue[q].report \in 0 .. MaxReport
          /\ (queue[q].status \in {"none", "pending"} => queue[q].report = 0)
          /\ queue[q].status \in
               {"none", "pending", "running", "success", "failed", "canceled"}
      BY DEF AgreeInv, TypeInv, TypeOK, QueueRow, QueueInv
    <3>2. CASE queue[q].report = r
      BY <2>1, <3>1, <3>2 DEF RowAgrees, Honest
    <3>3. CASE queue[q].report \in Report \ {r}
      BY <2>1, <3>3 DEF Honest
    <3>4. CASE queue[q].report = 0
      BY <3>4 DEF Honest
    <3> QED
      BY <3>1, <3>2, <3>3, <3>4, ExecutionAssumption DEF Report
  <2> QED
    BY <2>1, <2>2 DEF HonestStep, FreeRowsOpen
<1>2. CASE StartFailed(p) /\ session[p].report \in Report
  <2>1. session[p].report # 0
    BY <1>2 DEF Report
  <2>2. report'[session[p].report].status = "RUN_FAILED"
    BY <1>2 DEF StartFailed, FailStart, TypeInv, TypeOK, ReportRow
  <2>3. \A s : s # session[p].report => report'[s] = report[s]
    BY <1>2 DEF StartFailed, FailStart, TypeInv, TypeOK
  <2>4. \A q \in Queue : queue'[q].status =
           IF queue[q].report = session[p].report THEN "failed" ELSE queue[q].status
    BY <1>2 DEF StartFailed, FailStart, QueuesOf, TypeInv, TypeOK, QueueRow
  <2> QED
    BY <2>1, <2>2, <2>3, <2>4 DEF HonestStep, Honest, FreeRowsOpen
<1>3. CASE UNCHANGED <<queue, report>>
  BY <1>3, UnchangedHonest
<1>4. CASE LaunchFails(p) /\ session[p].report \in Running
  <2> DEFINE r == session[p].report
             rows == {q \in QueuesOf(r) : queue[q].status = "running"}
  <2>1. r # 0 /\ report[r].status = "RUN_ING" /\ FailStart(p, rows)
    BY <1>4 DEF LaunchFails, Running, Report
  <2>2. report'[r].status = "RUN_FAILED"
    BY <2>1, <1>4 DEF FailStart, TypeInv, TypeOK, ReportRow, Running
  <2>3. \A s : s # r => report'[s] = report[s]
    BY <2>1 DEF FailStart, TypeInv, TypeOK
  <2>4. \A q \in Queue : queue'[q].status =
           IF queue[q].report = r /\ queue[q].status = "running"
             THEN "failed" ELSE queue[q].status
    BY <2>1 DEF FailStart, QueuesOf, TypeInv, TypeOK, QueueRow
  <2>5. ASSUME NEW q \in Queue
        PROVE  Honest(q)
    <3>1. RowAgrees(q)
          /\ (queue[q].status \in {"none", "pending"} => queue[q].report = 0)
          /\ queue[q].status \in
               {"none", "pending", "running", "success", "failed", "canceled"}
      BY DEF AgreeInv, TypeInv, TypeOK, QueueRow, QueueInv
    <3> QED
      BY <2>1, <2>2, <2>3, <2>4, <3>1 DEF Honest, RowAgrees
  <2>6. FreeRowsOpen
    BY <2>1, <2>4 DEF FreeRowsOpen
  <2> QED
    BY <2>5, <2>6 DEF HonestStep
<1>5. LaunchFails(p) => session[p].report \in Running \/ UNCHANGED <<queue, report>>
  BY DEF LaunchFails
<1> QED
  BY <1>1, <1>2, <1>3, <1>4, <1>5
     DEF StartStep, PrepareFails, MarkRunning, LeaseNodes, LeaseConflict, Launch,
         MarkStartFailed, ReleaseUnlaunched, TypeInv, Named, SessionNamed, ReportPC

\* The task writes the report and the rows it read together; while it did not,
\* its report was shown as running.
LEMMA TaskAgrees ==
  ASSUME TypeInv, ProcessInv, QueueInv, AgreeInv, Calm, NEW r \in Report, TaskStep(r)
  PROVE  BindingsKept /\ HonestStep
<1>1. CASE CommitResult(r)
  <2>1. /\ task[r].pc = "commit" /\ r # 0
        /\ report'[r].status = Verdict(r)
        /\ \A s : s # r => report'[s] = report[s]
        /\ \A q \in Queue : queue'[q].report = queue[q].report
        /\ \A q \in Queue : queue'[q].status =
             IF q \in task[r].setQueue
               THEN IF Verdict(r) = "RUN_SUCCESS" THEN "success" ELSE "failed"
               ELSE queue[q].status
    <3>1. task[r].pc = "commit" /\ r # 0
      BY <1>1 DEF CommitResult, Report
    <3>2. report'[r].status = Verdict(r) /\ \A s : s # r => report'[s] = report[s]
      BY <1>1 DEF CommitResult, TypeInv, TypeOK, ReportRow
    <3>3. \A q \in Queue :
            /\ queue'[q].report = queue[q].report
            /\ queue'[q].status =
                 IF q \in task[r].setQueue
                   THEN IF Verdict(r) = "RUN_SUCCESS" THEN "success" ELSE "failed"
                   ELSE queue[q].status
      BY <1>1 DEF CommitResult, TypeInv, TypeOK, QueueRow
    <3> QED
      BY <3>1, <3>2, <3>3
  <2>2. Verdict(r) \in {"RUN_SUCCESS", "RUN_FAILED"}
    BY DEF Verdict
  <2>3. report[r].status = "RUN_ING"
    BY <2>1 DEF Calm, ReportAttended, Working, Running
  <2>4. /\ \A q \in task[r].setQueue : queue[q].report = r
        /\ \A q \in Queue : queue[q].report = r /\ queue[q].status = "running"
                              => q \in task[r].setQueue
    BY <2>1 DEF AgreeInv, ReadRows, QueuesOf
  <2>5. ASSUME NEW q \in Queue
        PROVE  Honest(q)
    <3>1. RowAgrees(q)
          /\ (queue[q].status \in {"none", "pending"} => queue[q].report = 0)
          /\ queue[q].status \in
               {"none", "pending", "running", "success", "failed", "canceled"}
      BY DEF AgreeInv, TypeInv, TypeOK, QueueRow, QueueInv
    <3>2. CASE q \in task[r].setQueue
      BY <2>1, <2>2, <2>4, <3>2 DEF Honest
    <3>3. CASE q \notin task[r].setQueue /\ queue[q].report = r
      <4>1. queue[q].status = "canceled"
        BY <2>1, <2>3, <2>4, <3>1, <3>3 DEF RowAgrees
      <4> QED
        BY <2>1, <3>3, <4>1 DEF Honest
    <3>4. CASE q \notin task[r].setQueue /\ queue[q].report # r
      BY <2>1, <3>4 DEF Honest
    <3> QED
      BY <3>2, <3>3, <3>4
  <2>6. BindingsKept
    BY <2>1 DEF BindingsKept
  <2>7. FreeRowsOpen
    BY <2>1, <2>4 DEF FreeRowsOpen
  <2> QED
    BY <2>5, <2>6, <2>7 DEF HonestStep
<1>2. CASE ~CommitResult(r)
  BY <1>2, TaskKeeps, UnchangedHonest
<1> QED
  BY <1>1, <1>2

LEMMA TaskReads ==
  ASSUME TypeInv, NEW r \in Report, TaskStep(r), \A s \in Report : ReadRows(s)
  PROVE  ReadsStay \/ (UNCHANGED queue /\ \A s \in Report : ReadRows(s)')
<1>1. \A s \in Report \ {r} : task'[s] = task[s]
  BY TaskMoves
<1>2. CASE ReadReport(r)
  <2>1. UNCHANGED queue
    BY <1>2, TaskKeeps DEF ReadReport
  <2>2. task'[r].pc = "commit" =>
          task'[r].setQueue = {q \in QueuesOf(r) : queue[q].status = "running"}
    <3>1. CASE report[r].status = "RUN_ING"
      BY <1>2, <3>1 DEF ReadReport, TypeInv, TypeOK, TaskRec
    <3>2. CASE report[r].status # "RUN_ING"
      BY <1>2, <3>2 DEF ReadReport, TaskGoto, TypeInv, TypeOK, TaskRec
    <3> QED
      BY <3>1, <3>2
  <2> QED
    BY <1>1, <2>1, <2>2 DEF ReadRows, QueuesOf
<1>3. CASE ~ReadReport(r)
  <2>1. task'[r].pc # "commit"
    <3>1. CASE \/ Spawn(r) \/ MarkRunRunning(r) \/ FinishRun(r) \/ ReleaseLeases(r)
      <4>1. \E pc \in {"spawned", "running", "release", "done"} : TaskGoto(r, pc)
        BY <3>1 DEF Spawn, MarkRunRunning, FinishRun, ReleaseLeases
      <4> QED
        BY <4>1 DEF TaskGoto, TypeInv, TypeOK, TaskRec
    <3>5. CASE SpawnFails(r)
      BY <3>5 DEF SpawnFails, TypeInv, TypeOK, TaskRec
    <3>2. CASE Exit(r)
      BY <3>2 DEF Exit, TypeInv, TypeOK, TaskRec
    <3>3. CASE CommitResult(r)
      BY <3>3 DEF CommitResult, TypeInv, TypeOK, TaskRec
    <3>4. CASE ReadRun(r)
      BY <3>4 DEF ReadRun, TypeInv, TypeOK, TaskRec
    <3> QED
      BY <1>3, <3>1, <3>2, <3>3, <3>4, <3>5 DEF TaskStep
  <2> QED
    BY <1>1, <2>1 DEF ReadsStay
<1> QED
  BY <1>2, <1>3

\* Steps outside the tasks move no task to its commit.
LEMMA SameTasksRead == UNCHANGED task => ReadsStay
  BY DEF ReadsStay

\* A canceled row is nobody's answer; a new row is bound to nothing.
LEMMA RequestAgrees ==
  ASSUME TypeInv, ProcessInv, QueueInv, AgreeInv, RowsStay,
         NEW p \in Caller, RequestStep(p) \/ ReplyStep(p)
  PROVE  AgreeInv'
<1> USE DEF dbRows, others
<1>1. /\ UNCHANGED <<report, task>>
      /\ \A d \in Dispatcher : session'[d] = session[d]
  BY RequestMoves, ExecutionAssumption DEF OthersStay, Starter
<1>2. ReadsStay /\ \A d \in Dispatcher : HoldsOn(d)
  BY <1>1, SameTasksRead DEF HoldsOn, Holding, Bound
<1>3. CASE RequestStep(p)
  <2>1. UNCHANGED queue
    BY <1>3 DEF RequestStep, RequestRun, RequestLegacyRun, RequestDebug,
                RequestQueuedRun, RequestCancel, Begin
  <2> QED
    BY <1>1, <1>2, <2>1, UnchangedHonest, AgreeStays
<1>4. CASE Cancel(p)
  <2>1. \A q \in Queue : /\ queue'[q].report = queue[q].report
                         /\ queue'[q].status \in {queue[q].status, "canceled"}
    BY <1>4 DEF Cancel, TypeInv, TypeOK, QueueRow
  <2>2. BindingsKept
    BY <1>4 DEF Cancel, BindingsKept, TypeInv, TypeOK, QueueRow
  <2>3. HonestStep
    BY <1>1, <2>1 DEF HonestStep, Honest, FreeRowsOpen
  <2> QED
    BY <1>2, <2>2, <2>3, AgreeStays
<1>5. CASE Enqueue(p)
  <2>1. PICK q \in Queue :
          /\ queue[q].status = "none"
          /\ queue' = [queue EXCEPT ![q] =
               [status |-> "pending", case |-> session[p].case,
                region |-> session[p].region,
                count |-> session[p].count, report |-> 0]]
    BY <1>5 DEF Enqueue, FirstOf
  <2>2. /\ queue[q].report = 0 /\ queue'[q].report = 0
        /\ \A o \in Queue \ {q} : queue'[o] = queue[o]
    BY <2>1 DEF TypeInv, TypeOK, QueueInv
  <2>3. \A o \in Queue : RowAgrees(o)'
    BY <1>1, <2>2 DEF AgreeInv, RowAgrees
  <2>4. ASSUME NEW r \in Report
        PROVE  ReadRows(r)'
    <3>1. r # 0
      BY DEF Report
    <3>2. QueuesOf(r)' = QueuesOf(r) /\ \A o \in QueuesOf(r) : queue'[o] = queue[o]
      BY <2>2, <3>1 DEF QueuesOf
    <3> QED
      BY <1>1, <3>2 DEF AgreeInv, ReadRows
  <2>5. ASSUME NEW d \in Dispatcher
        PROVE  HoldsOpenRow(d)'
    <3>1. HoldsOpenRow(d) /\ HoldsRow(d) /\ session'[d] = session[d] /\ d \in Starter
      BY <1>1 DEF AgreeInv, QueueInv, Starter
    <3>2. session[d].pc \in Holding => session[d].queue \in Queue \ {q}
      BY <2>1, <3>1, SessionRow DEF HoldsOpenRow, HoldsRow, Holding
    <3> QED
      BY <1>1, <2>2, <3>1, <3>2 DEF HoldsOpenRow
  <2> QED
    BY <2>3, <2>4, <2>5 DEF AgreeInv
<1> QED
  BY <1>3, <1>4, <1>5 DEF ReplyStep

\* The dispatcher binds an open row to a report that runs, confirms a start
\* with the status it finds, and fails a row only before it has a report.
LEMMA DispatchAgrees ==
  ASSUME TypeInv, ProcessInv, QueueInv, AgreeInv, Calm, RowsStay,
         NEW d \in Dispatcher, DispatchStep(d)
  PROVE  AgreeInv'
<1> USE DEF dbRows, others
<1>0. /\ d \in Starter /\ UNCHANGED <<report, task>>
      /\ \A e \in Dispatcher : e = d
  BY DispatchMoves, OneDispatcher
<1>1. HoldsRow(d) /\ HoldsOpenRow(d) /\ ReadsStay
  BY <1>0, SameTasksRead DEF QueueInv, AgreeInv
<1>2. CASE ~Claim(d) /\ ~BindQueue(d)
  <2>1. HoldsOn(d)
    BY <1>2, DispatchQueue, CarriesOnHoldsOn, StartRowHoldsOn
  <2>2. BindingsKept
    BY <1>2, DispatchQueue
  <2>3. CASE PrepareBreaks(d)
    <3>1. session[d].pc = "prepare" /\ session'[d].pc = "idle"
      BY <1>0, <2>3, EndSessionMoves DEF PrepareBreaks, Idle
    <3>2. queue[session[d].queue].report = 0
      BY <1>1, <3>1 DEF HoldsRow, Holding
    <3>3. \A q : q # session[d].queue => queue'[q] = queue[q]
      BY <2>3 DEF PrepareBreaks, TypeInv, TypeOK
    <3>4. HonestStep
      BY <1>0, <3>1, <3>2, <3>3 DEF HonestStep, Honest, Holding
    <3> QED
      BY <1>0, <1>1, <2>1, <2>2, <3>4, AgreeStays
  <2>4. CASE ConfirmStart(d)
    <3>1. /\ session[d].pc = "confirm" /\ session'[d].pc = "idle"
          /\ session[d].report \in Report
      BY <1>0, <2>4, EndSessionMoves
         DEF ConfirmStart, Idle, TypeInv, Named, SessionNamed, ReportPC
    <3>2. /\ queue[session[d].queue].report = session[d].report
          /\ session[d].report # 0
          /\ report[session[d].report].status \in {"RUN_ING", "RUN_SUCCESS", "RUN_FAILED"}
      BY <1>1, <3>1 DEF HoldsRow, HoldsOpenRow, Bound, Report, TypeInv, TypeOK, ReportRow
    <3>3. \A q : q # session[d].queue => queue'[q] = queue[q]
      BY <2>4 DEF ConfirmStart, TypeInv, TypeOK
    <3>4. \/ queue' = queue
          \/ /\ report[session[d].report].status = "RUN_SUCCESS"
             /\ queue' = [queue EXCEPT ![session[d].queue].status = "success"]
          \/ /\ report[session[d].report].status = "RUN_FAILED"
             /\ queue' = [queue EXCEPT ![session[d].queue].status = "failed"]
      BY <2>4, <3>2 DEF ConfirmStart
    <3>5. Honest(session[d].queue) \/ session[d].queue \notin Queue
      BY <1>0, <3>2, <3>4 DEF Honest, TypeInv, TypeOK, QueueRow
    <3>6. HonestStep
      BY <1>0, <3>1, <3>3, <3>5 DEF HonestStep, Honest, Holding
    <3> QED
      BY <1>0, <1>1, <2>1, <2>2, <3>6, AgreeStays
  <2>5. CASE ~PrepareBreaks(d) /\ ~ConfirmStart(d)
    <3>1. UNCHANGED queue
      BY <1>2, <2>5 DEF DispatchStep, Scan, AbortScan, SkipRow, StartRow, Select,
                        SelectRefused
    <3> QED
      BY <1>0, <1>1, <2>1, <2>2, <3>1, UnchangedHonest, AgreeStays
  <2> QED
    BY <2>3, <2>4, <2>5
<1>3. CASE Claim(d)
  <2>1. /\ session[d].pc = "claim"
        /\ queue' = [queue EXCEPT ![session[d].queue].status = "running"]
        /\ \/ session'[d].pc = "idle"
           \/ session'[d].pc = "select" /\ session'[d].queue = session[d].queue
    BY <1>0, <1>3, EndSessionMoves, GotoMoves DEF Claim, Idle
  <2>2. session[d].queue \in Queue /\ queue[session[d].queue].report = 0
    BY <1>0, <1>1, <2>1, SessionRow DEF HoldsRow
  <2>3. /\ queue'[session[d].queue].status = "running"
        /\ queue'[session[d].queue].report = 0
        /\ \A q \in Queue \ {session[d].queue} : queue'[q] = queue[q]
    BY <2>1, <2>2 DEF TypeInv, TypeOK, QueueRow
  <2>4. BindingsKept /\ \A q \in Queue : Honest(q)
    BY <1>0, <2>2, <2>3 DEF BindingsKept, Honest
  <2>5. \A q \in Queue : RowAgrees(q)'
    BY <2>4, RowAgreesStays DEF AgreeInv
  <2>6. \A r \in Report : ReadRows(r)'
    BY <1>1, <2>4, ReadRowsStay DEF AgreeInv
  <2>7. HoldsOpenRow(d)'
    BY <2>1, <2>3 DEF HoldsOpenRow, Holding
  <2> QED
    BY <1>0, <2>5, <2>6, <2>7 DEF AgreeInv
<1>4. CASE BindQueue(d)
  <2> DEFINE r == session[d].report
  <2>1. /\ session[d].pc = "bind" /\ session'[d].pc = "lease"
        /\ queue' = [queue EXCEPT ![session[d].queue].report = r]
    BY <1>0, <1>4, GotoMoves DEF BindQueue
  <2>2. /\ session[d].queue \in Queue /\ queue[session[d].queue].report = 0
        /\ queue[session[d].queue].status \in {"running", "canceled"}
    BY <1>0, <1>1, <2>1, SessionRow DEF HoldsRow, HoldsOpenRow, Holding
  <2>3. /\ queue'[session[d].queue].status = queue[session[d].queue].status
        /\ queue'[session[d].queue].report = r
        /\ \A q \in Queue \ {session[d].queue} : queue'[q] = queue[q]
    BY <2>1, <2>2 DEF TypeInv, TypeOK, QueueRow
  <2>4. r \in Report
    BY <1>0, <2>1 DEF TypeInv, Named, SessionNamed, ReportPC
  <2>5. report[r].status = "RUN_ING" /\ task[r].pc = "none"
    BY <1>0, <2>1, <2>4 DEF Calm, ReportAttended, BeforeTask, Running, ProcessInv,
                            OneLauncher, Launching
  <2>6. \A q \in Queue : RowAgrees(q)'
    <3>1. ASSUME NEW q \in Queue, q = session[d].queue
          PROVE  RowAgrees(q)'
      BY <1>0, <2>2, <2>3, <2>5, <3>1 DEF RowAgrees
    <3>2. ASSUME NEW q \in Queue, q # session[d].queue
          PROVE  RowAgrees(q)'
      BY <1>0, <2>3, <3>2 DEF RowAgrees, AgreeInv
    <3> QED
      BY <3>1, <3>2
  <2>7. ASSUME NEW s \in Report
        PROVE  ReadRows(s)'
    <3>1. CASE s = r
      BY <1>0, <2>5, <3>1 DEF ReadRows
    <3>2. CASE s # r
      <4>1. s # 0
        BY DEF Report
      <4>2. /\ QueuesOf(s)' = QueuesOf(s)
            /\ \A q \in QueuesOf(s) : queue'[q] = queue[q]
        BY <2>2, <2>3, <3>2, <4>1 DEF QueuesOf
      <4> QED
        BY <1>0, <4>2 DEF ReadRows, AgreeInv
    <3> QED
      BY <3>1, <3>2
  <2>8. HoldsOpenRow(d)'
    BY <2>1 DEF HoldsOpenRow, Holding
  <2> QED
    BY <1>0, <2>6, <2>7, <2>8 DEF AgreeInv
<1> QED
  BY <1>2, <1>3, <1>4

\* A restart fails the running rows together with the running reports.
LEMMA RepairAgrees ==
  ASSUME TypeInv, QueueInv, AgreeInv, RecoverRepair,
         \A p \in Starter : session'[p].pc = "idle"
  PROVE  BindingsKept /\ HonestStep
<1>1. \A r \in Report : report'[r].status =
         IF report[r].status = "RUN_ING" THEN "RUN_FAILED" ELSE report[r].status
  BY DEF RecoverRepair, RepairReports, Running, TypeInv, TypeOK, ReportRow
<1>2. \A q \in Queue : /\ queue'[q].report = queue[q].report
                       /\ queue'[q].status = IF queue[q].status = "running" THEN "failed"
                                             ELSE queue[q].status
  BY DEF RecoverRepair, InterruptedQueueStatus, TypeInv, TypeOK, QueueRow
<1>3. ASSUME NEW q \in Queue
      PROVE  Honest(q)
  <2>1. /\ RowAgrees(q)
        /\ queue[q].report # 0 => queue[q].report \in Report
        /\ queue[q].status \in {"none", "pending"} => queue[q].report = 0
        /\ queue[q].status \in
             {"none", "pending", "running", "success", "failed", "canceled"}
    BY ExecutionAssumption DEF AgreeInv, QueueInv, TypeInv, TypeOK, QueueRow, Report
  <2> QED
    BY <1>1, <1>2, <2>1 DEF RowAgrees, Honest
<1>4. BindingsKept
  BY <1>2 DEF BindingsKept
<1>5. \A d \in Dispatcher : session'[d].pc \notin Holding
  BY DEF Starter, Holding
<1> QED
  BY <1>3, <1>4, <1>5 DEF HonestStep

LEMMA NextAgree ==
  ASSUME TypeInv, ProcessInv, QueueInv, Calm, AgreeInv, NobodyStops, NobodyStops',
         [Next]_vars
  PROVE  AgreeInv'
<1>0. RowsStay /\ QueueInv'
  BY NextRowsStay, NextQueue
<1>1. ASSUME NEW p \in Starter, StartStep(p)
      PROVE  AgreeInv'
  <2>1. ReadsStay
    <3>1. CASE Launch(p)
      BY <3>1 DEF Launch, NoTask, ReadsStay, TypeInv, TypeOK
    <3>2. CASE ~Launch(p)
      <4>1. UNCHANGED task
        BY <1>1, <3>2, AddReportMoves, LaunchFailsWrites
           DEF StartStep, PrepareFails, MarkRunning, LeaseNodes, LeaseConflict,
               MarkStartFailed, ReleaseUnlaunched
      <4> QED
        BY <4>1, SameTasksRead
    <3> QED
      BY <3>1, <3>2
  <2> QED
    BY <1>0, <1>1, <2>1, StartQueue, StartAgrees, CarriesOnHoldsOn, AgreeStays
<1>2. ASSUME NEW r \in Report, TaskStep(r)
      PROVE  AgreeInv'
  <2>1. UNCHANGED session /\ BindingsKept /\ HonestStep
    BY <1>2, TaskMoves, TaskAgrees
  <2>2. \A d \in Dispatcher : HoldsOn(d)
    BY <2>1 DEF HoldsOn, Bound
  <2>3. CASE ReadsStay
    BY <1>0, <2>1, <2>2, <2>3, AgreeStays
  <2>4. CASE \A s \in Report : ReadRows(s)'
    <3>1. \A q \in Queue : RowAgrees(q)'
      BY <2>1, RowAgreesStays DEF AgreeInv, HonestStep
    <3>2. \A d \in Dispatcher : HoldsOpenRow(d)'
      BY <1>0, <2>1, <2>2, OpenRowStays
    <3> QED
      BY <2>4, <3>1, <3>2 DEF AgreeInv
  <2> QED
    BY <1>2, <2>3, <2>4, TaskReads DEF AgreeInv
<1>3. ASSUME UNCHANGED <<queue, report>>,
             UNCHANGED <<session, task>>
      PROVE  AgreeInv'
  BY <1>0, <1>3, UnchangedHonest, SameTasksRead, AgreeStays DEF HoldsOn, Bound
<1>4. CASE \/ UNCHANGED vars
           \/ \E n \in FlakyNode : NodeChanges(n)
           \/ \E r \in Report : OrphanExits(r)
  BY <1>3, <1>4 DEF vars, NodeChanges, OrphanExits, dbRows
<1>5. CASE Crash
  <2>1. /\ UNCHANGED <<queue, report>>
        /\ \A d \in Dispatcher : session'[d].pc = "idle"
        /\ \A r \in Report : task'[r].pc = "none"
    BY <1>5 DEF Crash, Idle, NoTask, Starter
  <2>2. ReadsStay /\ \A d \in Dispatcher : HoldsOn(d)
    BY <2>1 DEF ReadsStay, HoldsOn, Holding
  <2> QED
    BY <1>0, <2>1, <2>2, UnchangedHonest, AgreeStays
<1>6. CASE RecoverStep
  <2>1. CASE RecoverRepair
    <3>1. ~Up /\ UNCHANGED <<session, task>>
      BY <2>1 DEF RecoverRepair, Up
    <3>2. \A p \in Starter : session'[p].pc = "idle"
      BY <3>1 DEF ProcessInv, NothingRunsDown
    <3>3. BindingsKept /\ HonestStep
      BY <2>1, <3>2, RepairAgrees
    <3> QED
      BY <1>0, <3>1, <3>3, SameTasksRead, AgreeStays DEF HoldsOn, Bound
  <2>2. CASE ~RecoverRepair
    BY <1>3, <1>6, <2>2 DEF RecoverStep, StopLeftBehind, RecoverMark,
                            RecoverKill, RecoverStop, RecoverLeases
  <2> QED
    BY <2>1, <2>2
<1>7. CASE \/ \E k \in Stopper : StopRequest(k)
           \/ \E k \in Scanner, expired \in SUBSET Report : ScanTimeout(k, expired)
           \/ \E k \in Killer : StopStep(k)
  BY <1>3, <1>7, CalmStop DEF StopCaseWithoutReport, unmoved
<1> QED
  BY <1>0, <1>1, <1>2, <1>4, <1>5, <1>6, <1>7, RequestAgrees, DispatchAgrees DEF Next

\* A run nobody stops and that does not time out has a queue row that tells the
\* truth: it is "success" only if the report succeeded and "failed" only if the
\* report failed, whether the run ends before or after the dispatcher confirms
\* its start, its row is canceled meanwhile, or the master restarts
\* (sync_report_status, dispatch_pending_once, _mark_run_start_failed).
THEOREM RowsTellTheTruth == Spec /\ []NobodyStops => []QueueAgreesWithReport
<1>1. Init => AgreeInv
  BY DEF Init, AgreeInv, RowAgrees, ReadRows, HoldsOpenRow, NoQueue, NoTask, Idle,
         Holding, Starter
<1>2. TypeInv /\ ProcessInv /\ QueueInv /\ Calm /\ AgreeInv /\ NobodyStops
        /\ NobodyStops' /\ [Next]_vars => AgreeInv'
  BY NextAgree
<1>3. AgreeInv => QueueAgreesWithReport
  BY DEF AgreeInv, RowAgrees, QueueAgreesWithReport
<1> QED
  BY <1>1, <1>2, <1>3, SpecProcessInv, SpecQueueInv, SpecCalm, PTL DEF Spec
=============================================================================
