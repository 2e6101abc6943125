------------------------------ MODULE Recovery ------------------------------
(***************************************************************************)
(* A crash of the master loses every coroutine and every in-memory handle; *)
(* the rows and the JMeter processes, which live in process groups of      *)
(* their own, stay.  _recover_stuck_tasks of main.py repairs what it finds *)
(* before any scheduler or request runs; the master may crash in between.  *)
(***************************************************************************)
EXTENDS ExecutionState

Crash ==
    /\ master # "down" /\ crashes < MaxCrash
    /\ master' = "down"
    /\ crashes' = crashes + 1
    /\ task' = [r \in Report |-> NoTask]
    /\ session' = [p \in Starter |-> Idle]
    /\ todo' = {}
    /\ killer' = [k \in Killer |-> Resting]
    /\ UNCHANGED <<tc, report, queue, lease, run, health, alive>>

\* Faults: only what the reports say, or only runs past their preparation.
RunningReports == Running
RecordedRuns == {r \in Report : run[r] \in {"running", "stopping"}}

\* The reports and the execution runs a crash leaves behind.
LeftBehind == Running \cup {r \in Report : run[r] \in RunActive}

\* The loop of _recover_stuck_tasks, in any order.  launch_stop for one of
\* them: _mark_execution_run_stopping ...
RecoverMark(r) ==
    /\ master = "down" /\ r \in LeftBehind
    /\ run[r] \notin {"none", "stopping"}
    /\ run' = [run EXCEPT ![r] = "stopping"]
    /\ UNCHANGED <<tc, report, queue, lease, health, alive, task, session, todo,
                   killer, master, crashes>>

\* ... then the process, by recorded pid or ps.
RecoverKill(r) ==
    /\ master = "down" /\ r \in LeftBehind \cap alive
    /\ run[r] \in {"none", "stopping"}
    /\ alive' = alive \ {r}
    /\ UNCHANGED <<tc, report, queue, lease, run, health, task, session, todo,
                   killer, master, crashes>>

\* The loop is over.
RecoverStop ==
    /\ master = "down" /\ master' = "stopped"
    /\ \A r \in LeftBehind : r \notin alive /\ run[r] \in {"none", "stopping"}
    /\ UNCHANGED <<tc, report, queue, lease, run, health, alive, task, session,
                   todo, killer, crashes>>

\* Faults: the reports or the queue are left out, pending rows are not.
RepairNoReport == UNCHANGED report
NoQueueStatus == {}
AnyActiveQueueStatus == QueueActive

RepairReports ==
    report' = [r \in Report |-> IF r \in Running
                 THEN [report[r] EXCEPT !.status = "RUN_FAILED"] ELSE report[r]]
InterruptedQueueStatus == {"running"}

\* The second transaction: reports, test cases, queue rows, execution runs.
RecoverRepair ==
    /\ master = "stopped" /\ master' = "repaired"
    /\ RepairReports
    /\ tc' = [c \in Case |-> IF tc[c] = "RUN_ING" THEN "RUN_FAILED" ELSE tc[c]]
    /\ queue' = [q \in Queue |-> IF queue[q].status \in InterruptedQueueStatus
                   THEN [queue[q] EXCEPT !.status = "failed"] ELSE queue[q]]
    /\ run' = [r \in Report |-> IF run[r] \in RunActive THEN "lost" ELSE run[r]]
    /\ UNCHANGED <<lease, health, alive, task, session, todo, killer, crashes>>

\* Fault: the leases of the crashed master stay in force.
RecoverLeasesLeft ==
    /\ master = "repaired"
    /\ master' = "up"
    /\ UNCHANGED <<tc, report, queue, lease, run, health, alive, task, session,
                   todo, killer, crashes>>

\* mark_active_lost, then the schedulers start.
RecoverLeases ==
    /\ master = "repaired"
    /\ lease' = {}
    /\ master' = "up"
    /\ UNCHANGED <<tc, report, queue, run, health, alive, task, session, todo,
                   killer, crashes>>

\* A JMeter process the master no longer waits for ends by itself.
OrphanExits(r) ==
    /\ ~Up /\ r \in alive
    /\ alive' = alive \ {r}
    /\ UNCHANGED <<tc, report, queue, lease, run, health, task, session, todo,
                   killer, master, crashes>>

StopLeftBehind ==
    \/ \E r \in Report : RecoverMark(r) \/ RecoverKill(r)
    \/ RecoverStop

RecoverStep == StopLeftBehind \/ RecoverRepair \/ RecoverLeases
=============================================================================
