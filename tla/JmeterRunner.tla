---------------------------- MODULE JmeterRunner ----------------------------
(***************************************************************************)
(* The background task of services/jmeter_runner.py that spawns JMeter for *)
(* one report, waits for it, writes the result back and returns the nodes. *)
(*                                                                         *)
(*   created -> spawned -> running -> exited -> commit -> finish -> close  *)
(*   -> release -> done;  a failed spawn goes from created to exited with  *)
(*   result "error" and skips finish and close.                            *)
(***************************************************************************)
EXTENDS ExecutionState

TaskGoto(r, pc) == task' = [task EXCEPT ![r].pc = pc]

unseen == <<health, session, todo, killer, master, crashes>>

\* create_subprocess_exec, in a process group of its own.
Spawn(r) ==
    /\ Up /\ task[r].pc = "created"
    /\ alive' = alive \cup {r}
    /\ TaskGoto(r, "spawned")
    /\ UNCHANGED <<tc, report, queue, lease, run, unseen>>

\* Fault: a failed spawn is not reported.
SpawnFailsSilently(r) ==
    /\ Up /\ task[r].pc = "created"
    /\ run' = [run EXCEPT ![r] = "failed"]
    /\ TaskGoto(r, "release")
    /\ UNCHANGED <<tc, report, queue, lease, alive, unseen>>

\* The spawn raises: the execution run is closed first.
SpawnFails(r) ==
    /\ Up /\ task[r].pc = "created"
    /\ run' = [run EXCEPT ![r] = "failed"]
    /\ task' = [task EXCEPT ![r] = [@ EXCEPT !.pc = "exited", !.result = "error"]]
    /\ UNCHANGED <<tc, report, queue, lease, alive, unseen>>

\* _mark_execution_run_running, whatever the row says.
MarkRunRunning(r) ==
    /\ Up /\ task[r].pc = "spawned"
    /\ run' = [run EXCEPT ![r] = "running"]
    /\ TaskGoto(r, "running")
    /\ UNCHANGED <<tc, report, queue, lease, alive, unseen>>

\* proc.communicate() returns: the process ended by itself, well or badly, or
\* it was killed (negative exit code, a failure).
Exit(r) ==
    /\ Up /\ task[r].pc = "running"
    /\ \E result \in IF r \in alive THEN {"ok", "bad"} ELSE {"bad"} :
         task' = [task EXCEPT ![r] = [@ EXCEPT !.pc = "exited", !.result = result]]
    /\ alive' = alive \ {r}
    /\ UNCHANGED <<tc, report, queue, lease, run, unseen>>

Verdict(r) == IF task[r].result = "ok" THEN "RUN_SUCCESS" ELSE "RUN_FAILED"

\* _update_testcase_and_report, the reads of its transaction: a report that is
\* no longer running is left alone.
ReadReport(r) ==
    /\ Up /\ task[r].pc = "exited"
    /\ IF report[r].status = "RUN_ING"
         THEN task' = [task EXCEPT ![r] = [@ EXCEPT
                !.pc = "commit",
                !.setCase = tc[report[r].case] # Verdict(r),
                !.setQueue = {q \in QueuesOf(r) : queue[q].status = "running"}]]
         ELSE TaskGoto(r, IF task[r].result = "error"
                            THEN "release" ELSE "finish")
    /\ UNCHANGED <<tc, report, queue, lease, run, alive, unseen>>

\* Fault: the result reaches the report but not the test case.
CommitResultOfReport(r) ==
    /\ Up /\ task[r].pc = "commit"
    /\ report' = [report EXCEPT ![r].status = Verdict(r)]
    /\ TaskGoto(r, "finish")
    /\ UNCHANGED <<tc, queue, lease, run, alive, unseen>>

\* ... and its commit, with execution_queue.sync_report_status.
CommitResult(r) ==
    /\ Up /\ task[r].pc = "commit"
    /\ report' = [report EXCEPT ![r].status = Verdict(r)]
    /\ IF task[r].setCase
         THEN SetCase(report[r].case, Verdict(r)) ELSE UNCHANGED tc
    /\ queue' = [q \in Queue |->
         IF q \in task[r].setQueue
           THEN [queue[q] EXCEPT !.status =
                   IF Verdict(r) = "RUN_SUCCESS" THEN "success" ELSE "failed"]
           ELSE queue[q]]
    /\ task' = [task EXCEPT ![r] = [@ EXCEPT
         !.pc = IF task[r].result = "error" THEN "release" ELSE "finish",
         !.setCase = FALSE, !.setQueue = {}]]
    /\ UNCHANGED <<lease, run, alive, unseen>>

\* _execution_run_status is read in a transaction of its own: a run that is
\* being stopped has failed ...
ReadRun(r) ==
    /\ Up /\ task[r].pc = "finish"
    /\ task' = [task EXCEPT ![r] = [@ EXCEPT
         !.pc = "close",
         !.result = IF run[r] = "stopping" THEN "bad" ELSE task[r].result]]
    /\ UNCHANGED <<tc, report, queue, lease, run, alive, unseen>>

\* ... and _mark_execution_run_finished writes what was decided.
FinishRun(r) ==
    /\ Up /\ task[r].pc = "close"
    /\ run' = [run EXCEPT ![r] =
                 IF task[r].result = "ok" THEN "success" ELSE "failed"]
    /\ TaskGoto(r, "release")
    /\ UNCHANGED <<tc, report, queue, lease, alive, unseen>>

\* Fault: only the first lease of the report is found.
ReleaseFirstLease(r) ==
    /\ Up /\ task[r].pc = "release"
    /\ \E n \in Node :
         /\ <<r, n>> \in lease
         /\ lease' = lease \ {<<r, n>>}
    /\ TaskGoto(r, "done")
    /\ UNCHANGED <<tc, report, queue, run, alive, unseen>>

\* _release_execution_node_leases
ReleaseLeases(r) ==
    /\ Up /\ task[r].pc = "release"
    /\ lease' = lease \ Leases(r)
    /\ TaskGoto(r, "done")
    /\ UNCHANGED <<tc, report, queue, run, alive, unseen>>

TaskStep(r) ==
    \/ Spawn(r) \/ SpawnFails(r) \/ MarkRunRunning(r) \/ Exit(r)
    \/ ReadReport(r) \/ CommitResult(r) \/ ReadRun(r) \/ FinishRun(r)
    \/ ReleaseLeases(r)
=============================================================================
