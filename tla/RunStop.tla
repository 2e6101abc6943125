------------------------------ MODULE RunStop ------------------------------
(***************************************************************************)
(* How runs are stopped: stop_testcase and stop_execution of               *)
(* services/testcase.py, and the timeout scanner of                        *)
(* services/timeout_scanner.py.  Both go through jmeter_runner.launch_stop, *)
(* and both decide from the rows they read before it.                      *)
(*                                                                         *)
(*   idle -> mark -> kill -> release -> remote -> (mark | finish) -> idle   *)
(*   idle -> mark -> kill -> release -> (mark | idle)          the scanner  *)
(***************************************************************************)
EXTENDS ExecutionState

KillerGoto(k, pc) == killer' = [killer EXCEPT ![k].pc = pc]

unmoved == <<alive, task, session, todo, master, crashes>>

\* The reports a stop works on, in the order of their ids.
Target(k, r) == FirstOf(killer[k].todo, r)

CasesOf(R) == {report[r].case : r \in R}

\* What a stop learns of its reports when its transaction opens its snapshot:
\* the queue rows bound to them, which of them hold leases and, in
\* stop_execution and in the scanner's first transaction, whether their test
\* case has failed already and so needs no UPDATE.
Snapshot(rec, readsCase) ==
    LET mine == rec.todo \cup rec.marked IN
    [rec EXCEPT !.bound = {q \in Queue : queue[q].report \in mine},
                !.leased = {r \in rec.todo : Leases(r) \cap lease # {}},
                !.written = IF readsCase
                              THEN {c \in Case : /\ tc[c] = "RUN_FAILED"
                                                 /\ c \in CasesOf(mine)}
                              ELSE @]
Reread(rec) == IF SnapshotReads THEN rec ELSE Snapshot(rec, rec.single)

\* stop_testcase: the reports of every region that run now.
StopCase(k) ==
    /\ Up /\ killer[k].pc = "idle"
    /\ \E c \in Case :
         /\ tc[c] = "RUN_ING" /\ RunningOf(c) # {}
         /\ killer' = [killer EXCEPT ![k] = Snapshot(
              [Resting EXCEPT !.pc = "mark", !.todo = RunningOf(c)], FALSE)]
    /\ UNCHANGED <<tc, report, queue, lease, run, health, unmoved>>

\* stop_testcase without a running report only repairs the status.
StopCaseWithoutReport(k) ==
    /\ Up /\ killer[k].pc = "idle"
    /\ \E c \in Case :
         /\ tc[c] = "RUN_ING" /\ RunningOf(c) = {}
         /\ SetCase(c, "RUN_FAILED")
    /\ UNCHANGED <<report, queue, lease, run, health, killer, unmoved>>

\* stop_execution: one running report.
StopExecution(k) ==
    /\ Up /\ killer[k].pc = "idle"
    /\ \E r \in Running :
         killer' = [killer EXCEPT ![k] = Snapshot(
           [Resting EXCEPT !.pc = "mark", !.todo = {r}, !.single = TRUE], TRUE)]
    /\ UNCHANGED <<tc, report, queue, lease, run, health, unmoved>>

\* _scan_and_timeout: the running reports past their deadline, read once.
\* Time is not modelled, so any of them may be.
ScanTimeout(k, expired) ==
    /\ Up /\ killer[k].pc = "idle"
    /\ expired # {} /\ expired \subseteq Running
    /\ killer' = [killer EXCEPT ![k] = Snapshot(
         [Resting EXCEPT !.pc = "mark", !.todo = expired], TRUE)]
    /\ UNCHANGED <<tc, report, queue, lease, run, health, unmoved>>

\* launch_stop: _mark_execution_run_stopping, whatever the row says ...
MarkRunStopping(k) ==
    /\ Up /\ killer[k].pc = "mark"
    /\ \E r \in Report :
         /\ Target(k, r)
         /\ run' = IF run[r] = "none" THEN run
                   ELSE [run EXCEPT ![r] = "stopping"]
    /\ KillerGoto(k, "kill")
    /\ UNCHANGED <<tc, report, queue, lease, health, unmoved>>

\* ... then the process, if there is one, by handle, recorded pid or ps.
KillProcess(k) ==
    /\ Up /\ killer[k].pc = "kill"
    /\ \E r \in Report : Target(k, r) /\ alive' = alive \ {r}
    /\ KillerGoto(k, "release")
    /\ UNCHANGED <<tc, report, queue, lease, run, health, task, session, todo,
                   master, crashes>>

\* What one commit of a stop writes: _mark_report_stopped for the reports in
\* R, _mark_execution_queue_stopped for their queue rows when asked to, and
\* the test cases this session has not yet set to RUN_FAILED.
FailReports(k, R, withQueue) ==
    /\ report' = [r \in Report |-> IF r \in R
                    THEN [report[r] EXCEPT !.status = "RUN_FAILED"]
                    ELSE report[r]]
    /\ tc' = [c \in Case |-> IF c \in CasesOf(R) \ killer[k].written
                THEN "RUN_FAILED" ELSE tc[c]]
    /\ queue' = [q \in Queue |-> IF /\ withQueue /\ q \in killer[k].bound
                                   /\ queue[q].report \in R
                   THEN [queue[q] EXCEPT !.status = "failed"]
                   ELSE queue[q]]

FailNodes(k) ==
    health' = [n \in Node |-> IF n \in killer[k].sick /\ health[n] = "ok"
                 THEN "sick" ELSE health[n]]

\* The leases release_by_report finds.
Found(k, r) ==
    IF SnapshotReads THEN r \in killer[k].leased ELSE Leases(r) \cap lease # {}

\* release_by_report of a stop.  It commits only when it finds leases, and
\* then commits what the session wrote for the reports before.
StopRelease(k) ==
    /\ k \in Stopper
    /\ Up /\ killer[k].pc = "release"
    /\ \E r \in Report :
         /\ Target(k, r)
         /\ IF Found(k, r)
              THEN /\ lease' = lease \ Leases(r)
                   /\ FailReports(k, killer[k].marked, TRUE)
                   /\ FailNodes(k)
                   /\ killer' = [killer EXCEPT ![k] = Snapshot(
                        [killer[k] EXCEPT !.pc = "remote", !.marked = {}, !.sick = {},
                           !.written = @ \cup CasesOf(killer[k].marked)],
                        killer[k].single)]
              ELSE /\ KillerGoto(k, "remote")
                   /\ UNCHANGED <<tc, report, queue, lease, health>>
    /\ UNCHANGED <<run, unmoved>>

\* _stop_remote_engines restarts jmeter-server on every node of the report;
\* a node that resists is to be marked unhealthy.
StopRemote(k) ==
    /\ Up /\ killer[k].pc = "remote"
    /\ \E r \in Report, failed \in SUBSET FlakyNode :
         /\ Target(k, r) /\ failed \subseteq report[r].nodes
         /\ killer' = [killer EXCEPT ![k] = Reread(
              [killer[k] EXCEPT !.pc = IF killer[k].todo = {r} THEN "finish" ELSE "mark",
                        !.todo = @ \ {r}, !.marked = @ \cup {r},
                        !.sick = @ \cup failed])]
    /\ UNCHANGED <<tc, report, queue, lease, run, health, unmoved>>

\* The final commit of a stop.
StopFinish(k) ==
    /\ Up /\ killer[k].pc = "finish"
    /\ FailReports(k, killer[k].marked, TRUE)
    /\ FailNodes(k)
    /\ killer' = [killer EXCEPT ![k] = Resting]
    /\ UNCHANGED <<lease, run, unmoved>>

\* The scanner's commit for one report: report, test case and the leases it
\* finds, but not the queue row.
TimeoutCommit(k) ==
    /\ k \in Scanner
    /\ Up /\ killer[k].pc = "release"
    /\ \E r \in Report :
         /\ Target(k, r)
         /\ FailReports(k, {r}, FALSE)
         /\ lease' = IF Found(k, r) THEN lease \ Leases(r) ELSE lease
         /\ killer' = [killer EXCEPT ![k] =
              IF killer[k].todo = {r} THEN Resting
              ELSE Snapshot([killer[k] EXCEPT !.pc = "mark", !.todo = @ \ {r},
                               !.written = @ \cup CasesOf({r})], FALSE)]
    /\ UNCHANGED <<run, health, unmoved>>

StopRequest(k) == StopCase(k) \/ StopCaseWithoutReport(k) \/ StopExecution(k)

StopStep(k) ==
    \/ MarkRunStopping(k) \/ KillProcess(k) \/ StopRelease(k)
    \/ StopRemote(k) \/ StopFinish(k) \/ TimeoutCommit(k)
=============================================================================
