----------------------------- MODULE Scheduler -----------------------------
(***************************************************************************)
(* Scheduled tasks: the rows of mysterious_scheduled_task, the API calls   *)
(* that edit them (services/scheduled_task.py, 197-387) and the polling    *)
(* loop that starts what is due (395-517).                                 *)
(*                                                                         *)
(* Time is abstract: a row's next_run_at is not set, lies ahead, or has    *)
(* come.  Calendar models how the instant is computed.  Every call reads   *)
(* its row in one step and commits in a later one, writing only the        *)
(* columns it changed with respect to what it read, as the ORM session     *)
(* does; the loop reads all due rows once and works through that list.     *)
(***************************************************************************)
EXTENDS Naturals

CONSTANTS
    Task,       \* ids of scheduled tasks
    NoTask,     \* the loop is at no task
    Planner,    \* API sessions
    MaxPlanEdit,    \* bound on API calls
    MaxMishap       \* bound on restarts and database failures

ASSUME SchedulerAssumption ==
    NoTask \notin Task /\ "loop" \notin Planner /\ MaxPlanEdit \in Nat /\ MaxMishap \in Nat

VARIABLES
    plan,       \* the rows
    scan,       \* the polling loop: its list, and where it is in it
    planner,    \* the API sessions: the call, and the row as it was read
    fired,      \* automatic runs of a row since next_run_at was last written
    unlogged,   \* runs started whose log row is not committed yet
    overtaken,  \* tasks whose type was edited while another write was under way
    planEdits, mishaps

schedulerVars ==
    <<plan, scan, planner, fired, unlogged, overtaken, planEdits, mishaps>>

PlanType == {"once", "periodic"}
Row == [type: PlanType \cup {"new", "deleted"}, enabled: BOOLEAN,
        next: {"none", "future", "due"}]

NoPlan(why) == [type |-> why, enabled |-> FALSE, next |-> "none"]
Exists(t) == plan[t].type \in PlanType

Asleep == [pc |-> "asleep", due |-> {}, at |-> NoTask,
           rows |-> [t \in Task |-> NoPlan("new")]]
Calling == [op |-> "idle", task |-> NoTask, row |-> NoPlan("new")]

Ops == {"idle", "update", "delete", "toggle", "trigger", "started"}
ScanPCs == {"asleep", "scan", "advance"}

SchedulerTypeOK ==
    /\ plan \in [Task -> Row]
    /\ scan \in [pc: ScanPCs, due: SUBSET Task, rows: [Task -> Row],
                 at: Task \cup {NoTask}]
    /\ planner \in [Planner -> [op: Ops, task: Task \cup {NoTask}, row: Row]]
    /\ fired \in [Task -> Nat]
    /\ overtaken \subseteq Task
    /\ unlogged \subseteq Task \X ({"loop"} \cup Planner)
    /\ planEdits \in 0..MaxPlanEdit
    /\ mishaps \in 0..MaxMishap

SchedulerInit ==
    /\ plan = [t \in Task |-> NoPlan("new")]
    /\ scan = Asleep
    /\ planner = [u \in Planner |-> Calling]
    /\ fired = [t \in Task |-> 0]
    /\ unlogged = {}
    /\ overtaken = {}
    /\ planEdits = 0
    /\ mishaps = 0

\* The instants _compute_next_run may return: a one-off time may have passed.
NextOf(type) == IF type = "once" THEN {"future", "due"} ELSE {"future"}

\* Commit of row `new` over the row read as `old`: columns that were not
\* changed stay.  Two instants that look the same here may differ, so that
\* next_run_at is written all the same when `moved`.  The task is overtaken by a
\* write whose reader missed an edit of the type, and by an edit of the type
\* whose reader missed a write; that its time came is no write.
Commit(t, old, new, moved) ==
    /\ plan' = [plan EXCEPT ![t] =
           [f \in DOMAIN new |->
               IF new[f] = old[f] /\ ~(f = "next" /\ moved) THEN @[f] ELSE new[f]]]
    /\ fired' = [fired EXCEPT ![t] = IF moved \/ new.next # old.next THEN 0 ELSE @]
    /\ overtaken' =
           IF /\ plan[t].type = old.type
              /\ new.type = old.type \/ plan[t] \in {old, [old EXCEPT !.next = "due"]}
           THEN overtaken ELSE overtaken \cup {t}

\* Fault: a one-off task keeps its instant when it is switched off.
AfterRunKeepsOnce(row) ==
    IF row.type = "once" THEN row ELSE [row EXCEPT !.next = "future"]

\* Fault: every task is treated as a one-off.
AfterRunOnce(row) == [row EXCEPT !.next = "none"]

\* What the loop and an API trigger write after a run.
AfterRun(row) ==
    IF row.type = "once"
    THEN [row EXCEPT !.enabled = FALSE, !.next = "none"]
    ELSE [row EXCEPT !.next = "future"]

-----------------------------------------------------------------------------
(* The API *)

\* POST /scheduledTask/add
AddScheduledTask(t) ==
    /\ planEdits < MaxPlanEdit
    /\ plan[t].type = "new"
    /\ \E type \in PlanType : \E next \in NextOf(type) :
        plan' = [plan EXCEPT ![t] = [type |-> type, enabled |-> TRUE, next |-> next]]
    /\ planEdits' = planEdits + 1
    /\ UNCHANGED <<scan, planner, fired, unlogged, overtaken, mishaps>>

\* A call reads its row; it is refused when the row does not exist.
ReadPlan(u, t, op) ==
    /\ planEdits < MaxPlanEdit
    /\ planner[u].op = "idle"
    /\ Exists(t)
    /\ planner' = [planner EXCEPT ![u] = [op |-> op, task |-> t, row |-> plan[t]]]
    /\ planEdits' = planEdits + 1
    /\ UNCHANGED <<plan, scan, fired, unlogged, overtaken, mishaps>>

Done(u) == planner' = [planner EXCEPT ![u] = Calling]

\* Updating a row that is gone raises StaleDataError; the call answers 500.
RowGone(u) ==
    /\ planner[u].op # "idle"
    /\ ~Exists(planner[u].task)
    /\ Done(u)
    /\ UNCHANGED <<plan, scan, fired, unlogged, overtaken, planEdits, mishaps>>

\* PUT /scheduledTask/update: a new schedule and its instant.
UpdateScheduledTask(u) ==
    LET row == planner[u].row IN
    /\ planner[u].op = "update"
    /\ Exists(planner[u].task)
    /\ \E type \in PlanType, moved \in BOOLEAN : \E next \in NextOf(type) :
        Commit(planner[u].task, row, [row EXCEPT !.type = type, !.next = next], moved)
    /\ Done(u)
    /\ UNCHANGED <<scan, unlogged, planEdits, mishaps>>

\* POST /scheduledTask/toggle: enabling recomputes the instant, save for "once".
Toggled(row, on) ==
    IF on /\ row.type # "once"
    THEN [row EXCEPT !.enabled = TRUE, !.next = "future"]
    ELSE [row EXCEPT !.enabled = on]

ToggleEnabled(u) ==
    LET row == planner[u].row IN
    /\ planner[u].op = "toggle"
    /\ Exists(planner[u].task)
    /\ \E on \in BOOLEAN : \E moved \in {FALSE, on /\ row.type # "once"} :
        Commit(planner[u].task, row, Toggled(row, on), moved)
    /\ Done(u)
    /\ UNCHANGED <<scan, unlogged, planEdits, mishaps>>

\* POST /scheduledTask/delete
DeleteScheduledTask(u) ==
    /\ planner[u].op = "delete"
    /\ Exists(planner[u].task)
    /\ plan' = [plan EXCEPT ![planner[u].task] = NoPlan("deleted")]
    /\ Done(u)
    /\ UNCHANGED <<scan, fired, unlogged, overtaken, planEdits, mishaps>>

\* POST /scheduledTask/trigger, region without nodes or run_testcase refused:
\* a "skipped" or "failed" log row is committed and the call fails.
TriggerRefused(u) ==
    /\ planner[u].op = "trigger"
    /\ Done(u)
    /\ UNCHANGED <<plan, scan, fired, unlogged, overtaken, planEdits, mishaps>>

\* run_testcase commits the run; the call's own commit comes later.
TriggerStarts(u) ==
    /\ planner[u].op = "trigger"
    /\ planner' = [planner EXCEPT ![u].op = "started"]
    /\ unlogged' = unlogged \cup {<<planner[u].task, u>>}
    /\ UNCHANGED <<plan, scan, fired, overtaken, planEdits, mishaps>>

\* ... which advances the row and stores the "triggered" log row.
TriggerSaved(u) ==
    LET t == planner[u].task IN
    /\ planner[u].op = "started"
    /\ Exists(t)
    /\ \E moved \in {FALSE, planner[u].row.type # "once"} :
        Commit(t, planner[u].row, AfterRun(planner[u].row), moved)
    /\ unlogged' = unlogged \ {<<t, u>>}
    /\ Done(u)
    /\ UNCHANGED <<scan, planEdits, mishaps>>

-----------------------------------------------------------------------------
(* The polling loop *)

DueTasks == {t \in Task : plan[t].enabled /\ plan[t].next = "due"}

\* After its sleep the loop reads every due row, in a session of its own.
GetDueTasks ==
    /\ scan.pc = "asleep"
    /\ DueTasks # {}
    /\ scan' = [pc |-> "scan", due |-> DueTasks, rows |-> plan, at |-> NoTask]
    /\ UNCHANGED <<plan, planner, fired, unlogged, overtaken, planEdits, mishaps>>

\* _execute_scheduled: the test case is gone, running, or short of nodes, or
\* run_testcase refuses; the log row is flushed, not committed.
ExecuteSkipped(t) ==
    /\ scan.pc = "scan"
    /\ t \in scan.due
    /\ scan' = [scan EXCEPT !.pc = "advance", !.at = t]
    /\ UNCHANGED <<plan, planner, fired, unlogged, overtaken, planEdits, mishaps>>

\* ... or run_testcase commits a run of its own.
ExecuteFires(t) ==
    /\ scan.pc = "scan"
    /\ t \in scan.due
    /\ scan' = [scan EXCEPT !.pc = "advance", !.at = t]
    /\ fired' = [fired EXCEPT ![t] = @ + 1]
    /\ unlogged' = unlogged \cup {<<t, "loop">>}
    /\ UNCHANGED <<plan, planner, overtaken, planEdits, mishaps>>

\* The list without the task just handled.
Proceed(t) ==
    scan' = IF scan.due = {t} THEN Asleep
            ELSE [scan EXCEPT !.pc = "scan", !.due = @ \ {t}, !.at = NoTask]

\* Fault: the error path of the loop advances the row and drops its log row.
TriggerNextRunUnlogged ==
    LET t == scan.at IN
    /\ scan.pc = "advance"
    /\ Exists(t)
    /\ Commit(t, scan.rows[t], AfterRun(scan.rows[t]), FALSE)
    /\ Proceed(t)
    /\ UNCHANGED <<planner, unlogged, planEdits, mishaps>>

\* _trigger_next_run, in the finally: the row as the scan read it moves on.
TriggerNextRun ==
    LET t == scan.at IN
    /\ scan.pc = "advance"
    /\ Exists(t)
    /\ Commit(t, scan.rows[t], AfterRun(scan.rows[t]), FALSE)
    /\ unlogged' = unlogged \ {<<t, "loop">>}
    /\ Proceed(t)
    /\ UNCHANGED <<planner, planEdits, mishaps>>

\* Fault: the error is not caught, and ends the loop.
ScanAbortsForGood ==
    /\ scan.pc = "advance"
    /\ ~Exists(scan.at)
    /\ scan' = [scan EXCEPT !.pc = "advance"]
    /\ UNCHANGED <<plan, planner, fired, unlogged, overtaken, planEdits, mishaps>>

\* The row was deleted meanwhile: the error drops the rest of the list, which
\* is due again in the next round.
ScanAborts ==
    /\ scan.pc = "advance"
    /\ ~Exists(scan.at)
    /\ scan' = Asleep
    /\ UNCHANGED <<plan, planner, fired, unlogged, overtaken, planEdits, mishaps>>

-----------------------------------------------------------------------------
(* The environment *)

TimeComes(t) ==
    /\ plan[t].next = "future"
    /\ plan' = [plan EXCEPT ![t].next = "due"]
    /\ UNCHANGED <<scan, planner, fired, unlogged, overtaken, planEdits, mishaps>>

\* A database error ends the round: the loop logs it and sleeps again.
DatabaseFails ==
    /\ mishaps < MaxMishap
    /\ scan.pc # "asleep"
    /\ scan' = Asleep
    /\ mishaps' = mishaps + 1
    /\ UNCHANGED <<plan, planner, fired, unlogged, overtaken, planEdits>>

\* A restart of the API process: the loop and the calls are gone.
SchedulerRestarts ==
    /\ mishaps < MaxMishap
    /\ scan' = Asleep
    /\ planner' = [u \in Planner |-> Calling]
    /\ mishaps' = mishaps + 1
    /\ UNCHANGED <<plan, fired, unlogged, overtaken, planEdits>>

PlannerStep(u) ==
    \/ \E t \in Task, op \in {"update", "delete", "toggle", "trigger"} : ReadPlan(u, t, op)
    \/ RowGone(u)
    \/ UpdateScheduledTask(u)
    \/ ToggleEnabled(u)
    \/ DeleteScheduledTask(u)
    \/ TriggerRefused(u)
    \/ TriggerStarts(u)
    \/ TriggerSaved(u)

LoopStep ==
    \/ GetDueTasks
    \/ \E t \in Task : ExecuteSkipped(t) \/ ExecuteFires(t)
    \/ TriggerNextRun
    \/ ScanAborts

SchedulerNext ==
    \/ \E t \in Task : AddScheduledTask(t) \/ TimeComes(t)
    \/ \E u \in Planner : PlannerStep(u)
    \/ LoopStep
    \/ DatabaseFails
    \/ SchedulerRestarts

SchedulerSpec == SchedulerInit /\ [][SchedulerNext]_schedulerVars

-----------------------------------------------------------------------------
(* Properties *)

\* One instant starts one automatic run, save when a restart or a database
\* error separates the run from the commit that advances the row.
FiresOnce == \A t \in Task : fired[t] <= 1 + mishaps

\* An enabled periodic task has a next instant, whatever the order in which
\* edits, manual triggers and the loop write the row: only an edit of the type
\* that overlaps another write of the row can leave it without one.
PeriodicArmed ==
    \A t \in Task \ overtaken :
        plan[t].type = "periodic" /\ plan[t].enabled => plan[t].next # "none"

\* A run that was started is logged, or about to be, unless its task was
\* deleted under it or the process was interrupted.
RunLogged ==
    \A t \in Task, u \in {"loop"} \cup Planner :
        <<t, u>> \in unlogged =>
            \/ u = "loop" /\ scan.pc = "advance" /\ scan.at = t
            \/ u # "loop" /\ planner[u].op = "started" /\ planner[u].task = t
            \/ ~Exists(t)
            \/ mishaps > 0

\* A task that is due is run or skipped, or stops being due: neither a failing
\* task nor a deleted one keeps the loop from the others.
DueIsServed == \A t \in Task : t \in DueTasks ~> t \notin DueTasks
=============================================================================
