# Pressure platform: a verification project

The repository is a web platform for distributed load tests: a FastAPI master
(`src/api/app`) keeps test cases in MySQL, starts JMeter as a child process for
every run and lets JMeter drive *slave nodes* with `-R`. All concurrency is
asyncio: requests, schedulers and background tasks of one master process
interleave at every `await`, and share state through MySQL rows, through the
operating system's processes, and through the nodes.

This project models the core of the master (the life of a run from the request
to the released nodes, and the health of the nodes) and the services around it
(schedules, reports, documents and files, AI generation, accounts, settings, the
upgrade of the database) in TLA+, checks small instances with TLC and proves
theorems about the core and the services for all instances with TLAPS.

## 1. Inventory

| Component | Code under `src/api/app` | State it keeps | Operations | Hard behaviour | What makes it correct |
|---|---|---|---|---|---|
| Run start, queue admission | `services/testcase.py` | `testcase.status`, report rows | `run_testcase`, `run_testcase_legacy`, `debug_testcase`, `_run_testcase_now` | minutes of SSH and file work between check and commit; failure of every later step | a running case has a running report; nodes are leased once; failed starts leave nothing behind |
| Execution queue, dispatcher | `services/execution_queue.py` | `execution_queue` rows | enqueue, cancel, scan, claim, bind, confirm | loop against requests and finishing runs; rows cached in a session | a row starts one run at most and ends like its report |
| Node leases | `services/execution_node.py` | `execution_node` rows | `lease_nodes`, `release_by_report`, `mark_active_lost` | row locks against MVCC snapshots | one node, one report; every lease returned |
| JMeter runner | `services/jmeter_runner.py` | process, handle, `execution_run` row | launch, background task, stop, result | process and rows change in different steps | no unknown process; the result reaches report, case and queue row |
| Stop | `services/testcase.py` | (writes the above) | `stop_testcase`, `stop_execution` | hidden commit in the middle, remote restarts | a stopped run is over |
| Timeout scanner | `services/timeout_scanner.py` | none | one round per minute | works from a list read at the start of the round | only overdue runs are ended |
| Start-up recovery | `main.py` | none | `_recover_stuck_tasks` | crash at any point, also in the recovery | hands over a clean state, keeps the queue |
| Node administration, heartbeat | `services/node.py`, `node_heartbeat.py` | `node` rows, `jmeter-server` on nodes | enable, disable, probe round | slow probes against administrators and leases | a probe never overwrites a newer write |
| Scheduled tasks | `services/scheduled_task.py` | `scheduled_task` rows and logs | loop, trigger, edit, toggle, delete | run takes minutes, then a stale row is written | a due task fires once, a periodic one stays armed, every run has its log row |
| Report metrics, transactions | `services/report_metrics.py`, `report_transactions.py` | snapshot rows, reader state per report | incremental parse, acknowledge, upsert, full generation | growing file, saves that fail, generations that overlap | a curve never loses rows, the final snapshots are of the whole file, figures add up |
| Error samples | `services/report_error_samples.py`, `core/jmeter_error_samples.py`, `jmeter_runner.py` | listener and XML files of every node, snapshot row | listen, fetch from the slaves, merge of three sources | limits per JMeter, a fetch that fails unseen, duplicates, one type that floods the limits | every type is shown while there is room, no key twice |
| Report life cycle | `services/report.py`, `report_cleanup.py` | report rows and directories | add, clean, nightly clean-up | deletion against tracker, generation and runner | no orphan rows, no deletion of a running report, no report is kept for ever |
| AI generation | `services/ai_generation.py` | task and artifact rows, directories | create, generate, delete | deletion while running, crash while running | a task ends, a successful one is complete |
| Users, sessions, roles | `services/user.py`, `role.py`, `deps/auth.py` | user, session and role rows | add, update, delete, login, password, token check | check and commit apart | an old session is refused after a password change; role codes are unique |
| Test case documents | `services/jmx.py`, `jar.py` | JMX row, form rows, file and debug copy | upload, form, text, delete | several commits and files per call | the form reads back what one call gave, and the file says it |
| Data files | `services/csv.py`, `upload_file.py`, `testcase.py` | rows with checksum, files, bindings | upload, bind, delete, copy to slaves, split | row and file in different steps, file overwritten under a copy | checksum of the content; a run gets every file, slices of one reading |
| Load of a run | `services/testcase.py`, `core/jmeter_thread_groups.py` | none | threads per slave, run meta, deal of a split file | rounding, overrides | the load that was asked for; no row lost or doubled |
| Settings | `services/config.py` | `config` rows | add, update, delete, defaults | no unique index | every key can be read |
| Database schema | `db/schema.py`, `main.py` | the schema | migrations at start-up | a crash between two DDL statements | the server starts, and serves what it migrates and what the start selects |
| JMeter XML builders | `core/jmeter_xml.py` and others | none | XML transformation | sequential | covered by the repository's tests |
| API, audit log, Prometheus, SSH, credentials | `api/`, `services/audit_log.py`, `prometheus.py`, `core/` | audit rows | routing, I/O | none of their own | not modelled |

How they interact: the API and the scheduled tasks call run start; run start
either enqueues or prepares, adds a report, leases nodes and launches; the
dispatcher calls run start for queued rows; launch creates the background task,
which writes result, queue row, run record and lease; stop, timeout scanner and
recovery write the same rows and kill the process. Nobody waits for anybody
except the background task for its process, so every write may meet a state
that is older or newer than the one it was decided on.

`PROJECT.json` lists the same components with their status, and the hazards of
the code line by line.

## 2. Modules

| Module | Models |
|---|---|
| `NodeLease` | abstract lease service: acquire free nodes in one step, release all of a holder, void all |
| `ExecutionState` | shared rows, processes, program positions, `TypeOK`, `Init`, and the queries the services share |
| `RunStart` | API starts, queueing, canceling, dispatcher, `lease_nodes`, `launch_jmeter` |
| `JmeterRunner` | `_run_and_callback`, the background task of a run |
| `RunStop` | `stop_testcase`, `stop_execution`, `launch_stop`, the timeout scanner |
| `Recovery` | crash of the master, `_recover_stuck_tasks`, orphaned processes |
| `Execution` | composition, fairness, all properties, `INSTANCE NodeLease` |
| `MCExecution` | values of the constants for TLC |
| `NodeHealth` | node rows and engines: add, update, delete, enable, disable, heartbeat round, engine restart by a stop |
| `Scheduler` | scheduled task rows, API calls over them, the polling loop |
| `Calendar` | `_compute_next_run` against its definition |
| `AiGeneration` | task, artifact rows and files under request, coroutine and deletion |
| `Accounts` | users, sessions, roles, the token check |
| `SchemaUpgrade` | the migrations, statement by statement, over databases of earlier releases |
| `Retention` | settings rows, the defaults at start-up, the nightly clean-up |
| `ReportSnapshots` | tracker, whole-file generations, runner and deletion of a report |
| `ReportMath` | figures of transaction table, transaction curve and metric curve over one file |
| `ErrorSamples` | which failed samples a report shows |
| `JmxDocument` | the document of a test case: row, form rows, file, debug copy |
| `DataFiles` | public files, bindings, copies to slaves, the files of a run |
| `RunLoad` | threads per group and slave, run meta, the deal of rows |
| `MCServices`, `MCContent` | sums of the last twelve, for TLC |
| `ExecutionProofs`, `ProcessProofs`, `RunProofs`, `OutcomeProofs` | theorems about `Execution`: types and leases; processes and recovery; who attends to leases, reports and cases; engines and outcomes of queue rows |
| `NodeHealthProofs` | theorems about `NodeHealth` |
| `ServiceProofs` | theorems about `AiGeneration`, `Accounts`, `Scheduler`, `Calendar` and `SchemaUpgrade`; the types of `MCServices` |
| `DocumentProofs` | the theorem about `JmxDocument` |
| `ContentProofs` | theorems about `DataFiles`, `ReportSnapshots`, `ReportMath`, `RunLoad` and `ErrorSamples`; the types of `MCContent`; induction over numbers and finite sets, sums and folds |

### State and steps

One variable stands for one table or one kind of coroutine; `session` holds the
coroutines that start runs (API sessions and the dispatcher), `task` the
background task of a report, `killer` the stops and the scanner. A record
field `pc` is the program position.

A transaction is one step or two. InnoDB's default isolation gives a
transaction one snapshot for all its plain SELECTs, and the session factory
(`db/session.py`) keeps loaded objects after a commit. So the reads between two
commits are one step, each commit is one step, and what a coroutine read is
kept in its record (`tcSeen`, `view`, `written`, `bound`, `leased`) until it
writes. SQLAlchemy's unit of work writes only columns that differ from what was
loaded: a status that was already `RUN_FAILED` when it was read is not written
again, which the model keeps (`tcSeen`, `setCase`, `written`).

`SnapshotReads` selects the isolation: `TRUE` is the deployed default
(REPEATABLE READ), under which the lookup in `lease_nodes` of a direct run
still reads the snapshot opened by `add_report`; `FALSE` is READ COMMITTED,
where that lookup sees the leases in force. Every run but `direct` has `TRUE`;
`direct` asks whether anything else than this lookup could share a node. No
theorem assumes `FALSE`: what they say of leases and nodes names the step that
the deployed isolation spoils (`LeaseFromSnapshot`, `SharedOnlyByDirectRun`).

Definitions named `...Silently`, `...HoldingNodes` and the like under a
comment "Fault:" are variants of an action with a plausible bug. They are in no
next-state relation; each shows that a property would notice such a change.

`NodeHealth` stands beside `Execution`, which sees node rows change at any time
(`NodeChanges`). Its `row` is the node table, `engine` the hosts on which
`jmeter-server` runs, `probe` the round, `request` an API session with the row
as it loaded it. A commit of a session writes the columns it changed relative to
that copy, onto whatever the row holds by then (`Disable`: health only if it was
loaded as healthy); a round writes health only where `LooksTheSame`. Each SSH
command is a step that may fail. `modified` and `edits` count the same thing
twice: `edits` is history, `modified` the time stamp the code has, which with
`DistinctSeconds = FALSE` may stand still.

The twelve service modules have their own variables, `Init` and `Next` each
(`SchedulerInit`, `SchedulerNext` and so on), and meet the rest of the system
only where another module already stands for it: a scheduled task's
`run_testcase` is one step that commits or fails, the runner of
`ReportSnapshots` is a process that writes rows and ends. `MCServices` adds up
the services of the API process, `MCContent` what goes into a run and comes out
of it. They share no state, so a behaviour of a sum lets one part move, chosen
by the first state: the sum has the behaviours of each part and no product of
them. In every one of them a call reads in one step and writes in later ones,
one for each commit or file operation, and two calls overlap freely. What a
property has to excuse, because the code has the race, is history in the model
and named in the property: `spoiled` documents on which calls overlapped, `late`
logins, tasks an edit of whose type met another write (`overtaken`), generations
in flight when a report was deleted.

`Calendar`, `ReportMath` and `RunLoad` are functions of the code as operators,
checked on every input within the bounds against what they are for: the first
instant after now that the schedule names, sums over the rows, the threads that
were asked for. In `ReportMath` each loop over the file has its own set of rows
that it takes (`TransactionRows`, `MetricRows`). `ErrorSamples` has both: the
listeners that write and the master that fetches are steps (`RecordError`,
`FetchErrors`), the merge is an operator on what they left.

### Abstractions

- Time: any running report may be overdue; the order of ids stands for time.
- Data: JMX, CSV, JTL, hosts and messages are left out. The node set of a report
  is kept (it is written to the run's meta file and read by stop).
- Preparing a run (SSH, files, XML) is one step that succeeds, is refused
  (`PrepareFails`) or, in the dispatcher, breaks (`PrepareBreaks`).
- `launch_stop` finds the process by handle, recorded pid or `ps`; the model
  lets it find every live process. `ProcessRecorded` does not depend on that.
- The database answers. Errors that `_update_execution_run`,
  `_release_execution_node_leases` and `_safe_update_testcase_and_report`
  swallow are not modelled.
- The dispatcher's first visit of a scan shares the snapshot of the scan in the
  code; the model lets it read later (more behaviours). The test case object a
  scan keeps from row to row is read afresh (see the plan).
- The dispatcher's limit of ten rows exceeds every instance.
- `region` is compared raw by `enqueue_manual_execution` and stripped elsewhere;
  the model's regions have no surrounding blanks.
- In `NodeHealth`, `host` stands for all four columns of the connection; the
  load figures and master nodes are left out; a kill and a restart within one
  attempt of `_stop_remote_engine` are one step each; a run is a session that
  used a healthy node and may be stopped. Probes of a round run in any order
  (the limit of five at once only removes orders). The configuration of the
  slave paths is there.
- Deleting test cases is not modelled. A graceful shutdown cancels the
  coroutines and leaves the processes, which is a crash here.
- `Scheduler`: an instant is not set, ahead or come; `Calendar` has the instants.
  `Calendar`: a day has `DayParts` minutes and a year four months, which has
  every length but 29 and both turns of a year that matter (31 to 28, 31 to 31).
- `SchemaUpgrade`: a table is a name, a column or index a name too; of the rows
  only whether duplicates are among them, and how the nodes' passwords are
  stored. Of the tables and columns the models have and no migration makes, it
  has the tables all of them and a column of each kind: of those only
  `docker/init.sql` makes (`node_region`, `node_health_status`,
  `testcase_timeout_seconds`) and of those nothing makes
  (`testcase_num_threads`, which stands for `ramp_time` and `duration` too).
- `ErrorSamples`: a sample is its key (time, label, thread, code) and its type,
  and each source may tell a failure under another key and type (`own`, `row`).
- `ReportMath`: a row is written in full, cut short before thread name and
  success, or has thread counts that are missing or no numbers.
- Contents of documents and files are the number of the call that wrote them; a
  snapshot is the set of rows it was computed from.
- `Accounts` leaves out expiry by time and the token on the user row.

## 3. Runs

| Run | Instance | Shows |
|---|---|---|
| `direct` | 2 API sessions, 2 cases, 2 nodes, 2 reports, a crash, READ COMMITTED | `TypeOK`, `EnginesDisjoint`; the leases refine `NodeLease` (`LeaseService`) |
| `queue` | 1 API session, dispatcher, 1 flaky node, 2 rows, 2 reports | `QueueAgreesWithReport`, `QueueStartsOnce`; `LeaseServiceOrSnapshot`: under the deployed isolation only a direct run's lease departs from `NodeLease` |
| `stop` | 1 API session, 1 stopper, 2 reports of one case, a crash | `ProcessRecorded`, `LeaseAttended`, `RunningCaseBacked`, `RunningReportAttended` |
| `crash` | API session, dispatcher, scanner, flaky node, 1 row, 1 report, a crash; fair | `RecoveryClean`, `PendingSurvives`, `EveryLeaseEnds` |
| `live` | API session, stopper, scanner, 1 report, a crash; fair | `EveryReportEnds` |
| `heartbeat` | 2 API sessions, 1 node, 2 hosts, edits begun while the row has fewer than 2, 1 fault; fair | `TypeOK`, `EditsRespected`, `SelfHealing` |
| `services` | 2 tasks, 2 planners and 3 calls; a year of 4 months; 1 generation; 3 users, 4 roles, 2 clients; 3 old databases with 4 choices of what nothing migrates, 2 stops; 2 editors of 3 settings, 2 reports; fair | tasks: `FiresOnce`, `PeriodicArmed`, `RunLogged`, `DueIsServed`; calendar: `NextRunIsNextAsked`; generation: `SuccessIsComplete`, `GenerationEnds`; accounts: `SessionsFollowPassword`; schema: `ServesMigratedSchema`, `StartupCompletes`; clean-up: `ExpiredIsCleaned` |
| `content` | a report of 3 rows in 2 windows; 2 documents and 2 writers; 2 files, 2 slaves, 2 uploaders; 2 JTL rows; 3 errors on the master or 2 slaves; 2 groups on up to 3 slaves; fair | report: `LiveCurveGrows`, `SnapshotsFinal`, `DeletionLeavesNothing`, `RunnerFinishes`; figures: `FiguresAgree`; errors: `TypesRepresented`; document: `DocumentReadsBack`; files: `FilesArrive`, `SlicesPartition`; load: `LoadShared` |
| `snapshot` | 2 API sessions, 2 cases, 1 node, REPEATABLE READ | violates `LeaseExclusive` |
| `stranded` | dispatcher, 2 regions, 2 rows | violates `RunningQueueAttended` |
| `zombie` | API session, stopper | violates `StoppedIsDead` |
| `overwrite` | 1 API session, 1 node, 1 fault | violates `UserActionKept` |

Bounds: `MaxReport`, `MaxQueue` and `MaxCrash` limit what is ever created, not
what is in use at once. Every hazard of the core involves at most two runs (two
leases of a node, two starts of a case, a run and its successor after a crash)
and two coroutines besides the background tasks, so two reports, two rows and
one crash are enough for each to occur; the crash may hit the recovery because
`Crash` is enabled in every position but `down`. One session stands for any
number of sequential requests. Every action of the next-state relation is taken in
some passing run. No instance has an artefact-producing case (`InitCase`): it
uses no node and is a debug run with the checks of a normal one. Deadlock is not
checked: with the bounds used up and all runs over the system rests.

In `NodeHealth` nodes meet only through a shared host; one node and two hosts let
a node move between the snapshot and the write, two sessions let an enable, a
disable, an update or a stop overlap one another and a round, and one fault is
enough to send every one of them down its error path. A crash, a lost round and
a dead engine count as faults.

In `services` and `content` the hazards involve two calls or a call and a loop:
two calls at once, three or four in all, and one failure. Three edits of two
planners let two calls hold the row of a task while the loop holds it too; a
restart and a database error are each one `Mishap`. Two stops let the second
upgrade be cut off as well as the first. A report of three rows in two windows
has a window that is complete, one that is still growing and a row that comes
late; a row of a third bucket would repeat the first case. Only the metric curve
looks at the windows, so the rows of the other kinds are all in one
(`RowsInWindows`); and file names are interchangeable, so the document that is
there at the start has the first of them (`FirstName`). Two files and two slaves
let one copy of a run succeed and another fail or change under it; two rows give
a JTL file the extremes, the shares and a percentile that differ from each
other. `SlaveCount` has no slave, an even and an odd division of `Threads`, and
`RowCount` fewer and more rows than slaves. The instants let a row be unreadable
(0) or lie in either of two windows. Three errors exceed `PerType`, which is 1,
and `InAll`, which is 2, and two slaves let a type take its share twice; three
keys and failures told differently by their sources let a sample be doubled or
swallowed in the merge. The second of three calls switches the CSV flags off, so
an edit finds and leaves them either way. Settings rows are created, so three
ids are two duplicates of a key and one other.

Fairness (`FairSpec`): weak fairness of every coroutine's continuation, since
asyncio resumes a coroutine whose await is done; of the dispatcher's steps,
since its loop scans every ten seconds; of recovery, which runs at every start.
That a JMeter process ends is weak fairness of `TaskStep` in position
`running`: a test plan has a duration. None is assumed of users, nodes, crashes
or the timeout scanner. In `NodeHealth`: of the heartbeat, whose loop comes back
every minute and survives a failed round, and of the requests under way; faults
come to an end because they are bounded, which is what `SelfHealing` needs: a
host that never answers cannot heal. In `services`: of the scheduler's loop,
which looks every minute and which survives what a round raises
(`LoopStep`); of the coroutine of a generation, whose CLI has a timeout
(`GeneratorStep`); of the start-up, which docker runs again until it serves
(`StartupStep`); and of the nightly clean-up (`CleanupStep`). In `content`: of the
tracker and the runner, tasks of the event loop (`TrackerStep`, `RunnerStep`).
None of planners, clients, editors, writers or uploaders.

### Disagreements with the code's own statements

1. `snapshot`. `lease_nodes` locks the node rows `FOR UPDATE` and then looks for
   leases with a plain SELECT. A direct run has had its snapshot open since
   `add_report`'s refresh, so after waiting for the lock it reads the leases as
   they were before, and leases the node again. (A queued run commits its
   binding in between and reads afresh.)
2. `stranded`. A queued start that is refused after the claim, because a node or
   the region was taken meanwhile, leaves the row `running` for ever.
3. `zombie`. Stopping a report between `add_report` and the spawn finds no
   process, records the report as stopped, and the background task spawns
   JMeter all the same.

4. `overwrite`. A comment in `node_heartbeat.py` says that the conditions of the
   update keep a stale probe from overwriting a user action. A stop that cannot
   restart an engine sets `health_status` alone, which the conditions do not
   look at, so a probe that looked before writes healthy over it.

The same models contain further races and gaps that contradict no statement of
the repository, but for the two named below. Those of most weight are hazards in
`PROJECT.json`, without a property because the property would be false: two
starts of one case in one region; a cancellation that overtakes a claim; a
scanner that overwrites a finished report; a stop that restarts an engine after
the lease was returned; a refused row that aborts every scan of the dispatcher.

Two statements of the repository are contradicted without a run of their own,
because `DocumentReadsBack` and `ServesMigratedSchema` state what the code does
instead. The docstring at `jmx.py:608` has the old sub-tables cleared before the
new rows are inserted; an edit that keeps the type of the thread group inserts a
second row beside the first (`jmx.py:647`), and the form may show either; a CSV
flag that was switched off is stored as on (`jmx.py:510`) and written as off.
And `docker/init.sql` does not make the database that the models describe: the
columns `num_threads`, `ramp_time` and `duration` of a test case
(`models/testcase.py:22-24`) and the tables of scheduled tasks
(`models/scheduled_task.py:14`) and of the audit log (`models/audit_log.py:14`)
are made by no script and no migration. The recovery selects every column of a
test case, so on a database made by `init.sql` alone the API never serves
(`StartupCompletes` speaks of databases to which the columns were added); without
the two tables it serves and the first request for them fails. An older database
lacks what only `init.sql` has.

The other races and gaps:

- Queue: two requests enqueue one case and region at once (`execution_queue.py:52`);
  only the ten oldest rows are looked at (146).
- Nodes: a disabled node stays healthy because a round committed between the
  read and the commit of `disable_node` (`node.py:243`); a probe starts the engine
  of a node disabled meanwhile (`node_heartbeat.py:89`); a moved node keeps its
  health (`node.py:89`); a node is disabled under a run (242).
- Scheduler: a task edited or switched off since the list was read still fires
  (`scheduled_task.py:403`); a one-off task enabled again never does (244); days
  29 to 31 mean 28 (85).
- AI generation: artifact rows outlive a deletion (`ai_generation.py:455`); a
  restart leaves tasks running or pending for ever (374, 346).
- Accounts: two users of one name (`user.py:114`); a renamed administrator may be
  deleted (137); a role is deleted under an assignment (`role.py:81`); a refused
  `add_role` leaves the role (48).
- Settings: two rows of one key, by overlapping calls (`config.py:65`) or a renaming
  (90), fail the next start; every start turns a chosen 30 into 5 (141).
- Schema: a crash between two statements loses the index of five tables
  (`schema.py:228`).
- Reports: a generation stores rows of a deleted report (`report_metrics.py:473`);
  the last generation is refused while one is in flight
  (`report_transactions.py:296`); a restart leaves snapshots of half a file
  (`report_metrics.py:674`); a label named Total (`report_transactions.py:247`).
- Documents and files: two uploads at once (`jmx.py:84`); text lost to the next form
  edit (188); jars left by a forced deletion (878); a checksum of another content
  (`csv.py:134`); slaves with different versions of a file overwritten during the
  copies (`testcase.py:546`).

## 4. Proofs

TLAPS proves for all values of the constants. What it assumes of them are the
named assumptions at the head of each module (`ExecutionAssumption` and
`OneDispatcher` for the core: `main.py` starts one dispatcher loop), which TLC
evaluates in the runs.

### The core

- `ExecutionProofs!TypeCorrect`: `Spec => []TypeOK`. `TypeOK` is not inductive:
  a coroutine that reads the status of the case of a queue row needs that case
  to be one. The invariant `TypeInv` adds `Named`: a queue row in use, every row
  a coroutine or task is about to write, and a busy session name a test case,
  and a session past `AddReport` a report. Each action has one lemma step for
  its types and one for `Named`; the latter reduce to three facts about a step
  (`RowsKept`, `SessionsKept`, `TasksKept`).
- `ProcessProofs!ProcessesRecorded`: `Spec => []ProcessRecorded`. The property is
  inductive only together with four facts (`ProcessInv`): a report without
  contents has neither task nor session, a report has one launching session at
  most and no task before its launch, the run record is active from the launch
  until the process is gone, and no coroutine outlives a crash. Most actions keep
  `ProcessInv` for one reason (`QuietStep`: they fill no report, launch nothing,
  move no task, end no run); `AddReport`, `Launch`, the task's steps and recovery
  have proofs of their own.
- `ProcessProofs!RecoveryHandsOverClean`, `PendingRowsSurvive`: the action
  properties `RecoveryClean` and `PendingSurvives`. While the master is down only
  crashes, recovery, orphans and nodes move (`DownSteps`), so what the second
  transaction of the recovery repaired stays repaired (`RepairedInv`), and
  `ProcessRecorded` says that the first one killed every process.
- `RunProofs!LeasesAttended`, `RunningReportsAttended`: somebody attends to every
  lease and to every running report. Both follow the hand-over from the
  coroutine to the background task at `Launch`, and need that the report of a
  launch is the one that coroutine added (`ProcessInv`).
- `RunProofs!RunningCasesBacked`: no case is stuck in `RUN_ING`. The property is
  far from inductive: a task and a stop each leave the write of the case to the
  other, from what they read earlier. `CasesBacked` says that of the running
  reports of a running case one still has a coroutine that will rewrite the
  case; `LinkInv` ties a launching session to its report and the reports a
  stop claimed to rows that were made.
- `ExecutionProofs!LeasesImplementService`: `Spec => LeaseServiceOrSnapshot`,
  whatever the isolation. Every step of the system that touches the leases is a
  step of `NodeLease`, but for `LeaseNodes` of a direct run under `SnapshotReads`
  (`LeaseFromSnapshot`): a queued run's `Conflicts` is computed from the leases
  in force, because the bind before it ended the transaction. Run `snapshot`
  shows that the exception is real.
- `OutcomeProofs!LeasesShared`: `Spec => []LeasesSharedByDirectRuns`. Of two
  reports that lease one node, one at least is a direct run, and the isolation is
  REPEATABLE READ. `SharedInv` follows the binding of a queue row: a queued
  launch has its row bound before it leases, and a direct launch never has one.
- `OutcomeProofs!UndisturbedEnginesDisjoint`: while the master is up, two live
  JMeter processes share a slave node only by such a lease, if no stop and no
  timeout has their runs on its list, whatever is done to other runs. The
  invariant `HeldInv` says that such a run holds the leases of all its nodes for
  as long as it may have a process.
- `OutcomeProofs!EnginesStayDisjoint`: the same of all live processes, crashes
  included, for behaviours in which nobody stops a run and none times out
  (`NobodyStops`). The hypothesis is needed: a stop returns the nodes of a
  process it may have failed to kill. It holds of every behaviour of an instance
  without stopper and scanner, as `direct` is; there it is `EnginesDisjoint`.
- `OutcomeProofs!QueueRowsStartOnce`: `QueueStartsOnce`. The dispatcher holds the
  row it claimed, unbound, until it binds it, and no other coroutine claims
  (`QueueInv`; this is what `OneDispatcher` is for).
- `OutcomeProofs!RowsTellTheTruth`: `QueueAgreesWithReport` under `NobodyStops`.
  The task writes report and row together, but the row it read in the
  transaction before: `AgreeInv` says that it read all the running rows of its
  report. Without the hypothesis a stop overwrites a report that just finished
  (a hazard in `PROJECT.json`); run `queue` has no stopper either.

### Node health and services

- `NodeHealthProofs!HeartbeatRespectsEdits`: under `DistinctSeconds`, `Spec =>
  EditsRespected`. The invariant `StampInv` says that the stamp of a row, and of
  the row a probe remembers, counts its edits; so equal stamps mean no edit in
  between. It is kept because every commit of a session that edits a row stamps
  it, and the writes that do not (`Delete`, the stop's mark, the round) leave
  both alone. Without the assumption two edits within one second escape.
- `NodeHealthProofs!TypeCorrect`: `Spec => []TypeOK`, which is inductive as it
  stands.
- `ServiceProofs!SuccessComplete`: `AiSpec => []SuccessIsComplete`.
  The invariant `StoreInv` follows the coroutine: before it stores, no artifact
  exists; while it stores, what is stored and what is left are what was asked
  for, as long as no deletion began; a success has no coroutine any more.
- `ServiceProofs!SessionsFollow`: `AccountsSpec => []SessionsFollowPassword`. A
  password changes only together with the end of the user's sessions, because
  an update of a user merges only the columns it changed (`MergeUser`), and a
  deleted id is never used again, so old sessions meet no new user.
- `ServiceProofs!InstantsFireOnce`, `PeriodicStaysArmed`, `RunsAreLogged`: the three
  safety properties of `Scheduler`, from one invariant, `SchedulerInv`. A task
  that has fired beyond what mishaps allow is the one the loop is about to
  advance, or was deleted and is not on its list (`FiredInv`); what a call
  writes arms a periodic task, or leaves the instant it found (`Arms`), and only
  rows that exist have an instant (`OnlyPlansHaveTime`).
  The proof of `PeriodicStaysArmed` corrected the model. Its history variable
  `overtaken` counted only writes whose reader had missed an edit of the type; a
  stale edit that turns a task periodic over a row the loop or another call had
  written, and whose instant it takes to be unchanged, disarms it as well. With
  one planner TLC cannot see that, so `services` now has two.
- `ContentProofs!SharedFilesArrive`, `SlicesArePartitions`: of `DataFiles`. What a
  carrier has already copied to a slave is what the disk holds, for the files
  nobody disturbed (`Brought`), and a slice is cut from a reading that the
  carrier made once (`SlicesInv`).
- `ContentProofs!SnapshotsComplete`, `DeletionIsClean`, `LiveCurveOnlyGrows`: of
  `ReportSnapshots`, for any number of rows and windows. In `ReportInv` a bucket
  that is not final holds all rows read of it and only such a bucket is dirty
  (`TrackerInv`), nothing is counted that is not in the file (`CountedInv`),
  after the run a snapshot is complete, with the slaves' error samples exactly
  if they were fetched, or has a generation ahead of it (`FinalInv`), and after
  the deletion whatever was not in flight stores nothing (`GoneInv`). The hard
  case is a tracker that a view started again after the runner had stopped the
  first: what it saves is the whole file, because the file is complete by then.

- `ServiceProofs!UpgradeServesMigrated`: `ServesMigratedSchema`, for any databases of
  older releases (`OldDatabaseAssumption`, `OldPartsAssumption`) and any number of
  stops: what the models have and the served database lacks is what no migration
  makes and the start does not select; passwords are encrypted; indexes are there
  and duplicates are not. What a migration runs is a sequence that depends on what
  it finds; `Finds` brings it to the statements of the migration that are `Due`,
  one lemma per migration. Then `DoneInv` says that a statement looked for by
  itself is done or still to do once its migration has looked, and `WholeInv` that
  an index made with its table is, unless a crash cut the migration off.

- `DocumentProofs!DocumentsReadBack`: `DocSpec => []DocumentReadsBack`, for any
  documents, thread groups, writers and faults. Two things are not read back as
  given, and the property says what is read instead: the thread group after an
  edit that kept its type (`kept`), and CSV flags that were switched off
  (`RowOf`). A call is a sequence of file and row operations with a commit
  between some of them, so the invariant, `DocInv`, has to say of every position
  of every call what the document is there. It says so with the set of the steps
  the call has left (`Left`), taken in the order of their ranks (`Rank`):
  `UnderWay` is what the document looks like when those steps are left, and
  `Good` when none is. A step of a call then has to bring `UnderWay` of what is
  left to `UnderWay` of what is left after it (`Progress`, `StepKeeps`), for the
  one writer that a document which is not spoiled can have.
- `ServiceProofs!NextRunsFollow`: `CalendarSpec => []NextRunIsNextAsked`, for months of
  28 to 31 days in any order (`CalendarAssumption`) and any minutes. The first
  day of a month is a recursive function; induction gives its recursion equations
  and that months follow each other without a gap, so that every day lies in one
  month. Then each kind of schedule asks for no instant between the clock and
  what `NextRun` gives: the same day or the next, a day of the next seven, or a
  day of this month or the next. A weekly schedule without days, which the page
  does not send, asks for nothing and is excused by name.
- `ContentProofs!SlavesShareLoad`: `LoadSpec => []LoadShared`. The sum of the
  threads is a fold of the community modules over a set, which picks the
  elements in an order that CHOOSE decides: `SumsTakeAny` shows by induction over
  finite sets that no order matters, `SumWith` that an element more adds its
  value, and `SumTimes` that a factor comes out. `Quotient` and `Places` are what
  division rounds to; with them a row has one slave (`RowInOne`) and two slaves
  differ by one row (`SliceIs`).
- `ContentProofs!ErrorTypesShown`: `ErrorSpec => []TypesRepresented`, for any number
  of slaves. The invariant, `ErrorInv`, counts what each listener wrote, and what
  the master has appended of it: a share of each type for every slave it has come
  to, and no more. The merge is a fold over three sequences; `MergeKeeps` carries
  through it that a type takes nothing past its share (`Showable`) and that the
  key of every error met is kept or had no room (`Represented`).
- `ContentProofs!ReportFiguresAgree`: `MathSpec => []FiguresAgree`, for any
  file, any width of a window and any run record of natural numbers
  (`ReportMathAssumption`). The figures are functions of the file, so the
  invariant is only its type, `MathTypeOK`, and the work is in what they
  compute. `StatIs`: one pass over the file (a recursive function, `PassExists`)
  counts, adds and bounds the rows of a label. `SumByKey`: what is counted for
  each key of a set adds up to what is counted of all, hence the table to its
  total, the curve of a transaction to its row of the table, and the curves of
  the transactions to the metric curve and the damaged rows, which the metric
  loop refuses; `SharesAddUp`: a label loses less than one percent to rounding.
  `ArrangementExists`: the sorted list that a CHOOSE asks for exists, for rows
  with equal times too; then a percentile, which interpolates between two places
  of it, does not fall when the place rises (`AtAscends`).
- `ServiceProofs!ServicesTyped`, `ContentProofs!ContentTyped`: `FairSpec => []TypeOK` of
  the two sums, from the invariants of their parts.

Induction is there, though the library's theorems for it are out of reach (they
take a predicate as a parameter, which the installed provers cannot
instantiate): `ContentProofs!Least` is the least element of a set of numbers, from
`NatLessThanWellFounded`; `Induction` is the principle for the set of the numbers
of which something holds, and `FiniteInduction` the one for the set of the subsets
of a finite set. By them `Largest` shows that a bounded set has the maximum a
CHOOSE asks for, and `Recursion` that a function defined by recursion over finite
sets exists, without which nothing is known of the CHOOSE that defines it. A
recursion over a sequence or over numbers is shown to exist in the same way where
it is used (`FoldExists`, `ReadsExist`).

### Model-checked only

- Liveness: `EveryLeaseEnds`, `EveryReportEnds`, `SelfHealing`, `DueIsServed`,
  `GenerationEnds`, `StartupCompletes`, `ExpiredIsCleaned`, `RunnerFinishes`.
  Fairness and ENABLED are beyond the prover.

Every safety property of a passing run, invariant or action property, is the
statement of a theorem, but for the two that hold under READ COMMITTED only,
`LeaseService` and `EnginesDisjoint` of run `direct`; `LeasesImplementService`,
`LeasesShared` and `EnginesStayDisjoint` say what they become under either
isolation.

## 5. Plan

Done: the execution core, node health, their refinement and theorems, and the
services around them with theirs.

Next, in this order:

1. Leases and engines together: a composition of `NodeHealth` with the lease
   service, for the stop that restarts an engine after the lease was returned.
2. The stale test case of a dispatcher scan.

## 6. Not modelled

- Test case CRUD: one request, one transaction; renaming cascades to
  descriptions. Nothing keeps a case from
  being deleted during its run (`testcase.py:230`).
- JMeter XML builders, masking, presentation of snapshots, comparison of reports:
  sequential text processing without state.
- `statistics.json` in place of the JTL file, archives and the preview proxy.
- HTTP routes and schemas: each calls one service operation, which is the action;
  lists and queries change nothing.
- Audit log: one insert per request, read by lists only. Prometheus, Grafana:
  external services.
- SSH, shell quoting, log rotation: I/O without shared state.
- The token on the user row, kept for old clients, and the expiry of sessions.
- Database failures inside the life of a run (the services model them where a
  property depends on them).
