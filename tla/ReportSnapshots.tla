-------------------------- MODULE ReportSnapshots --------------------------
(***************************************************************************)
(* What is served of one report: the metric, transaction, transaction      *)
(* curve and error sample snapshots (services/report_metrics.py,           *)
(* report_transactions.py, report_error_samples.py), from the first row    *)
(* JMeter writes to the deletion of the report.                            *)
(*                                                                         *)
(* While the run goes on, a tracker reads the new lines of the JTL file    *)
(* and upserts the time buckets they fall in; once it is over, background  *)
(* tasks parse the whole file again.  API calls start either of them too.  *)
(* A row is its position in the file; a snapshot is the set of rows it was *)
(* computed from.                                                          *)
(***************************************************************************)
EXTENDS Integers, Sequences, FiniteSets

CONSTANTS
    Bucket,         \* time windows, as 1..n
    Followed,       \* sets of kinds of snapshot a behaviour looks at
    MaxRow,         \* bound on the rows of the JTL file
    MaxView,        \* bound on the API calls that start work
    MaxReportFault  \* bound on database failures and restarts

ASSUME ReportAssumption ==
    /\ Bucket \in SUBSET (Nat \ {0})
    /\ Followed \subseteq SUBSET {"metric", "transaction", "curve", "error"}
    /\ MaxRow \in Nat /\ MaxView \in Nat /\ MaxReportFault \in Nat

VARIABLES
    kinds,      \* the kinds looked at: they share the file and nothing else
    report,     \* the row: running, done or gone
    jtl,        \* the file: the bucket of each row, and the rows that are whole
    runner,     \* the coroutine that waits for JMeter
    tracker,    \* the task that follows the file during the run
    generation, \* the background tasks, by kind of snapshot
    published,  \* metric snapshots: the rows counted in each bucket
    stored,     \* the other snapshots: the rows counted in each
    missed,     \* kinds whose last generation was refused, or failed to save
    orphaned,   \* kinds whose generation was in flight at the deletion
    views, reportFaults

reportVars == <<kinds, report, jtl, runner, tracker, generation, published, stored,
                missed, orphaned, views, reportFaults>>

Kind == {"metric", "transaction", "curve", "error"}
Rows == 1..MaxRow

\* What is in a snapshot and is no row of the JTL file: the error samples of
\* the slaves, and what a snapshot without rows still has, the Total row of the
\* transactions and the frame of the error samples.
Remote == 0
Frame == -1
Extra == {Remote, Frame}

RunnerPC == {"run", "untrack", "collect", "update", "schedule", "finished", "lost"}
TrackerPC == {"none", "poll", "read", "save"}
GenerationPC == {"none", "read", "parse", "save"}

NoRows == [b \in Bucket |-> {}]

\* _IncrementalMetricState, and what was computed but not saved yet.
NoTracker == [pc |-> "none", stop |-> FALSE, offset |-> 0, pending |-> FALSE,
              buckets |-> NoRows, dirty |-> {}, latest |-> 0, finalized |-> 0]
NoGeneration == [pc |-> "none", rows |-> {}]

ReportTypeOK ==
    /\ kinds \in Followed
    /\ report \in {"running", "done", "gone"}
    /\ jtl \in [rows: Seq(Bucket), whole: 0..MaxRow, remote: BOOLEAN, there: BOOLEAN]
    /\ runner \in RunnerPC
    /\ tracker \in [pc: TrackerPC, stop: BOOLEAN, offset: 0..MaxRow, pending: BOOLEAN,
                    buckets: [Bucket -> SUBSET Rows], dirty: SUBSET Bucket,
                    latest: Nat, finalized: Int]
    /\ generation \in [Kind -> [pc: GenerationPC, rows: SUBSET (Extra \cup Rows)]]
    /\ published \in [Bucket -> SUBSET Rows]
    /\ stored \in [Kind \ {"metric"} -> SUBSET (Extra \cup Rows)]
    /\ missed \subseteq Kind /\ orphaned \subseteq Kind
    /\ views \in 0..MaxView /\ reportFaults \in 0..MaxReportFault

ReportInit ==
    /\ kinds \in Followed
    /\ report = "running"
    /\ jtl = [rows |-> <<>>, whole |-> 0, remote |-> FALSE, there |-> TRUE]
    /\ runner = "run"
    /\ tracker = [NoTracker EXCEPT !.pc = "poll"]
    /\ generation = [k \in Kind |-> NoGeneration]
    /\ published = NoRows
    /\ stored = [k \in Kind \ {"metric"} |-> {}]
    /\ missed = {} /\ orphaned = {}
    /\ views = 0 /\ reportFaults = 0

-----------------------------------------------------------------------------
(* JMeter: rows reach the file in pieces, and not in the order of time *)

RowBegins ==
    /\ runner = "run"
    /\ jtl.whole = Len(jtl.rows) /\ jtl.whole < MaxRow
    /\ \E b \in Bucket : jtl' = [jtl EXCEPT !.rows = Append(@, b)]
    /\ UNCHANGED <<kinds, report, runner, tracker, generation, published, stored,
                   missed, orphaned, views, reportFaults>>

RowEnds ==
    /\ jtl.whole < Len(jtl.rows)
    /\ runner = "run"
    /\ jtl' = [jtl EXCEPT !.whole = @ + 1]
    /\ UNCHANGED <<kinds, report, runner, tracker, generation, published, stored,
                   missed, orphaned, views, reportFaults>>

-----------------------------------------------------------------------------
(* The tracker: _run_running_metric_snapshot_generation *)

\* Fault: the loop looks at the report only, and its stop event is not set.
TrackerPollsReport ==
    /\ tracker.pc = "poll"
    /\ tracker' = IF report = "running" THEN [tracker EXCEPT !.pc = "read"] ELSE NoTracker
    /\ UNCHANGED <<kinds, report, jtl, runner, generation, published, stored,
                   missed, orphaned, views, reportFaults>>

\* After its sleep the loop ends when it was told to stop, and
\* _refresh_running_metric_snapshots ends it when the report is not running.
TrackerPolls ==
    /\ tracker.pc = "poll"
    /\ tracker' = IF ~tracker.stop /\ report = "running"
                  THEN [tracker EXCEPT !.pc = "read"] ELSE NoTracker
    /\ UNCHANGED <<kinds, report, jtl, runner, generation, published, stored,
                   missed, orphaned, views, reportFaults>>

\* Fault: a late row opens its bucket again, without the rows before it.
AllFreshRows(t) == t.offset + 1 .. jtl.whole

\* _parse_incremental_jtl_metrics: whole lines since the last read; a piece of
\* a line is kept for the next read.  A late row of a bucket that was dropped
\* is left to the whole-file generation.
FreshRows(t) ==
    {r \in t.offset + 1 .. jtl.whole : jtl.rows[r] >= t.finalized}

ParseIncremental(t) ==
    LET fresh == FreshRows(t)
        keys  == {jtl.rows[r] : r \in fresh} IN
    [t EXCEPT
        !.offset  = jtl.whole,
        !.pending = jtl.whole < Len(jtl.rows),
        !.buckets = [b \in Bucket |-> @[b] \cup {r \in fresh : jtl.rows[r] = b}],
        !.dirty   = @ \cup keys,
        !.latest  = CHOOSE m \in keys \cup {@} : \A k \in keys \cup {@} : k <= m]

\* Nothing is computed, and nothing retried, when the file has not grown.
Grown(t) == jtl.whole > t.offset \/ (jtl.whole < Len(jtl.rows) /\ ~t.pending)

TrackerReads ==
    /\ tracker.pc = "read"
    /\ tracker' =
           LET t == IF jtl.there /\ Grown(tracker) THEN ParseIncremental(tracker)
                    ELSE tracker IN
           [t EXCEPT !.pc = IF jtl.there /\ Grown(tracker) /\ t.dirty # {}
                            THEN "save" ELSE "poll"]
    /\ UNCHANGED <<kinds, report, jtl, runner, generation, published, stored,
                   missed, orphaned, views, reportFaults>>

\* _ack_incremental_jtl_metrics: buckets older than the last but one are final.
Ack(t) ==
    LET keepFrom == t.latest - 1 IN
    [t EXCEPT !.pc = "poll",
              !.dirty = {},
              !.finalized = IF @ > keepFrom THEN @ ELSE keepFrom,
              !.buckets = [b \in Bucket |-> IF b < keepFrom THEN {} ELSE @[b]]]

\* _save_metric_snapshots upserts the dirty buckets in one transaction.
TrackerSaves ==
    /\ tracker.pc = "save"
    /\ published' = [b \in Bucket |->
           IF b \in tracker.dirty THEN tracker.buckets[b] ELSE published[b]]
    /\ tracker' = Ack(tracker)
    /\ UNCHANGED <<kinds, report, jtl, runner, generation, stored, missed, orphaned, views, reportFaults>>

TrackerSaveFails ==
    /\ tracker.pc = "save"
    /\ reportFaults < MaxReportFault
    /\ tracker' = [tracker EXCEPT !.pc = "poll"]
    /\ reportFaults' = reportFaults + 1
    /\ UNCHANGED <<kinds, report, jtl, runner, generation, published, stored, missed, orphaned, views>>

-----------------------------------------------------------------------------
(* Whole-file generations: the four schedule_..._generation functions *)

Idle(k) == generation[k].pc = "none"

\* Refused while a generation of the kind is in flight.
Scheduled(ks) ==
    [k \in Kind |-> IF k \in ks /\ Idle(k) THEN [NoGeneration EXCEPT !.pc = "read"]
                    ELSE generation[k]]

\* The report row is read; a report that is gone raises REPORT_NOT_EXIST.
GenerationReads(k) ==
    /\ generation[k].pc = "read"
    /\ generation' = [generation EXCEPT ![k] =
           IF report = "gone" THEN NoGeneration ELSE [@ EXCEPT !.pc = "parse"]]
    /\ UNCHANGED <<kinds, report, jtl, runner, tracker, published, stored,
                   missed, orphaned, views, reportFaults>>

\* Rows a whole-file parser counts: a row that is still being written is
\* skipped or counted, depending on where it is cut.
Parsed(k, rows) ==
    (IF jtl.there THEN 1..jtl.whole \cup (rows \cap {Len(jtl.rows)}) ELSE {})
    \cup (IF jtl.there /\ jtl.remote /\ k = "error" THEN {Remote} ELSE {})
    \cup (IF k = "error" \/ (jtl.there /\ k = "transaction") THEN {Frame} ELSE {})

\* Metrics of a file without rows end here, and transactions without a file; the
\* curve is stored without points, the other two with their frame.
GenerationParses(k) ==
    /\ generation[k].pc = "parse"
    /\ \E torn \in {{}, Rows} :
        generation' = [generation EXCEPT ![k] =
            IF Parsed(k, torn) = {} /\ k \in {"metric", "transaction"} THEN NoGeneration
            ELSE [pc |-> "save", rows |-> Parsed(k, torn)]]
    /\ UNCHANGED <<kinds, report, jtl, runner, tracker, published, stored,
                   missed, orphaned, views, reportFaults>>

\* Fault: a whole-file generation adds what it parsed to what is there.
GenerationSavesMore(k) ==
    /\ generation[k].pc = "save"
    /\ LET rows == generation[k].rows IN
       IF k = "metric"
       THEN /\ published' = [b \in Bucket |->
                   IF published[b] = {} THEN {r \in rows : jtl.rows[r] = b}
                   ELSE published[b]]
            /\ UNCHANGED stored
       ELSE stored' = [stored EXCEPT ![k] = rows] /\ UNCHANGED published
    /\ generation' = [generation EXCEPT ![k] = NoGeneration]
    /\ UNCHANGED <<kinds, report, jtl, runner, tracker, missed, orphaned, views, reportFaults>>

\* Metric buckets are upserted, the other snapshots replaced.  Nothing looks at
\* the report again.
GenerationSaves(k) ==
    /\ generation[k].pc = "save"
    /\ LET rows == generation[k].rows IN
       IF k = "metric"
       THEN /\ published' = [b \in Bucket |->
                   LET part == {r \in rows : jtl.rows[r] = b} IN
                   IF part = {} THEN published[b] ELSE part]
            /\ UNCHANGED stored
       ELSE stored' = [stored EXCEPT ![k] = rows] /\ UNCHANGED published
    /\ generation' = [generation EXCEPT ![k] = NoGeneration]
    /\ UNCHANGED <<kinds, report, jtl, runner, tracker, missed, orphaned, views, reportFaults>>

GenerationFailsToSave(k) ==
    /\ generation[k].pc = "save"
    /\ reportFaults < MaxReportFault
    /\ reportFaults' = reportFaults + 1
    /\ generation' = [generation EXCEPT ![k] = NoGeneration]
    /\ missed' = missed \cup {k}
    /\ UNCHANGED <<kinds, report, jtl, runner, tracker, published, stored, orphaned, views>>

-----------------------------------------------------------------------------
(* API calls on the report *)

\* get_jtl_metrics and get_transaction_trend on a running report.
ViewRunningMetrics ==
    /\ views < MaxView
    /\ report = "running"
    /\ tracker.pc = "none"
    /\ tracker' = [NoTracker EXCEPT !.pc = "poll"]
    /\ views' = views + 1
    /\ UNCHANGED <<kinds, report, jtl, runner, generation, published, stored,
                   missed, orphaned, reportFaults>>

\* A call that finds no snapshot starts a generation: the trend at any time,
\* error samples only when the report does not run.
NothingStored(k) == IF k = "metric" THEN published = NoRows ELSE stored[k] = {}

ViewSnapshots(k) ==
    /\ views < MaxView
    /\ report # "gone" /\ NothingStored(k)
    /\ k = "error" => report = "done"
    /\ Idle(k)
    /\ generation' = Scheduled({k})
    /\ views' = views + 1
    /\ UNCHANGED <<kinds, report, jtl, runner, tracker, published, stored,
                   missed, orphaned, reportFaults>>

\* A stop request marks the report failed before JMeter has exited.
StopMarksReport ==
    /\ runner = "run"
    /\ report = "running"
    /\ report' = "done"
    /\ UNCHANGED <<kinds, jtl, runner, tracker, generation, published, stored,
                   missed, orphaned, views, reportFaults>>

\* Fault: one kind of snapshot is left out of the deletion.
CleanReportButCurve ==
    /\ report = "done"
    /\ report' = "gone"
    /\ published' = NoRows
    /\ stored' = [k \in Kind \ {"metric"} |-> IF k = "curve" THEN stored[k] ELSE {}]
    /\ jtl' = [jtl EXCEPT !.there = FALSE]
    /\ orphaned' = {k \in Kind : ~Idle(k)} \cup
                   (IF tracker.pc = "save" THEN {"metric"} ELSE {})
    /\ UNCHANGED <<kinds, runner, tracker, generation, missed, views, reportFaults>>

\* clean_report: refused on a running report; one transaction removes the
\* snapshots and the row, then the directory goes.
CleanReport ==
    /\ report = "done"
    /\ report' = "gone"
    /\ published' = NoRows
    /\ stored' = [k \in Kind \ {"metric"} |-> {}]
    /\ jtl' = [jtl EXCEPT !.there = FALSE]
    /\ orphaned' = {k \in Kind : ~Idle(k)} \cup
                   (IF tracker.pc = "save" THEN {"metric"} ELSE {})
    /\ UNCHANGED <<kinds, runner, tracker, generation, missed, views, reportFaults>>

-----------------------------------------------------------------------------
(* The runner: _run_and_callback after proc.communicate() *)

\* The file is complete; the tracker is told to stop, and awaited.
JmeterExits ==
    /\ runner = "run"
    /\ jtl.whole = Len(jtl.rows)
    /\ runner' = "untrack"
    /\ tracker' = [tracker EXCEPT !.stop = (tracker.pc # "none")]
    /\ UNCHANGED <<kinds, report, jtl, generation, published, stored,
                   missed, orphaned, views, reportFaults>>

\* The task it told to stop is over; a view may have started another.
TrackerJoined ==
    /\ runner = "untrack"
    /\ ~tracker.stop
    /\ runner' = "collect"
    /\ UNCHANGED <<kinds, report, jtl, tracker, generation, published, stored,
                   missed, orphaned, views, reportFaults>>

\* _collect_remote_error_samples fetches nothing for a report that is gone, and
\* whatever else keeps it from the slaves' files is not noticed: fetch_file does
\* not raise, an empty file is passed over, every exception is only logged.
CollectRemoteErrorSamples ==
    /\ runner = "collect"
    /\ \E fetched \in {FALSE, report # "gone"} : jtl' = [jtl EXCEPT !.remote = fetched]
    /\ runner' = "update"
    /\ UNCHANGED <<kinds, report, tracker, generation, published, stored,
                   missed, orphaned, views, reportFaults>>

\* _safe_update_testcase_and_report; when it fails the runner schedules nothing.
RunnerUpdates ==
    /\ runner = "update"
    /\ report' = IF report = "running" THEN "done" ELSE report
    /\ runner' = "schedule"
    /\ UNCHANGED <<kinds, jtl, tracker, generation, published, stored,
                   missed, orphaned, views, reportFaults>>

RunnerUpdateFails ==
    /\ runner = "update"
    /\ reportFaults < MaxReportFault
    /\ reportFaults' = reportFaults + 1
    /\ runner' = "lost"
    /\ UNCHANGED <<kinds, report, jtl, tracker, generation, published, stored,
                   missed, orphaned, views>>

\* _schedule_metric_snapshot schedules all four kinds.
RunnerSchedules ==
    /\ runner = "schedule"
    /\ runner' = "finished"
    /\ generation' = Scheduled(kinds)
    /\ missed' = {k \in Kind : ~Idle(k)}
    /\ UNCHANGED <<kinds, report, jtl, tracker, published, stored, orphaned, views, reportFaults>>

\* A restart: tasks are gone, and recovery fails a report that was running.
ApiRestarts ==
    /\ reportFaults < MaxReportFault
    /\ reportFaults' = reportFaults + 1
    /\ report' = IF report = "running" THEN "done" ELSE report
    /\ runner' = "lost"
    /\ tracker' = NoTracker
    /\ generation' = [k \in Kind |-> NoGeneration]
    /\ missed' = missed \cup {k \in Kind : ~Idle(k)}
    /\ UNCHANGED <<kinds, jtl, published, stored, orphaned, views>>

-----------------------------------------------------------------------------
TrackerStep == TrackerPolls \/ TrackerReads \/ TrackerSaves
GenerationStep(k) == GenerationReads(k) \/ GenerationParses(k) \/ GenerationSaves(k)
RunnerStep ==
    TrackerJoined \/ CollectRemoteErrorSamples \/ RunnerUpdates \/ RunnerSchedules

ReportNext ==
    \/ RowBegins \/ RowEnds
    \/ TrackerStep \/ TrackerSaveFails
    \/ \E k \in kinds :
        GenerationStep(k) \/ GenerationFailsToSave(k) \/ ViewSnapshots(k)
    \/ ViewRunningMetrics \/ StopMarksReport \/ CleanReport
    \/ JmeterExits \/ RunnerStep \/ RunnerUpdateFails
    \/ ApiRestarts

ReportSpec == ReportInit /\ [][ReportNext]_reportVars

-----------------------------------------------------------------------------
(* Properties *)

\* Once the runner is done and no task is in flight, each snapshot was computed
\* from every row of the run: what the tracker left out, or read torn, is made
\* good, unless the last generation was refused because an older one was in
\* flight.  The error samples were computed from the whole file too, and from the
\* slaves' files when they were fetched; a snapshot does not say whether they were.
SnapshotsFinal ==
    /\ runner = "finished" /\ report = "done"
    /\ \A k \in kinds : Idle(k)
    => /\ "metric" \in kinds \ missed =>
              published = [b \in Bucket |-> {r \in 1..jtl.whole : jtl.rows[r] = b}]
       /\ "curve" \in kinds \ missed => stored["curve"] = 1..jtl.whole
       /\ "transaction" \in kinds \ missed => stored["transaction"] = {Frame} \cup 1..jtl.whole
       /\ "error" \in kinds \ missed =>
              stored["error"] =
                  {Frame} \cup 1..jtl.whole \cup (IF jtl.remote THEN {Remote} ELSE {})

\* A deleted report leaves no snapshot, save what a task that was in flight at
\* the deletion stores after it.
DeletionLeavesNothing ==
    report = "gone" =>
        /\ "metric" \notin orphaned => published = NoRows
        /\ \A k \in Kind \ ({"metric"} \cup orphaned) : stored[k] = {}

\* A point of the live curve never loses a row the tracker has read, however
\* late rows come: only a whole-file generation that parsed the file earlier, or
\* the deletion, can take one away.
LiveCurveGrows ==
    [][\A b \in Bucket :
           \/ published[b] \ published'[b] \subseteq tracker.offset + 1 .. MaxRow
           \/ generation["metric"].pc = "save"
           \/ report' = "gone"]_reportVars

\* The runner is never stuck on the tracker it waits for.
RunnerFinishes == runner = "untrack" ~> runner \in {"finished", "lost"}
=============================================================================
