----------------------------- MODULE ReportMath -----------------------------
(***************************************************************************)
(* What a report computes from the rows of its JTL file: the transaction   *)
(* statistics and curve (services/report_transactions.py) and the metric   *)
(* curve (services/report_metrics.py), here as operators on a file that    *)
(* grows.  Figures are taken before rounding, percentiles in hundredths.   *)
(*                                                                         *)
(* Three loops read the file, and they do not refuse the same rows: the    *)
(* metric curve wants to know of success and threads, the transactions     *)
(* take a row that does not say whether it succeeded for a failed one.     *)
(***************************************************************************)
EXTENDS Integers, Sequences, FiniteSets, FiniteSetsExt

CONSTANTS
    Label,      \* names of transactions
    Instant,    \* time stamps; 0 for a row whose times cannot be read
    Elapsed,    \* response times
    GroupSize,  \* numbers of threads a row may report for its group
    Window,     \* the time window of the curves
    Meta,       \* what run_meta.json may say of the load
    MaxSample   \* bound on the rows

ASSUME ReportMathAssumption ==
    /\ Instant \subseteq Nat /\ Elapsed \subseteq Nat /\ GroupSize \subseteq Nat \ {0}
    /\ Window \in Nat \ {0} /\ MaxSample \in Nat
    /\ Meta \subseteq [slaves: Nat, perSlave: Nat, total: Nat]

VARIABLES
    meta,       \* the run_meta.json of the run
    samples     \* the rows of the file

mathVars == <<meta, samples>>

\* A row that was written in full; one whose thread counts are missing (0) or
\* are no numbers (-1); and one cut short before its thread name and success.
Unreadable == -1
Sample ==
    [label: Label, at: Instant, elapsed: Elapsed, success: {"true", "false"},
     threads: GroupSize \cup {0, Unreadable}]
    \cup [label: Label, at: Instant, elapsed: Elapsed, success: {"none"}, threads: {0}]

MathTypeOK == meta \in Meta /\ samples \in Seq(Sample) /\ Len(samples) <= MaxSample

MathInit == meta \in Meta /\ samples = <<>>

WriteRow ==
    /\ Len(samples) < MaxSample
    /\ \E s \in Sample : samples' = Append(samples, s)
    /\ UNCHANGED meta

MathSpec == MathInit /\ [][WriteRow]_mathVars

\* The rows that the transactions are made of: both times are numbers.
TransactionRows == {i \in DOMAIN samples : samples[i].at > 0}

\* Fault: a row that does not tell of success is taken, as for transactions.
MetricRowsOfAnySuccess ==
    {i \in DOMAIN samples : samples[i].at > 0 /\ samples[i].threads # Unreadable}

\* _append_metric_row: the row tells of success, too, and no thread count is in
\* the way.
MetricRows ==
    {i \in DOMAIN samples : /\ samples[i].at > 0
                            /\ samples[i].success # "none"
                            /\ samples[i].threads # Unreadable}

Times(is) == {samples[i].elapsed : i \in is}
Failed(is) == {i \in is : samples[i].success # "true"}

-----------------------------------------------------------------------------
(* Transaction statistics: _parse_jtl_transaction_stats *)

\* One pass over the file, each row counted for its label and for Total.
Add(stat, s) ==
    [count |-> stat.count + 1,
     failed |-> stat.failed + (IF s.success = "true" THEN 0 ELSE 1),
     sum |-> stat.sum + s.elapsed,
     max |-> IF s.elapsed > stat.max THEN s.elapsed ELSE stat.max,
     min |-> IF stat.count = 0 \/ s.elapsed < stat.min THEN s.elapsed ELSE stat.min]

NoStat == [count |-> 0, failed |-> 0, sum |-> 0, max |-> 0, min |-> 0]

StatOf(is) ==
    LET pass[i \in 0..Len(samples)] ==
            IF i = 0 THEN NoStat
            ELSE IF i \in is THEN Add(pass[i - 1], samples[i]) ELSE pass[i - 1]
    IN pass[Len(samples)]

TransactionStats ==
    [l \in {samples[i].label : i \in TransactionRows} |->
        StatOf({i \in TransactionRows : samples[i].label = l})]
TotalStat == StatOf(TransactionRows)

\* _normalize_transaction_rows: the share of all samples, in percent.
Ratio(stat) ==
    IF TotalStat.count = 0 THEN 0 ELSE (stat.count * 100) \div TotalStat.count

-----------------------------------------------------------------------------
(* Curves *)

BucketStart(s) == (s.at \div Window) * Window

\* _percentile of a sorted list, with linear interpolation.
Percentile(sorted, p) ==
    LET k == (Len(sorted) - 1) * p
        f == (k \div 100) + 1 IN
    IF sorted = <<>> THEN 0
    ELSE IF f = Len(sorted) THEN 100 * sorted[f]
    ELSE 100 * sorted[f] + (k % 100) * (sorted[f + 1] - sorted[f])

Sorted(is) ==
    CHOOSE q \in [1..Cardinality(is) -> Times(is)] :
        /\ \A i \in 1..Cardinality(is) - 1 : q[i] <= q[i + 1]
        /\ \A v \in Times(is) : Cardinality({i \in DOMAIN q : q[i] = v})
                                = Cardinality({i \in is : samples[i].elapsed = v})

\* _normalize_threads: a slave's count stands for its share of the load.
NormalizeThreads(raw) ==
    LET scaled == IF meta.perSlave <= 0 \/ raw <= meta.perSlave
                  THEN raw * meta.slaves ELSE raw IN
    IF meta.slaves <= 1 THEN raw
    ELSE IF meta.total > 0 /\ scaled > meta.total THEN meta.total ELSE scaled

\* Threads by the counts of the rows, or by the thread names seen: within a
\* group threads are named by number, as the group grows.
ActiveThreads(is, raw) ==
    LET names == {<<samples[i].label, samples[i].threads>> :
                     i \in {j \in is : samples[j].success # "none"}}
        threads == Max({Cardinality(names)} \cup
                       {NormalizeThreads(raw[i]) : i \in is}) IN
    IF meta.total > 0 /\ threads > meta.total THEN meta.total ELSE threads

\* allThreads counts one thread of another group, too.
AllThreads ==
    [i \in DOMAIN samples |->
        IF samples[i].threads > 0 THEN samples[i].threads + 1 ELSE 0]
GroupThreads ==
    [i \in DOMAIN samples |-> IF samples[i].threads > 0 THEN samples[i].threads ELSE 0]

\* What either curve says of the rows it put into one window.
Point(is, raw) ==
    [count |-> Cardinality(is), failed |-> Cardinality(Failed(is)),
     p95 |-> Percentile(Sorted(is), 95), p99 |-> Percentile(Sorted(is), 99),
     threads |-> ActiveThreads(is, raw)]

\* _parse_jtl_metrics: by window.
MetricCurve ==
    [b \in {BucketStart(samples[i]) : i \in MetricRows} |->
        Point({i \in MetricRows : BucketStart(samples[i]) = b}, AllThreads)]

\* _parse_jtl_transaction_metrics: by label and window.
TransactionCurve ==
    [k \in {<<samples[i].label, BucketStart(samples[i])>> : i \in TransactionRows} |->
        Point({i \in TransactionRows :
                  samples[i].label = k[1] /\ BucketStart(samples[i]) = k[2]},
              GroupThreads)]

-----------------------------------------------------------------------------
(* Properties *)

Total(f) == MapThenSumSet(LAMBDA x : f[x], DOMAIN f)

\* The rows of the transaction table add up to its Total row, which counts each
\* row of the file once; no share is more than the whole.
TransactionsAddUp ==
    LET stats == TransactionStats
        labels == DOMAIN stats IN
    /\ TotalStat.count = Total([l \in labels |-> stats[l].count])
    /\ TotalStat.failed = Total([l \in labels |-> stats[l].failed])
    /\ TotalStat.sum = Total([l \in labels |-> stats[l].sum])
    /\ labels # {} =>
         /\ TotalStat.max = Max({stats[l].max : l \in labels})
         /\ TotalStat.min = Min({stats[l].min : l \in labels})
    /\ Total([l \in labels |-> Ratio(stats[l])]) \in
         (IF labels = {} THEN {0} ELSE 100 - Cardinality(labels) .. 100)

\* The rows the metric curve leaves out though the transactions count them.
Damaged ==
    {i \in DOMAIN samples :
        /\ samples[i].at > 0
        /\ samples[i].success = "none" \/ samples[i].threads = Unreadable}

\* The two curves differ by the damaged rows and by nothing else: in each window
\* the transactions count what the metric curve counts and the damaged rows,
\* and fail what it fails and those damaged rows that did not succeed, as far
\* as they say; a window of damaged rows is missing from the metric curve.
CurvesAgree ==
    LET metric == MetricCurve
        curve == TransactionCurve
        windows == {k[2] : k \in DOMAIN curve} IN
    /\ DOMAIN metric \subseteq windows
    /\ \A b \in windows :
        LET keys == {k \in DOMAIN curve : k[2] = b}
            refused == {i \in Damaged : BucketStart(samples[i]) = b}
            shown == b \in DOMAIN metric IN
        /\ Total([k \in keys |-> curve[k].count])
             = (IF shown THEN metric[b].count ELSE 0) + Cardinality(refused)
        /\ Total([k \in keys |-> curve[k].failed])
             = (IF shown THEN metric[b].failed ELSE 0) + Cardinality(Failed(refused))

\* The curve of a transaction adds up to its row of the table, and percentiles
\* lie in order between the shortest and the longest time the table has: of the
\* transaction, and of Total for the metric curve.
CurvesFitTable ==
    LET metric == MetricCurve
        curve == TransactionCurve
        stats == TransactionStats
        Within(point, stat) ==
            /\ 100 * stat.min <= point.p95
            /\ point.p95 <= point.p99
            /\ point.p99 <= 100 * stat.max IN
    /\ \A l \in DOMAIN stats :
        LET keys == {k \in DOMAIN curve : k[1] = l} IN
        /\ stats[l].count = Total([k \in keys |-> curve[k].count])
        /\ stats[l].failed = Total([k \in keys |-> curve[k].failed])
    /\ \A k \in DOMAIN curve : k[1] \in DOMAIN stats /\ Within(curve[k], stats[k[1]])
    /\ \A b \in DOMAIN metric : Within(metric[b], TotalStat)

\* No point shows more threads than the run has.
ThreadsAsRun ==
    meta.total > 0 =>
        /\ \A b \in DOMAIN MetricCurve : MetricCurve[b].threads <= meta.total
        /\ \A k \in DOMAIN TransactionCurve : TransactionCurve[k].threads <= meta.total

\* The figures of one report, which three loops compute from one file, agree
\* with each other up to the damaged rows.
FiguresAgree == TransactionsAddUp /\ CurvesAgree /\ CurvesFitTable /\ ThreadsAsRun
=============================================================================
