------------------------------- MODULE RunLoad -------------------------------
(***************************************************************************)
(* How a run shares its load among slaves: the threads of each group       *)
(* (services/testcase.py 684-735 and 1016-1062,                            *)
(* core/jmeter_thread_groups.py update_run_thread), the figures written to *)
(* run_meta.json, and the rows of a split parameter file                   *)
(* (_split_csv_lines_for_slaves).  Every slave gets the same JMX.          *)
(***************************************************************************)
EXTENDS Naturals, Sequences, FiniteSets, FiniteSetsExt


CONSTANTS
    Group,      \* the thread groups of the JMX
    Threads,    \* numbers of threads asked for, or found in the JMX
    SlaveCount, \* numbers of slaves, 0 for a run on the master
    RowCount    \* numbers of lines of a parameter file

ASSUME RunLoadAssumption ==
    /\ IsFiniteSet(Group)
    /\ Threads \subseteq Nat \ {0} /\ SlaveCount \subseteq Nat /\ RowCount \subseteq Nat

VARIABLES
    asked,      \* the JMX and the parameters of the run
    load        \* the JMX of the run, and run_meta.json

loadVars == <<asked, load>>

\* What the run configuration says of a group: nothing, threads of its own (or
\* none given), as in the JMX; and whether it is enabled.
Override == [mode: {"none", "custom", "fixed"}, threads: Threads \cup {0}, enabled: BOOLEAN]
NoLoad == [run |-> [g \in Group |-> 0], perSlave |-> 0, total |-> 0,
           chunks |-> <<>>, ready |-> FALSE]

Ask == [threads: Threads, inJmx: [Group -> Threads], overrides: [Group -> Override],
        slaves: SlaveCount, lines: RowCount, header: BOOLEAN]

LoadTypeOK ==
    /\ asked \in Ask
    /\ load.run \in [Group -> Nat] /\ load.perSlave \in Nat /\ load.total \in Nat
    /\ load.chunks \in Seq(Seq(Nat))

\* Only a custom group has threads of its own.
Asked == {a \in Ask : \A g \in Group :
              a.overrides[g].mode # "custom" => a.overrides[g].threads = 0}

LoadInit == asked \in Asked /\ load = NoLoad

-----------------------------------------------------------------------------
(* Threads *)

\* Fault: the share is rounded down.
ShareRoundedDown(n) == IF asked.slaves > 1 THEN n \div asked.slaves ELSE n

\* math.ceil(n / slave_count), from two slaves on.
Share(n) == IF asked.slaves > 1 THEN (n + asked.slaves - 1) \div asked.slaves ELSE n

\* _resolve_thread_values on what _prepare_thread_group_overrides made; fixed
\* groups keep what the JMX says.
RunThreads(g) ==
    LET o == asked.overrides[g] IN
    CASE o.mode = "fixed" -> asked.inJmx[g]
      [] o.mode = "custom" /\ o.threads # 0 -> Share(o.threads)
      [] OTHER -> Share(asked.threads)

Enabled(g) == asked.overrides[g].enabled
RunJmx == [g \in Group |-> IF Enabled(g) THEN RunThreads(g) ELSE 0]

\* sum_enabled_thread_group_threads
SumEnabled(run) == MapThenSumSet(LAMBDA g : run[g], Group)

Slaves == IF asked.slaves = 0 THEN 1 ELSE asked.slaves

-----------------------------------------------------------------------------
(* Rows: a slice is the numbers of its lines, 1 being a first line kept *)

SplitCsvLines(count) ==
    LET first == IF asked.header /\ asked.lines > 1 THEN 1 ELSE 0
        rows == asked.lines - first
        rowsOf(i) == [k \in 1..((rows - i + count) \div count) |-> first + i + (k - 1) * count] IN
    [i \in 1..count |-> (IF first = 1 THEN <<1>> ELSE <<>>) \o rowsOf(i)]

PrepareLoad ==
    /\ ~load.ready
    /\ LET sum == SumEnabled(RunJmx) IN
       load' = [run |-> RunJmx,
                perSlave |-> IF sum > 0 THEN sum ELSE Share(asked.threads),
                total |-> IF sum > 0 THEN sum * Slaves ELSE asked.threads,
                chunks |-> IF asked.slaves = 0 THEN <<>> ELSE SplitCsvLines(asked.slaves),
                ready |-> TRUE]
    /\ UNCHANGED asked

LoadSpec == LoadInit /\ [][PrepareLoad]_loadVars

-----------------------------------------------------------------------------
(* Properties *)

\* All slaves together run what was asked for of each group, and less than one
\* thread per slave more; and run_meta.json gives the threads that really run.
LoadAsAsked ==
    load.ready =>
        /\ \A g \in Group :
            LET o == asked.overrides[g]
                want == IF o.mode = "custom" /\ o.threads # 0 THEN o.threads ELSE asked.threads IN
            Enabled(g) /\ o.mode # "fixed" =>
                /\ load.run[g] * Slaves >= want
                /\ load.run[g] * Slaves < want + Slaves
        /\ (\E g \in Group : Enabled(g)) =>
            load.total = SumEnabled([g \in Group |-> load.run[g] * Slaves])

\* Each row of a split file goes to one slave and the first line, when it is a
\* header, to every slave; no slave has two rows more than another.
RowsDealt ==
    load.ready /\ asked.slaves > 0 =>
        LET chunk == load.chunks
            holders(r) == {i \in DOMAIN chunk : \E k \in DOMAIN chunk[i] : chunk[i][k] = r} IN
        /\ Len(chunk) = asked.slaves
        /\ \A r \in 1..asked.lines :
            Cardinality(holders(r)) =
                IF r = 1 /\ asked.header /\ asked.lines > 1 THEN asked.slaves ELSE 1
        /\ \A i, j \in DOMAIN chunk : Len(chunk[i]) <= Len(chunk[j]) + 1

\* The slaves together get the load that was asked for, threads and data.
LoadShared == LoadAsAsked /\ RowsDealt
=============================================================================
