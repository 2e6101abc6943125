------------------------------ MODULE MCContent ------------------------------
(***************************************************************************)
(* What goes into a run and what comes out of it, for TLC: JMX documents,  *)
(* data files and the load of a run; the snapshots of a report, its        *)
(* figures and its error samples.  The modules share no state: a behaviour *)
(* of the sum lets the one `part` move that was chosen at the start.       *)
(***************************************************************************)
EXTENDS ReportSnapshots, JmxDocument, DataFiles, ReportMath, ErrorSamples, RunLoad

VARIABLE part

Parts == {"snapshots", "documents", "files", "math", "errors", "load"}

\* Each kind of snapshot by itself: they share the JTL file and nothing else.
MCFollowed == {{k} : k \in Kind}

\* A run on the master, one on two slaves that write_run_meta describes, and a
\* run of before the number of threads was recorded.
MCMeta == {[slaves |-> 1, perSlave |-> 0, total |-> 0],
           [slaves |-> 2, perSlave |-> 2, total |-> 3],
           [slaves |-> 2, perSlave |-> 0, total |-> 0]}

\* Three keys and two types; one failure is told the same, one with two types
\* and one with two keys.
MCFailures ==
    LET sample(k, t) == [key |-> k, type |-> t] IN
    {[own |-> sample(1, "500"), row |-> sample(1, "500")],
     [own |-> sample(1, "timeout"), row |-> sample(1, "500")],
     [own |-> sample(2, "500"), row |-> sample(3, "timeout")]}

AnyLoad == CHOOSE a \in Asked : TRUE

\* Only the metric curve looks at the time windows of the rows: for the other
\* kinds of snapshot all rows are in one.
RowsInWindows == "metric" \in kinds \/ jtl.rows \in Seq({CHOOSE b \in Bucket : TRUE})

\* File names are interchangeable: the first document has this one.
FirstName == CHOOSE n \in FileName : TRUE

Init ==
    /\ part \in Parts
    /\ ReportInit
    /\ part # "snapshots" => kinds = {"metric"}
    /\ DocInit
    /\ part # "documents" => docs = [d \in Doc |-> NoDoc]
    /\ \A n \in FileName \ {FirstName} : file[n] = 0
    /\ DataInit
    /\ MathInit
    /\ part # "math" => meta.slaves = 1
    /\ ErrorInit
    /\ part # "errors" => slaves = 0
    /\ LoadInit
    /\ part # "load" => asked = AnyLoad

Next ==
    \/ /\ part = "snapshots" /\ ReportNext /\ RowsInWindows'
       /\ UNCHANGED <<part, docVars, dataVars, mathVars, errorVars, loadVars>>
    \/ /\ part = "documents" /\ DocNext
       /\ UNCHANGED <<part, reportVars, dataVars, mathVars, errorVars, loadVars>>
    \/ /\ part = "files" /\ DataNext
       /\ UNCHANGED <<part, reportVars, docVars, mathVars, errorVars, loadVars>>
    \/ /\ part = "math" /\ WriteRow
       /\ UNCHANGED <<part, reportVars, docVars, dataVars, errorVars, loadVars>>
    \/ /\ part = "errors" /\ ErrorNext
       /\ UNCHANGED <<part, reportVars, docVars, dataVars, mathVars, loadVars>>
    \/ /\ part = "load" /\ PrepareLoad
       /\ UNCHANGED <<part, reportVars, docVars, dataVars, mathVars, errorVars>>

vars == <<part, reportVars, docVars, dataVars, mathVars, errorVars, loadVars>>

\* The tracker and the runner are tasks of the event loop.
FairSpec ==
    /\ Init /\ [][Next]_vars
    /\ WF_reportVars(part = "snapshots" /\ TrackerStep)
    /\ WF_reportVars(part = "snapshots" /\ RunnerStep)

TypeOK ==
    /\ part \in Parts
    /\ ReportTypeOK
    /\ DocTypeOK
    /\ DataTypeOK
    /\ MathTypeOK
    /\ ErrorTypeOK
    /\ LoadTypeOK
=============================================================================
