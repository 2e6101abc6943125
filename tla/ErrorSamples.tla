---------------------------- MODULE ErrorSamples ----------------------------
(***************************************************************************)
(* Which failed samples a report shows (services/report_error_samples.py). *)
(* A listener in every JMeter writes some of them to error_samples.jsonl   *)
(* (core/jmeter_error_samples.py), result collectors write XML files, and  *)
(* all of them are in the JTL file.  After a run the master appends the    *)
(* slaves' listener files to its own and fetches their XML files           *)
(* (jmeter_runner.py), and the three sources are merged.                   *)
(*                                                                         *)
(* A sample is its key - time, label, thread and code - and its type.  The *)
(* sources need not agree on either.                                       *)
(***************************************************************************)
EXTENDS Naturals, Sequences, FiniteSets, SequencesExt

CONSTANTS
    ErrorType,  \* response codes, failed assertions, exceptions
    ErrorKey,   \* what tells samples apart
    Failures,   \* failures, as the listener and as the other sources tell them
    RunSlaves,  \* numbers of slaves a run may have
    PerType,    \* limit per type
    InAll,      \* limit on the whole
    XmlScan,    \* errors read of the XML files
    JtlScan,    \* errors read of the JTL file
    MaxError    \* bound on the errors of a run

Error == [key: ErrorKey, type: ErrorType]

ASSUME ErrorSamplesAssumption ==
    /\ RunSlaves \subseteq Nat /\ Failures \subseteq [own: Error, row: Error]
    /\ \A n \in {PerType, InAll, XmlScan, JtlScan, MaxError} : n \in Nat \ {0}

VARIABLES
    slaves,     \* the slaves of the run: 1..slaves; 0 is the master
    listened,   \* error_samples.jsonl of each
    inXml,      \* error_samples.xml of each
    logged,     \* the failed rows of the JTL file
    fetched,    \* how far the master has come with its slaves
    present     \* whose XML files the master has

errorVars == <<slaves, listened, inXml, logged, fetched, present>>

ErrorTypeOK ==
    /\ slaves \in RunSlaves
    /\ listened \in [0..slaves -> Seq(Error)]
    /\ inXml \in [0..slaves -> Seq(Error)]
    /\ logged \in Seq(Error) /\ Len(logged) <= MaxError
    /\ fetched \in 0..slaves
    /\ present \subseteq 0..slaves

ErrorInit ==
    /\ slaves \in RunSlaves
    /\ listened = [m \in 0..slaves |-> <<>>]
    /\ inXml = [m \in 0..slaves |-> <<>>]
    /\ logged = <<>>
    /\ fetched = 0
    /\ present = {0}

\* With slaves, the master runs no threads.
Engines == IF slaves = 0 THEN {0} ELSE 1..slaves

RowsOfType(q, type) == {i \in DOMAIN q : q[i].type = type}

\* A listener counts in its own JMeter.  It may miss an error: its counts are
\* properties that outlive a run if the JMeter does.  A collector writes to the
\* file of the master or of the slave, to both or to none.
RecordError ==
    \E e \in Engines, f \in Failures, heard \in BOOLEAN :
        /\ fetched = 0 /\ Len(logged) < MaxError
        /\ heard => /\ Cardinality(RowsOfType(listened[e], f.own.type)) < PerType
                    /\ Len(listened[e]) < InAll
        /\ listened' = IF heard THEN [listened EXCEPT ![e] = Append(@, f.own)]
                       ELSE listened
        /\ \E files \in SUBSET {0, e} :
             inXml' = [m \in 0..slaves |->
                         IF m \in files THEN Append(inXml[m], f.row) ELSE inXml[m]]
        /\ logged' = Append(logged, f.row)
        /\ UNCHANGED <<slaves, fetched, present>>

\* _collect_remote_error_samples, one slave: what cannot be fetched is left out,
\* the XML file also if there are no rows; an exception ends the loop.
FetchErrors ==
    LET next == fetched + 1 IN
    /\ fetched < slaves
    /\ \E got, xml \in BOOLEAN, last \in {next, slaves} :
        /\ got => listened[next] # <<>>
        /\ xml => got
        /\ listened' = IF got THEN [listened EXCEPT ![0] = @ \o listened[next]]
                       ELSE listened
        /\ present' = IF xml THEN present \cup {next} ELSE present
        /\ fetched' = last
        /\ UNCHANGED <<slaves, inXml, logged>>

ErrorNext == RecordError \/ FetchErrors

ErrorSpec == ErrorInit /\ [][ErrorNext]_errorVars

-----------------------------------------------------------------------------
(* _collect_error_samples: the samples by which a report counts its errors; it *)
(* lists as many of them as it is asked for, from the newest on.               *)

OfType(had, type) == {s \in had : s.type = type}
KeysOf(had) == {s.key : s \in had}
Prefix(s, n) == SubSeq(s, 1, IF Len(s) < n THEN Len(s) ELSE n)

\* The listeners' rows, each key once, and no limit.
Heard ==
    LET rows == listened[0]
        first == {i \in DOMAIN rows : \A j \in 1..i - 1 : rows[j].key # rows[i].key} IN
    {rows[i] : i \in first}

\* Fault: duplicates are not looked for.
AppendIfRoom(had, s, limit) ==
    IF \/ Cardinality(OfType(had, s.type)) >= PerType
       \/ Cardinality(had) >= limit
    THEN had ELSE had \cup {s}

\* _append_sample_if_allowed, with the limit asked for.
AppendIfAllowed(had, s, limit) ==
    IF \/ Cardinality(OfType(had, s.type)) >= PerType
       \/ Cardinality(had) >= limit
       \/ s.key \in KeysOf(had)
    THEN had ELSE had \cup {s}

\* A file that reaches its limit ends the reading of the files after it.
XmlErrors ==
    LET read[m \in 0..slaves + 1] ==
            LET here == IF m \in present THEN inXml[m] ELSE <<>> IN
            IF m > slaves THEN <<>>
            ELSE Prefix(here, XmlScan) \o
                    (IF Len(here) >= XmlScan THEN <<>> ELSE read[m + 1])
    IN read[0]

JtlErrors == Prefix(logged, JtlScan)

CollectErrorSamples(limit, includeJtl) ==
    LET target == IF limit < InAll THEN limit ELSE InAll
        merge(had, s) == AppendIfAllowed(had, s, target)
        withXml == FoldLeft(merge, Heard, XmlErrors) IN
    IF includeJtl THEN FoldLeft(merge, withXml, JtlErrors) ELSE withXml

-----------------------------------------------------------------------------
(* Properties *)

\* No key is shown twice, whichever sources have it.  The limits are those of
\* each JMeter: a type takes up to a share for each slave, and past one share it
\* has what the listeners wrote and nothing else; so does the whole.  And while
\* there is room, each error that is read of the JTL file is shown under its key
\* or its type has its share, whatever was not heard, not fetched or not read.
TypesRepresented ==
    LET shown == CollectErrorSamples(InAll, TRUE)
        heard == Heard
        shares == IF slaves = 0 THEN 1 ELSE slaves IN
    /\ \A s, t \in shown : s.key = t.key => s = t
    /\ \A type \in ErrorType :
        LET count == Cardinality(OfType(shown, type)) IN
        /\ count <= PerType * shares
        /\ count > PerType => OfType(shown, type) \subseteq heard
    /\ Cardinality(shown) <= InAll * shares
    /\ Cardinality(shown) > InAll => shown = heard
    /\ Cardinality(shown) < InAll =>
        \A i \in 1..Len(JtlErrors) :
            \/ logged[i].key \in KeysOf(shown)
            \/ Cardinality(OfType(shown, logged[i].type)) >= PerType
=============================================================================
