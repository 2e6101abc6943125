---------------------------- MODULE JmxDocument ----------------------------
(***************************************************************************)
(* The JMX document of a test case: its row, the rows of the form it was   *)
(* made from, the file and the debug copy (services/jmx.py), and the jars  *)
(* and bindings that need it (services/jar.py, csv.py, upload_file.py).    *)
(*                                                                         *)
(* A call checks what it needs and then takes its steps one by one, each   *)
(* a commit or a file operation; it may fail at each of them, and two      *)
(* calls may overlap.  A version is the number of the call that wrote it.  *)
(***************************************************************************)
EXTENDS Naturals, Sequences, FiniteSets

CONSTANTS
    Doc,            \* ids of JMX rows, as 1..n
    FileName,       \* names of JMX files
    GroupType,      \* types of thread group, each with a table of its own
    Writer,         \* concurrent API calls
    SwitchedOff,    \* the calls whose form switches a flag of its CSV files off
    MaxDocCall,     \* bound on calls
    MaxDocFault     \* bound on calls that fail half-way

\* The parts of an online document besides its thread group.
Part == {"sample", "assertion", "csv"}

\* Rows are numbered from 1; every part has a table of its own.
ASSUME DocAssumption ==
    /\ Doc \subseteq Nat \ {0} /\ 1 \in Doc
    /\ IsFiniteSet(GroupType) /\ GroupType \cap Part = {}
    /\ MaxDocCall \in Nat \ {0} /\ MaxDocFault \in Nat

VARIABLES
    docs,       \* JMX rows
    formRows,   \* rows of the sub-tables: document, part, version
    file,       \* the case's jmx directory: version by name, 0 if there is none
    debugCopy,  \* the debug_ files, likewise
    uses,       \* whether the case has a jar, or a binding of a public file
    writer,     \* the calls under way
    spoiled,    \* documents a call failed on, or two calls overlapped on
    kept,       \* documents whose last edit kept the type of thread group
    sourced,    \* documents whose file was last edited as source text
    docCalls, docFaults

docVars == <<docs, formRows, file, debugCopy, uses, writer, spoiled, kept, sourced,
             docCalls, docFaults>>

Versions == 0..MaxDocCall
NoFiles == [n \in FileName |-> 0]

NoDoc == [kind |-> "none"]
GoneDoc == [kind |-> "gone"]
UploadRow == [kind: {"upload"}, name: FileName, group: {"none"}]
OnlineRow == [kind: {"online"}, name: FileName, group: GroupType]
DocRow == UploadRow \cup OnlineRow

\* A row as the form is stored.  Two flags of a CSV file that is to be read with
\* its first line, or only once, are stored as `flag or 1`, which is 1: the row
\* says otherwise than the form and the file.
RowOf(d, part, version) ==
    [doc |-> d, part |-> part, version |-> version,
     given |-> part # "csv" \/ version \notin SwitchedOff]
FormRow == [doc: Doc, part: Part \cup GroupType, version: Versions, given: BOOLEAN]

\* A call: its document (0 while there is no row), what it was given, what is
\* left to do, and whether another call overlapped it.
NoWrite == [doc |-> 0, todo |-> <<>>]
Steps == {"row", "edit", "wipe", "write", "debug", "refresh", "remove", "use"}
Step == [do: Steps, part: {""}] \cup [do: {"delete", "insert"}, part: Part \cup GroupType]

DocTypeOK ==
    /\ docs \in [Doc -> DocRow \cup {NoDoc, GoneDoc}]
    /\ formRows \subseteq FormRow
    /\ file \in [FileName -> Versions] /\ debugCopy \in [FileName -> Versions]
    /\ uses \subseteq {"jar", "binding"}
    /\ \A w \in Writer :
        /\ writer[w].doc \in Doc \cup {0}
        /\ writer[w].todo \in Seq(Step)
        /\ writer[w].todo # <<>> =>
            /\ writer[w].row \in DocRow /\ writer[w].version \in Versions
            /\ writer[w].shared \in BOOLEAN
    /\ spoiled \subseteq Doc /\ kept \subseteq Doc /\ sourced \subseteq Doc
    /\ docCalls \in 0..MaxDocCall /\ docFaults \in 0..MaxDocFault

\* A case without a document, or with one that the first call made.
FormOf(d, group, version) ==
    {RowOf(d, part, version) : part \in Part \cup {group}}

DocInit ==
    /\ \/ docs = [d \in Doc |-> NoDoc] /\ file = NoFiles /\ formRows = {}
       \/ \E row \in DocRow :
            /\ docs = [d \in Doc |-> IF d = 1 THEN row ELSE NoDoc]
            /\ file = [NoFiles EXCEPT ![row.name] = 1]
            /\ formRows = IF row.kind = "online" THEN FormOf(1, row.group, 1) ELSE {}
    /\ debugCopy = file
    /\ uses = {}
    /\ writer = [w \in Writer |-> NoWrite]
    /\ spoiled = {} /\ kept = {}
    /\ sourced = {d \in Doc : docs[d] # NoDoc /\ docs[d].kind = "upload"}
    /\ docCalls = 1 /\ docFaults = 0

Live == {d \in Doc : docs[d] \notin {NoDoc, GoneDoc}}
Busy == {w \in Writer : writer[w].todo # <<>>}

-----------------------------------------------------------------------------
(* The calls: what each checks, and the steps it takes                      *)

Do(what) == [do |-> what, part |-> ""]
Delete(part) == [do |-> "delete", part |-> part]
Insert(part) == [do |-> "insert", part |-> part]

Begins(w, d, row, todo) ==
    /\ w \notin Busy
    /\ docCalls < MaxDocCall
    /\ docCalls' = docCalls + 1
    /\ writer' = [v \in Writer |->
           CASE v = w -> [doc |-> d, todo |-> todo, row |-> row, version |-> docCalls + 1,
                          shared |-> Busy # {}]
             [] v \in Busy -> [writer[v] EXCEPT !.shared = TRUE]
             [] OTHER -> NoWrite]
    /\ spoiled' = IF Busy = {} THEN spoiled ELSE spoiled \cup Live
    /\ UNCHANGED <<docs, formRows, file, debugCopy, uses, kept, sourced, docFaults>>

\* upload_jmx: the case has no JMX yet; the row, then the file and its copy.
UploadJmx(w) ==
    /\ Live = {}
    /\ \E row \in UploadRow :
        Begins(w, 0, row, <<Do("row"), Do("write"), Do("debug")>>)

\* add_online_jmx: the row, an empty directory, the form, the file.
FormSteps(group) ==
    <<Insert(group), Insert("sample"), Insert("assertion"), Insert("csv"),
      Do("write"), Do("debug")>>

AddOnlineJmx(w) ==
    /\ Live = {}
    /\ \E row \in OnlineRow :
        Begins(w, 0, row, <<Do("row"), Do("wipe")>> \o FormSteps(row.group))

\* Fault: the rows of one part are not deleted before the new ones come.
UpdateOnlineJmxKeepsCsv(w) ==
    \E d \in Live, row \in OnlineRow :
        /\ docs[d].kind = "online"
        /\ "jar" \notin uses
        /\ Begins(w, d, row,
               (IF row.group # docs[d].group THEN <<Delete(docs[d].group)>> ELSE <<>>)
               \o <<Delete("sample"), Delete("assertion"), Do("edit")>>
               \o FormSteps(row.group))

\* Fault: an uploaded document is taken for one made online.
UpdateAnyJmx(w) ==
    \E d \in Live, row \in OnlineRow :
        /\ "jar" \notin uses
        /\ Begins(w, d, row,
               (IF row.group # docs[d].group THEN <<Delete(docs[d].group)>> ELSE <<>>)
               \o <<Delete("sample"), Delete("assertion"), Delete("csv"), Do("edit")>>
               \o FormSteps(row.group))

\* update_online_jmx is refused while the case has a jar.  The thread group is
\* deleted when its type changes, the other parts always; a thread group whose
\* type stays gets another row beside the one it had.
UpdateOnlineJmx(w) ==
    \E d \in Live, row \in OnlineRow :
        /\ docs[d].kind = "online"
        /\ "jar" \notin uses
        /\ Begins(w, d, row,
               (IF row.group # docs[d].group THEN <<Delete(docs[d].group)>> ELSE <<>>)
               \o <<Delete("sample"), Delete("assertion"), Delete("csv"), Do("edit")>>
               \o FormSteps(row.group))

\* update_jmx_content writes the file as text, whatever its kind, and the debug
\* copy when there is one.
UpdateJmxContent(w) ==
    \E d \in Live :
        Begins(w, d, docs[d], <<Do("write"), Do("refresh")>>)

\* _cascade_delete_subtables: every table, each with a commit of its own.
CascadeDelete ==
    LET Groups == CHOOSE s \in [1..Cardinality(GroupType) -> GroupType] :
                      {s[i] : i \in DOMAIN s} = GroupType
    IN [i \in DOMAIN Groups |-> Delete(Groups[i])]
       \o <<Delete("sample"), Delete("assertion"), Delete("csv")>>

RemoveSteps == <<Do("remove"), Do("wipe")>>

\* delete_jmx is refused while the case has a jar or a binding.
DeleteJmx(w) ==
    \E d \in Live :
        /\ uses = {}
        /\ Begins(w, d, docs[d],
               (IF docs[d].kind = "online" THEN CascadeDelete ELSE <<>>) \o RemoveSteps)

ForceDeleteJmx(w) ==
    \E d \in Live : Begins(w, d, docs[d], CascadeDelete \o RemoveSteps)

\* upload_jar, bind_public_csv and bind_public_upload_file need a JMX.  A jar
\* also sets the class path in the file and in the debug copy, those that exist,
\* and leaves the rest of what they were made from.
AddUse(w) ==
    \E d \in Live : Begins(w, d, docs[d], <<Do("use")>>)

\* delete_jar and delete_binding.
DropUse(u) ==
    /\ uses' = uses \ {u}
    /\ uses' # uses
    /\ UNCHANGED <<docs, formRows, file, debugCopy, writer, spoiled, kept, sourced,
                   docCalls, docFaults>>

-----------------------------------------------------------------------------
(* The steps *)

Advance(w) ==
    LET c == writer[w] IN
    writer' = [writer EXCEPT ![w] = IF Len(c.todo) = 1 THEN NoWrite
                                    ELSE [c EXCEPT !.todo = Tail(c.todo)]]
Doing(w, what) == w \in Busy /\ Head(writer[w].todo).do = what

\* The new row; an overlapping call may have added another one meanwhile.
InsertJmx(w) ==
    /\ Doing(w, "row")
    /\ \E d \in Doc :
        /\ docs[d] = NoDoc
        /\ \A e \in Doc : docs[e] = NoDoc => d <= e
        /\ docs' = [docs EXCEPT ![d] = writer[w].row]
        /\ writer' = [writer EXCEPT ![w].doc = d, ![w].todo = Tail(writer[w].todo)]
        /\ spoiled' = IF writer[w].shared THEN spoiled \cup Live \cup {d} ELSE spoiled
    /\ UNCHANGED <<formRows, file, debugCopy, uses, kept, sourced, docCalls, docFaults>>

\* Updating a row that is gone raises StaleDataError and ends the call.
EditJmx(w) ==
    LET d == writer[w].doc IN
    /\ Doing(w, "edit")
    /\ IF d \in Live
       THEN /\ docs' = [docs EXCEPT ![d] = writer[w].row]
            /\ kept' = IF docs[d].group = writer[w].row.group THEN kept \cup {d}
                       ELSE kept \ {d}
            /\ Advance(w)
       ELSE writer' = [writer EXCEPT ![w] = NoWrite] /\ UNCHANGED <<docs, kept>>
    /\ UNCHANGED <<formRows, file, debugCopy, uses, spoiled, sourced, docCalls, docFaults>>

DeletePart(w) ==
    /\ Doing(w, "delete")
    /\ formRows' = {r \in formRows :
           r.doc # writer[w].doc \/ r.part # Head(writer[w].todo).part}
    /\ Advance(w)
    /\ UNCHANGED <<docs, file, debugCopy, uses, spoiled, kept, sourced, docCalls,
                   docFaults>>

InsertPart(w) ==
    /\ Doing(w, "insert")
    /\ formRows' = formRows \cup
           {RowOf(writer[w].doc, Head(writer[w].todo).part, writer[w].version)}
    /\ Advance(w)
    /\ UNCHANGED <<docs, file, debugCopy, uses, spoiled, kept, sourced, docCalls,
                   docFaults>>

RemoveJmx(w) ==
    /\ Doing(w, "remove")
    /\ docs' = [docs EXCEPT ![writer[w].doc] = GoneDoc]
    /\ Advance(w)
    /\ UNCHANGED <<formRows, file, debugCopy, uses, spoiled, kept, sourced, docCalls,
                   docFaults>>

\* The whole directory of the case.
WipeDirectory(w) ==
    /\ Doing(w, "wipe")
    /\ file' = NoFiles /\ debugCopy' = NoFiles
    /\ Advance(w)
    /\ UNCHANGED <<docs, formRows, uses, spoiled, kept, sourced, docCalls, docFaults>>

\* Only an edit as source text writes a file without inserting a form first.
WriteFile(w) ==
    LET d == writer[w].doc
        form == \E r \in formRows : r.doc = d /\ r.version = writer[w].version IN
    /\ Doing(w, "write")
    /\ file' = [file EXCEPT ![writer[w].row.name] = writer[w].version]
    /\ sourced' = IF form THEN sourced \ {d} ELSE sourced \cup {d}
    /\ Advance(w)
    /\ UNCHANGED <<docs, formRows, debugCopy, uses, spoiled, kept, docCalls, docFaults>>

\* The debug copy, its thread groups cut to one thread: of the upload, of the
\* file made from a form, or of the edited text when there is a copy already.
WriteDebugCopy(w) ==
    LET n == writer[w].row.name
        new == IF Doing(w, "debug") /\ writer[w].row.kind = "online" THEN file[n]
               ELSE writer[w].version
    IN
    /\ Doing(w, "debug") \/ Doing(w, "refresh")
    /\ debugCopy' = IF Doing(w, "refresh") /\ debugCopy[n] = 0 THEN debugCopy
                    ELSE [debugCopy EXCEPT ![n] = new]
    /\ Advance(w)
    /\ UNCHANGED <<docs, formRows, file, uses, spoiled, kept, sourced, docCalls,
                   docFaults>>

InsertUse(w) ==
    /\ Doing(w, "use")
    /\ \E u \in {"jar", "binding"} : uses' = uses \cup {u}
    /\ Advance(w)
    /\ UNCHANGED <<docs, formRows, file, debugCopy, spoiled, kept, sourced, docCalls,
                   docFaults>>

\* A database or file error: the steps taken stay, the others never happen.
DocCallFails(w) ==
    /\ w \in Busy
    /\ docFaults < MaxDocFault
    /\ docFaults' = docFaults + 1
    /\ writer' = [writer EXCEPT ![w] = NoWrite]
    /\ spoiled' = spoiled \cup ({writer[w].doc} \cap Doc)
    /\ UNCHANGED <<docs, formRows, file, debugCopy, uses, kept, sourced, docCalls>>

WriterStep(w) ==
    \/ InsertJmx(w) \/ EditJmx(w) \/ RemoveJmx(w)
    \/ DeletePart(w) \/ InsertPart(w)
    \/ WipeDirectory(w) \/ WriteFile(w) \/ WriteDebugCopy(w)
    \/ InsertUse(w)

DocNext ==
    \/ \E w \in Writer :
        \/ UploadJmx(w) \/ AddOnlineJmx(w)
        \/ UpdateOnlineJmx(w) \/ UpdateJmxContent(w)
        \/ DeleteJmx(w) \/ ForceDeleteJmx(w)
        \/ AddUse(w)
        \/ WriterStep(w)
        \/ DocCallFails(w)
    \/ \E u \in uses : DropUse(u)

DocSpec == DocInit /\ [][DocNext]_docVars

-----------------------------------------------------------------------------
(* Properties *)

RowsOfPart(d, part) == {r \in formRows : r.doc = d /\ r.part = part}

\* What get_by_jmx_id may return of the thread group: any one of its rows.
GroupsRead(d) == RowsOfPart(d, docs[d].group)

\* Between calls, an online document that no call failed on and no two calls
\* overlapped on reads back as one call gave it: of each part there is the one
\* row of that call, the thread group among them, and no thread group of
\* another type.  The file is of that call, unless it was edited as text since,
\* and the debug copy is of the file.  Two things the code does not read back:
\* the thread group is also what it was before, when the last edit kept its
\* type; and a CSV flag that the form switched off is stored as on.  A deletion
\* leaves no row of the form for the next document to meet.
DocumentReadsBack ==
    Busy = {} =>
        /\ {r.doc : r \in formRows} \subseteq Live \cup spoiled
        /\ \A d \in Live \ spoiled :
               LET n == docs[d].name
                   g == docs[d].group IN
               /\ file[n] # 0 /\ debugCopy[n] = file[n]
               /\ docs[d].kind = "online" =>
                   \E v \in Versions :
                       /\ \A part \in Part : RowsOfPart(d, part) = {RowOf(d, part, v)}
                       /\ RowOf(d, g, v) \in GroupsRead(d)
                       /\ d \notin kept => GroupsRead(d) = {RowOf(d, g, v)}
                       /\ \A h \in GroupType \ {g} : RowsOfPart(d, h) = {}
                       /\ d \notin sourced => v = file[n]
=============================================================================
