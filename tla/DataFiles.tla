----------------------------- MODULE DataFiles -----------------------------
(***************************************************************************)
(* Public data files (services/csv.py, services/upload_file.py): a row     *)
(* with a checksum and a file on the master's disk, the test case that     *)
(* binds them, and how a run (services/testcase.py, 422-661) and syncNode  *)
(* (474-511, 750-777, 1483-1508) bring them to the slaves.                 *)
(*                                                                         *)
(* A content is the number of the call that wrote it; while it is being    *)
(* written the file is torn.  A call reads its row, truncates the file,    *)
(* fills it and commits the row in four steps.  A copy to a slave takes    *)
(* what the disk holds when it is made.  A run reads its bindings once:    *)
(* the second read is in the same transaction.                             *)
(***************************************************************************)
EXTENDS Naturals, FiniteSets

CONSTANTS
    File,           \* names of public files
    Slave,          \* the slaves of the run, as 1..n
    Uploader,       \* API calls on public files
    MaxFileEdit,    \* bound on these calls, and on changes of bindings
    MaxFileFault    \* bound on failures

ASSUME DataFilesAssumption ==
    MaxFileEdit \in Nat /\ MaxFileFault \in Nat /\ Slave = 1..Cardinality(Slave)

VARIABLES
    resource,   \* the rows: which content the checksum is of
    disk,       \* the files on the master
    csvBound,   \* how the test case binds parameter files
    fileBound,  \* the upload files it binds
    uploader,   \* the calls under way
    carrier,    \* what brings files to slaves: a run, and syncNode
    copies,     \* the slaves' copies, at the master's path
    slices,     \* the slaves' slices, at the path of the run
    fileEdits, fileFaults

dataVars == <<resource, disk, csvBound, fileBound, uploader, carrier,
              copies, slices, fileEdits, fileFaults>>

Content == [version: 0..MaxFileEdit, whole: BOOLEAN]
NoFile == [version |-> 0, whole |-> FALSE]
Strategies == {"shared", "split_by_slave"}
Chunk == [version: 0..MaxFileEdit, whole: BOOLEAN, share: Slave \cup {0}]
NoChunk == [version |-> 0, whole |-> FALSE, share |-> 0]

NoUpload == [pc |-> "none"]
Upload == [pc: {"read", "writing", "written", "removing", "removed"},
           file: File, version: 0..MaxFileEdit, found: BOOLEAN]

\* A run copies what is shared, then cuts what is split; syncNode only copies.
Parked == [pc |-> "parked", to |-> {}, shared |-> {}, split |-> {}, left |-> {},
           todo |-> {}, cut |-> NoFile, disturbed |-> {}]

DataTypeOK ==
    /\ resource \in [File -> 0..MaxFileEdit]
    /\ disk \in [File -> Content]
    /\ csvBound \in [File -> Strategies \cup {"none"}]
    /\ fileBound \subseteq File
    /\ uploader \in [Uploader -> Upload \cup {NoUpload}]
    /\ carrier \in
         [{"run", "sync"} ->
            [pc: {"parked", "copying", "failing", "slicing", "sending", "ready", "failed"},
             to: SUBSET Slave, shared: SUBSET File, split: SUBSET File,
             left: SUBSET File, todo: SUBSET (Slave \X File),
             cut: Content, disturbed: SUBSET File]]
    /\ copies \in [Slave -> [File -> Content]]
    /\ slices \in [Slave -> [File -> Chunk]]
    /\ fileEdits \in 0..MaxFileEdit
    /\ fileFaults \in 0..MaxFileFault

Stored(f) == resource[f] # 0 /\ disk[f] # NoFile
OnFile(f) == {u \in Uploader : uploader[u].pc # "none" /\ uploader[u].file = f}

DataInit ==
    /\ resource = [f \in File |-> 0]
    /\ disk = [f \in File |-> NoFile]
    /\ csvBound = [f \in File |-> "none"]
    /\ fileBound = {}
    /\ uploader = [u \in Uploader |-> NoUpload]
    /\ carrier = [k \in {"run", "sync"} |-> Parked]
    /\ copies = [s \in Slave |-> [f \in File |-> NoFile]]
    /\ slices = [s \in Slave |-> [f \in File |-> NoChunk]]
    /\ fileEdits = 0
    /\ fileFaults = 0

carriers == <<carrier, copies, slices>>
bindings == <<csvBound, fileBound>>

\* The disk changes under whoever is carrying files.
Disturb(f) ==
    carrier' = [k \in DOMAIN carrier |->
        IF f \in carrier[k].shared
        THEN [carrier[k] EXCEPT !.disturbed = @ \cup {f}] ELSE carrier[k]]

-----------------------------------------------------------------------------
(* Public files *)

CallBegins(u, f, pc) ==
    /\ uploader[u] = NoUpload
    /\ fileEdits < MaxFileEdit
    /\ fileEdits' = fileEdits + 1
    /\ uploader' = [uploader EXCEPT ![u] =
           [pc |-> pc, file |-> f, version |-> fileEdits + 1, found |-> resource[f] # 0]]
    /\ UNCHANGED <<resource, disk, bindings, carriers, fileFaults>>

\* upload_public_csv: an existing row is overwritten once the user confirmed.
UploadPublicCsv(u, f) == CallBegins(u, f, "read")

UpdatePublicCsvContent(u, f) == resource[f] # 0 /\ CallBegins(u, f, "read")

\* delete_public_csv: bound files too, by force; the bindings stay.
DeletePublicCsv(u, f) == resource[f] # 0 /\ CallBegins(u, f, "removing")

OpenFile(u) ==
    LET f == uploader[u].file IN
    /\ uploader[u].pc = "read"
    /\ disk' = [disk EXCEPT ![f] = [version |-> uploader[u].version, whole |-> FALSE]]
    /\ uploader' = [uploader EXCEPT ![u].pc = "writing"]
    /\ Disturb(f)
    /\ UNCHANGED <<resource, bindings, copies, slices, fileEdits, fileFaults>>

FillFile(u) ==
    LET f == uploader[u].file IN
    /\ uploader[u].pc = "writing"
    /\ disk' = [disk EXCEPT ![f] = [version |-> uploader[u].version, whole |-> TRUE]]
    /\ uploader' = [uploader EXCEPT ![u].pc = "written"]
    /\ Disturb(f)
    /\ UNCHANGED <<resource, bindings, copies, slices, fileEdits, fileFaults>>

\* The row read before the write is updated, a new one inserted; a row that
\* came or went meanwhile makes the commit fail.
CommitFileRow(u) ==
    LET f == uploader[u].file IN
    /\ uploader[u].pc = "written"
    /\ resource' = [resource EXCEPT ![f] =
           IF uploader[u].found = (@ # 0) THEN uploader[u].version ELSE @]
    /\ uploader' = [uploader EXCEPT ![u] = NoUpload]
    /\ UNCHANGED <<disk, bindings, carriers, fileEdits, fileFaults>>

RemoveFile(u) ==
    LET f == uploader[u].file IN
    /\ uploader[u].pc = "removing"
    /\ disk' = [disk EXCEPT ![f] = NoFile]
    /\ uploader' = [uploader EXCEPT ![u].pc = "removed"]
    /\ Disturb(f)
    /\ UNCHANGED <<resource, bindings, copies, slices, fileEdits, fileFaults>>

DeleteFileRow(u) ==
    /\ uploader[u].pc = "removed"
    /\ resource' = [resource EXCEPT ![uploader[u].file] = 0]
    /\ uploader' = [uploader EXCEPT ![u] = NoUpload]
    /\ UNCHANGED <<disk, bindings, carriers, fileEdits, fileFaults>>

\* A full disk, a lost connection, a restart.
FileCallFails(u) ==
    /\ uploader[u].pc # "none"
    /\ fileFaults < MaxFileFault
    /\ fileFaults' = fileFaults + 1
    /\ uploader' = [uploader EXCEPT ![u] = NoUpload]
    /\ UNCHANGED <<resource, disk, bindings, carriers, fileEdits>>

-----------------------------------------------------------------------------
(* Bindings of the test case *)

BindingChanges ==
    /\ fileEdits < MaxFileEdit
    /\ fileEdits' = fileEdits + 1
    /\ UNCHANGED <<resource, disk, uploader, carriers, fileFaults>>

\* bind_public_csv and update_binding_strategy: one binding per file name.
BindPublicCsv(f) ==
    /\ resource[f] # 0 \/ csvBound[f] # "none"
    /\ \E strategy \in Strategies \ {csvBound[f]} :
        csvBound' = [csvBound EXCEPT ![f] = strategy]
    /\ fileBound' = fileBound
    /\ BindingChanges

BindPublicUploadFile(f) ==
    /\ Stored(f)
    /\ f \notin fileBound
    /\ fileBound' = fileBound \cup {f}
    /\ csvBound' = csvBound
    /\ BindingChanges

DeleteBinding(f) ==
    /\ \/ csvBound[f] # "none" /\ csvBound' = [csvBound EXCEPT ![f] = "none"]
          /\ fileBound' = fileBound
       \/ f \in fileBound /\ fileBound' = fileBound \ {f} /\ csvBound' = csvBound
    /\ BindingChanges

-----------------------------------------------------------------------------
(* A run brings its files to its slaves *)

BoundFiles == {f \in File : csvBound[f] # "none"} \cup fileBound
SplitFiles == {f \in File : csvBound[f] = "split_by_slave"}
SharedFiles == {f \in File : csvBound[f] = "shared"} \cup fileBound
Over == {"parked", "ready", "failed"}

Copying(slaves, files) ==
    [Parked EXCEPT !.pc = "copying", !.to = slaves, !.shared = files,
                   !.todo = slaves \X files]

RunGoes(next) ==
    /\ carrier' = [carrier EXCEPT !["run"] = next]
    /\ UNCHANGED <<resource, disk, bindings, uploader, fileEdits>>

\* _runtime_csv_refs, _runtime_upload_file_refs: every bound file is there.
RunReadsBindings ==
    /\ carrier["run"].pc \in Over
    /\ BoundFiles # {}
    /\ \A f \in BoundFiles : Stored(f)
    /\ RunGoes([Copying(Slave, SharedFiles) EXCEPT !.split = SplitFiles,
                                                   !.left = SplitFiles])
    /\ UNCHANGED <<copies, slices, fileFaults>>

\* scp_file of the next file to the next slave.
RunCopies(s, f) ==
    LET run == carrier["run"] IN
    /\ run.pc = "copying"
    /\ <<s, f>> \in run.todo
    /\ disk[f] # NoFile
    /\ copies' = [copies EXCEPT ![s][f] = disk[f]]
    /\ RunGoes([run EXCEPT !.todo = @ \ {<<s, f>>}])
    /\ UNCHANGED <<slices, fileFaults>>

\* _apply_runtime_file_refs looks for the files again and writes their paths
\* into the JMX of the run.
RunApplies ==
    LET run == carrier["run"] IN
    /\ run.pc = "copying"
    /\ run.todo = {}
    /\ \A f \in run.shared \cup run.split : disk[f] # NoFile
    /\ RunGoes([run EXCEPT !.pc = "slicing"])
    /\ UNCHANGED <<copies, slices, fileFaults>>

\* _prepare_split_csv_files reads a source once, for as many slices as slaves.
RunCuts(f) ==
    LET run == carrier["run"] IN
    /\ run.pc = "slicing"
    /\ f \in run.left
    /\ disk[f] # NoFile
    /\ RunGoes([run EXCEPT !.pc = "sending", !.cut = disk[f], !.left = @ \ {f},
                            !.todo = Slave \X {f}])
    /\ UNCHANGED <<copies, slices, fileFaults>>

\* Fault: the source is read again for every slave.
SliceOfDisk(s, f) == [version |-> disk[f].version, whole |-> disk[f].whole, share |-> s]

\* rows[i::slave_count] of what was read.
SliceOf(s, f) == [version |-> carrier["run"].cut.version,
                  whole |-> carrier["run"].cut.whole, share |-> s]

RunSends(s, f) ==
    LET run == carrier["run"] IN
    /\ run.pc = "sending"
    /\ <<s, f>> \in run.todo
    /\ slices' = [slices EXCEPT ![s][f] = SliceOf(s, f)]
    /\ RunGoes([run EXCEPT !.todo = @ \ {<<s, f>>},
                            !.pc = IF run.todo = {<<s, f>>} THEN "slicing" ELSE @])
    /\ UNCHANGED <<copies, fileFaults>>

RunReady ==
    /\ carrier["run"].pc = "slicing"
    /\ carrier["run"].left = {}
    /\ RunGoes([carrier["run"] EXCEPT !.pc = "ready", !.cut = NoFile])
    /\ UNCHANGED <<copies, slices, fileFaults>>

\* A slave cannot be reached, or a file is gone.
RunFilesFail ==
    LET run == carrier["run"] IN
    /\ run.pc \in {"copying", "slicing", "sending"}
    /\ \/ fileFaults < MaxFileFault /\ fileFaults' = fileFaults + 1
       \/ /\ run.pc # "sending"
          /\ \E f \in run.shared \cup run.split : disk[f] = NoFile
          /\ UNCHANGED fileFaults
    /\ RunGoes([Parked EXCEPT !.pc = "failed"])
    /\ UNCHANGED <<copies, slices>>

-----------------------------------------------------------------------------
(* syncNode: a disabled slave gets the shared files of every test case *)

SyncGoes(next) ==
    /\ carrier' = [carrier EXCEPT !["sync"] = next]
    /\ UNCHANGED <<resource, disk, bindings, uploader, slices, fileEdits>>

\* Missing files are left out; the slave is in no run now, but may be enabled
\* and taken by one before the copies are made.
SyncReadsBindings(s) ==
    LET files == {f \in SharedFiles : Stored(f)} IN
    /\ carrier["sync"].pc \in Over
    /\ carrier["run"].pc \in {"parked", "failed"}
    /\ files # {}
    /\ SyncGoes(Copying({s}, files))
    /\ UNCHANGED <<copies, fileFaults>>

\* Six copies at a time, in any order; a file that is gone or a copy that
\* fails is reported at the end.
SyncCopies(s, f) ==
    LET sync == carrier["sync"] IN
    /\ sync.pc \in {"copying", "failing"}
    /\ <<s, f>> \in sync.todo
    /\ \/ /\ disk[f] # NoFile
          /\ copies' = [copies EXCEPT ![s][f] = disk[f]]
          /\ SyncGoes([sync EXCEPT !.todo = @ \ {<<s, f>>}])
          /\ UNCHANGED fileFaults
       \/ /\ \/ disk[f] = NoFile /\ UNCHANGED fileFaults
             \/ fileFaults < MaxFileFault /\ fileFaults' = fileFaults + 1
          /\ SyncGoes([sync EXCEPT !.todo = @ \ {<<s, f>>}, !.pc = "failing"])
          /\ UNCHANGED copies

\* Fault: syncNode logs the copies that failed and reports success.
SyncEndsWell ==
    /\ carrier["sync"].pc \in {"copying", "failing"}
    /\ carrier["sync"].todo = {}
    /\ SyncGoes([carrier["sync"] EXCEPT !.pc = "ready"])
    /\ UNCHANGED <<copies, fileFaults>>

SyncEnds ==
    LET sync == carrier["sync"] IN
    /\ sync.pc \in {"copying", "failing"}
    /\ sync.todo = {}
    /\ SyncGoes(IF sync.pc = "copying" THEN [sync EXCEPT !.pc = "ready"]
                ELSE [Parked EXCEPT !.pc = "failed"])
    /\ UNCHANGED <<copies, fileFaults>>

DataNext ==
    \/ \E u \in Uploader :
        \/ \E f \in File :
            UploadPublicCsv(u, f) \/ UpdatePublicCsvContent(u, f) \/ DeletePublicCsv(u, f)
        \/ OpenFile(u) \/ FillFile(u) \/ CommitFileRow(u)
        \/ RemoveFile(u) \/ DeleteFileRow(u) \/ FileCallFails(u)
    \/ \E f \in File :
        \/ BindPublicCsv(f) \/ BindPublicUploadFile(f) \/ DeleteBinding(f) \/ RunCuts(f)
        \/ \E s \in Slave : RunCopies(s, f) \/ RunSends(s, f) \/ SyncCopies(s, f)
    \/ RunReadsBindings \/ RunApplies \/ RunReady \/ RunFilesFail
    \/ \E s \in Slave : SyncReadsBindings(s)
    \/ SyncEnds

DataSpec == DataInit /\ [][DataNext]_dataVars

-----------------------------------------------------------------------------
(* Properties *)

\* When a run is ready to start, or syncNode reports success, every slave has
\* every shared file as it is on the master, whatever was bound, copied and
\* refused meanwhile; only a file rewritten during the copies may differ.
FilesArrive ==
    \A k \in DOMAIN carrier :
        carrier[k].pc = "ready" =>
            \A s \in carrier[k].to, f \in carrier[k].shared \ carrier[k].disturbed :
                copies[s][f] = disk[f]

\* The slices the slaves of a run read from are cut from one reading of the
\* file, and no two slaves have the same one: even if the file is overwritten
\* between two of the copies.
SlicesPartition ==
    carrier["run"].pc = "ready" =>
        \A f \in carrier["run"].split, s, t \in Slave :
            /\ slices[s][f].version # 0
            /\ slices[s][f].version = slices[t][f].version
            /\ s # t => slices[s][f].share # slices[t][f].share
=============================================================================
