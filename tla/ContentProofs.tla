--------------------------- MODULE ContentProofs ---------------------------
(***************************************************************************)
(* What goes into a run and what comes out of it, for any files, slaves,   *)
(* rows and interleavings of calls: the files of a run arrive as they are  *)
(* on the master and are cut once; the slaves share the load that was      *)
(* asked for; the snapshots of a report are complete in the end, and gone  *)
(* when the report is; no error that was read goes unshown but for a full  *)
(* list, and no type takes more than its share of each listener; and the   *)
(* figures of a report agree where the rows they are computed from do.     *)
(***************************************************************************)
EXTENDS MCContent, DocumentProofs, WellFoundedInduction, TLAPS

-----------------------------------------------------------------------------
(* Data files *)

CarrierPC == {"parked", "copying", "failing", "slicing", "sending", "ready", "failed"}
CarrierType ==
    [pc: CarrierPC, to: SUBSET Slave, shared: SUBSET File, split: SUBSET File,
     left: SUBSET File, todo: SUBSET (Slave \X File), cut: Content,
     disturbed: SUBSET File]

\* What was written has the number of the call that wrote it.
VersionInv ==
    /\ \A f \in File : disk[f] # NoFile => disk[f].version # 0
    /\ \A u \in Uploader : uploader[u].pc # "none" => uploader[u].version # 0

\* A copy that was made and whose source was left alone is the source.
Brought(k) ==
    LET c == carrier[k] IN
    \A s \in c.to, f \in c.shared \ c.disturbed :
        /\ c.pc = "copying" => <<s, f>> \in c.todo \/ copies[s][f] = disk[f]
        /\ c.pc \in {"slicing", "sending", "ready"} => copies[s][f] = disk[f]

Partitioned(f) ==
    \A s \in Slave :
        /\ slices[s][f].version # 0
        /\ slices[s][f].share = s
        /\ \A t \in Slave : slices[s][f].version = slices[t][f].version

Sent(f) ==
    \A s \in Slave : <<s, f>> \in carrier["run"].todo \/ slices[s][f] = SliceOf(s, f)

\* A file that was cut is dealt out, or its slices of the one cut are under way.
SlicesInv ==
    LET run == carrier["run"] IN
    /\ run.pc = "copying" => run.left = run.split
    /\ run.pc = "ready" => run.left = {}
    /\ run.pc = "sending" => run.cut.version # 0
    /\ \A f \in run.split \ run.left :
        /\ run.pc \in {"slicing", "ready"} => Partitioned(f)
        /\ run.pc = "sending" =>
            \/ Sent(f)
            \/ Partitioned(f) /\ \A s \in Slave : <<s, f>> \notin run.todo

DataInv ==
    /\ DataTypeOK /\ VersionInv
    /\ \A k \in {"run", "sync"} : Brought(k)
    /\ SlicesInv

LEMMA CarrierTyped == DataTypeOK => carrier \in [{"run", "sync"} -> CarrierType]
  BY DEF DataTypeOK, CarrierType, CarrierPC

LEMMA DataInitInv == DataInit => DataInv
<1> SUFFICES ASSUME DataInit PROVE DataInv
  OBVIOUS
<1>1. NoFile \in Content /\ NoChunk \in Chunk /\ fileEdits \in 0..MaxFileEdit
      /\ fileFaults \in 0..MaxFileFault /\ 0 \in 0..MaxFileEdit
  BY DataFilesAssumption DEF DataInit, NoFile, NoChunk, Content, Chunk
<1>2. Parked \in CarrierType
  BY <1>1 DEF Parked, CarrierType, CarrierPC
<1>3. carrier \in [{"run", "sync"} -> CarrierType]
  BY <1>2 DEF DataInit
<1>4. DataTypeOK
  BY <1>1, <1>3 DEF DataInit, DataTypeOK, CarrierType, CarrierPC
<1>5. VersionInv /\ SlicesInv /\ \A k \in {"run", "sync"} : Brought(k)
  BY DEF DataInit, VersionInv, SlicesInv, Brought, Parked, NoUpload
<1> QED
  BY <1>4, <1>5 DEF DataInv

\* Calls on rows and bindings leave the disk and the carriers alone.
LEMMA RowCallsKeep ==
  ASSUME DataInv, DataTypeOK', VersionInv', UNCHANGED <<disk, carriers>>
  PROVE  DataInv'
<1>1. ASSUME NEW k \in {"run", "sync"} PROVE Brought(k)'
  <2>1. Brought(k)
    BY DEF DataInv
  <2> QED
    BY <2>1 DEF Brought, carriers
<1>2. SlicesInv'
  BY DEF DataInv, SlicesInv, Partitioned, Sent, SliceOf, carriers
<1> QED
  BY <1>1, <1>2 DEF DataInv

\* A call changes one file on the disk: it is disturbed for whoever carries it.
LEMMA DiskCallsKeep ==
  ASSUME DataInv, NEW f \in File, NEW c \in Content, c # NoFile => c.version # 0,
         disk' = [disk EXCEPT ![f] = c], Disturb(f),
         uploader' \in [Uploader -> Upload \cup {NoUpload}],
         \A u \in Uploader : uploader'[u].pc # "none" => uploader'[u].version # 0,
         UNCHANGED <<resource, bindings, copies, slices, fileEdits, fileFaults>>
  PROVE  DataInv'
<1>1. /\ disk' \in [File -> Content] /\ disk'[f] = c
      /\ \A g \in File \ {f} : disk'[g] = disk[g]
  BY DEF DataInv, DataTypeOK
<1>2. carrier \in [{"run", "sync"} -> CarrierType]
  BY CarrierTyped DEF DataInv
<1>3. ASSUME NEW k \in {"run", "sync"}
      PROVE  /\ carrier'[k] \in CarrierType
             /\ carrier'[k].pc = carrier[k].pc /\ carrier'[k].to = carrier[k].to
             /\ carrier'[k].shared = carrier[k].shared /\ carrier'[k].todo = carrier[k].todo
             /\ carrier'[k].split = carrier[k].split /\ carrier'[k].left = carrier[k].left
             /\ carrier'[k].cut = carrier[k].cut
             /\ carrier[k].disturbed \subseteq carrier'[k].disturbed
             /\ f \in carrier[k].shared => f \in carrier'[k].disturbed
  <2>1. carrier'[k] = IF f \in carrier[k].shared
                      THEN [carrier[k] EXCEPT !.disturbed = @ \cup {f}] ELSE carrier[k]
    BY <1>2 DEF Disturb
  <2>2. carrier[k] \in CarrierType
    BY <1>2
  <2> QED
    BY <2>1, <2>2 DEF CarrierType
<1>4. carrier' \in [{"run", "sync"} -> CarrierType]
  <2>1. carrier' = [k \in {"run", "sync"} |-> carrier'[k]]
    BY <1>2 DEF Disturb
  <2> QED
    BY <1>3, <2>1
<1>5. DataTypeOK'
  BY <1>1, <1>4 DEF DataInv, DataTypeOK, CarrierType, CarrierPC, bindings
<1>6. VersionInv'
  BY <1>1 DEF DataInv, VersionInv
<1>7. ASSUME NEW k \in {"run", "sync"} PROVE Brought(k)'
  <2>1. carrier[k] \in CarrierType
    BY <1>2
  <2>2. \A g \in carrier'[k].shared \ carrier'[k].disturbed :
            disk'[g] = disk[g] /\ g \notin carrier[k].disturbed /\ g \in carrier[k].shared
    BY <1>1, <1>3, <2>1 DEF CarrierType
  <2>3. /\ carrier'[k].pc = carrier[k].pc /\ carrier'[k].to = carrier[k].to
        /\ carrier'[k].todo = carrier[k].todo /\ copies' = copies
    BY <1>3
  <2>4. Brought(k)
    BY DEF DataInv
  <2>5. ASSUME NEW s \in carrier'[k].to, NEW g \in carrier'[k].shared \ carrier'[k].disturbed
        PROVE  /\ carrier'[k].pc = "copying" =>
                    <<s, g>> \in carrier'[k].todo \/ copies'[s][g] = disk'[g]
               /\ carrier'[k].pc \in {"slicing", "sending", "ready"} =>
                    copies'[s][g] = disk'[g]
    BY <2>2, <2>3, <2>4 DEF Brought
  <2> QED
    BY <2>5 DEF Brought
<1>8. SlicesInv'
  BY <1>3 DEF DataInv, SlicesInv, Partitioned, Sent, SliceOf
<1> QED
  BY <1>5, <1>6, <1>7, <1>8 DEF DataInv

\* The calls on public files.
LEMMA FileCallsKeep ==
  ASSUME DataInv, NEW u \in Uploader,
         \/ \E f \in File : UploadPublicCsv(u, f) \/ UpdatePublicCsvContent(u, f)
                            \/ DeletePublicCsv(u, f)
         \/ OpenFile(u) \/ FillFile(u) \/ CommitFileRow(u)
         \/ RemoveFile(u) \/ DeleteFileRow(u) \/ FileCallFails(u)
  PROVE  DataInv'
<1> DEFINE UType == Upload \cup {NoUpload}
<1>0. /\ uploader \in [Uploader -> UType] /\ NoUpload \in UType /\ NoUpload.pc = "none"
      /\ \A v \in Uploader : uploader[v].pc # "none" =>
            /\ uploader[v] \in Upload /\ uploader[v].file \in File
            /\ uploader[v].version \in 0..MaxFileEdit /\ uploader[v].version # 0
  BY DEF DataInv, DataTypeOK, VersionInv, Upload, NoUpload
<1>1. ASSUME NEW f \in File, NEW pc \in {"read", "removing"}, CallBegins(u, f, pc)
      PROVE  DataInv'
  <2> DEFINE new == [pc |-> pc, file |-> f, version |-> fileEdits + 1,
                     found |-> resource[f] # 0]
  <2>1. /\ fileEdits + 1 \in 0..MaxFileEdit /\ fileEdits + 1 # 0
        /\ fileEdits' = fileEdits + 1
    BY <1>1, DataFilesAssumption DEF CallBegins, DataInv, DataTypeOK
  <2>2. new \in Upload /\ new.version # 0
    BY <2>1 DEF Upload
  <2>3. uploader' = [uploader EXCEPT ![u] = new]
    BY <1>1 DEF CallBegins
  <2> HIDE DEF new
  <2>4. uploader' \in [Uploader -> UType] /\ uploader'[u] = new
        /\ \A v \in Uploader \ {u} : uploader'[v] = uploader[v]
    BY <1>0, <2>2, <2>3
  <2>5. DataTypeOK'
    BY <1>1, <2>1, <2>4 DEF CallBegins, DataInv, DataTypeOK, bindings, carriers
  <2>6. VersionInv'
    BY <1>0, <1>1, <2>2, <2>4 DEF CallBegins, DataInv, VersionInv
  <2> QED
    BY <1>1, <2>5, <2>6, RowCallsKeep DEF CallBegins
<1>2. CASE \E f \in File : UploadPublicCsv(u, f) \/ UpdatePublicCsvContent(u, f)
                           \/ DeletePublicCsv(u, f)
  BY <1>1, <1>2 DEF UploadPublicCsv, UpdatePublicCsvContent, DeletePublicCsv
<1>3. ASSUME uploader' = [uploader EXCEPT ![u] = NoUpload]
      PROVE  uploader' \in [Uploader -> UType]
             /\ \A v \in Uploader : uploader'[v].pc # "none" =>
                    uploader'[v].version # 0
  BY <1>0, <1>3
<1>4. ASSUME NEW pc \in {"read", "writing", "written", "removing", "removed"},
             uploader[u].pc # "none",
             uploader' = [uploader EXCEPT ![u].pc = pc]
      PROVE  uploader' \in [Uploader -> UType]
             /\ \A v \in Uploader : uploader'[v].pc # "none" =>
                    uploader'[v].version # 0
  <2>1. uploader[u] \in Upload
    BY <1>0, <1>4
  <2>2. [uploader[u] EXCEPT !.pc = pc] \in Upload
        /\ [uploader[u] EXCEPT !.pc = pc].version = uploader[u].version
    BY <2>1 DEF Upload
  <2> QED
    BY <1>0, <1>4, <2>2
<1>5. ASSUME NEW whole \in BOOLEAN, uploader[u].pc # "none"
      PROVE  LET c == [version |-> uploader[u].version, whole |-> whole] IN
             c \in Content /\ (c # NoFile => c.version # 0)
  BY <1>0, <1>5 DEF Content, NoFile
<1>6. CASE OpenFile(u)
  BY <1>0, <1>4, <1>5, <1>6, DiskCallsKeep DEF OpenFile
<1>7. CASE FillFile(u)
  BY <1>0, <1>4, <1>5, <1>7, DiskCallsKeep DEF FillFile
<1>8. CASE RemoveFile(u)
  <2>1. NoFile \in Content
    BY DataFilesAssumption DEF NoFile, Content
  <2> QED
    BY <1>0, <1>4, <1>8, <2>1, DiskCallsKeep DEF RemoveFile
<1>9. CASE CommitFileRow(u)
  <2>1. resource' \in [File -> 0..MaxFileEdit]
    BY <1>0, <1>9 DEF CommitFileRow, DataInv, DataTypeOK
  <2>2. DataTypeOK' /\ VersionInv'
    BY <1>3, <1>9, <2>1
       DEF CommitFileRow, DataInv, DataTypeOK, VersionInv, bindings, carriers
  <2> QED
    BY <1>9, <2>2, RowCallsKeep DEF CommitFileRow
<1>10. CASE DeleteFileRow(u)
  <2>1. resource' \in [File -> 0..MaxFileEdit]
    <3>1. 0 \in 0..MaxFileEdit /\ resource \in [File -> 0..MaxFileEdit]
      BY DataFilesAssumption DEF DataInv, DataTypeOK
    <3> QED
      BY <1>10, <3>1 DEF DeleteFileRow
  <2>2. DataTypeOK' /\ VersionInv'
    BY <1>3, <1>10, <2>1
       DEF DeleteFileRow, DataInv, DataTypeOK, VersionInv, bindings, carriers
  <2> QED
    BY <1>10, <2>2, RowCallsKeep DEF DeleteFileRow
<1>11. CASE FileCallFails(u)
  <2>1. fileFaults' \in 0..MaxFileFault
    BY <1>11, DataFilesAssumption DEF FileCallFails, DataInv, DataTypeOK
  <2>2. DataTypeOK' /\ VersionInv'
    BY <1>3, <1>11, <2>1
       DEF FileCallFails, DataInv, DataTypeOK, VersionInv, bindings, carriers
  <2> QED
    BY <1>11, <2>2, RowCallsKeep DEF FileCallFails
<1> QED
  BY <1>2, <1>6, <1>7, <1>8, <1>9, <1>10, <1>11

\* The calls on bindings.
LEMMA BindingsKeep ==
  ASSUME DataInv, NEW f \in File,
         BindPublicCsv(f) \/ BindPublicUploadFile(f) \/ DeleteBinding(f)
  PROVE  DataInv'
<1>1. fileEdits' \in 0..MaxFileEdit /\ BindingChanges
  BY DataFilesAssumption
     DEF BindPublicCsv, BindPublicUploadFile, DeleteBinding, BindingChanges, DataInv,
         DataTypeOK
<1>2. csvBound' \in [File -> Strategies \cup {"none"}] /\ fileBound' \subseteq File
  BY DEF BindPublicCsv, BindPublicUploadFile, DeleteBinding, DataInv, DataTypeOK
<1>3. DataTypeOK' /\ VersionInv'
  BY <1>1, <1>2 DEF BindingChanges, DataInv, DataTypeOK, VersionInv, carriers
<1> QED
  BY <1>1, <1>3, RowCallsKeep DEF BindingChanges

\* A carrier moves on; the disk stays as it is.
LEMMA CarrierMoves ==
  ASSUME DataInv, NEW k \in {"run", "sync"}, NEW next \in CarrierType,
         carrier' = [carrier EXCEPT ![k] = next],
         copies' \in [Slave -> [File -> Content]],
         \A s \in Slave, f \in File : copies'[s][f] \in {copies[s][f], disk[f]},
         slices' \in [Slave -> [File -> Chunk]], fileFaults' \in 0..MaxFileFault,
         UNCHANGED <<resource, disk, bindings, uploader, fileEdits>>
  PROVE  /\ DataTypeOK' /\ VersionInv'
         /\ carrier'[k] = next
         /\ \A o \in {"run", "sync"} \ {k} : carrier'[o] = carrier[o] /\ Brought(o)'
<1>1. carrier \in [{"run", "sync"} -> CarrierType]
  BY CarrierTyped DEF DataInv
<1>2. /\ carrier' \in [{"run", "sync"} -> CarrierType] /\ carrier'[k] = next
      /\ \A o \in {"run", "sync"} \ {k} : carrier'[o] = carrier[o]
  BY <1>1
<1>3. DataTypeOK'
  BY <1>2 DEF DataInv, DataTypeOK, CarrierType, CarrierPC, bindings
<1>4. VersionInv'
  BY DEF DataInv, VersionInv
<1>5. ASSUME NEW o \in {"run", "sync"} \ {k} PROVE Brought(o)'
  <2>1. Brought(o) /\ carrier'[o] = carrier[o] /\ carrier[o] \in CarrierType
    BY <1>1, <1>2 DEF DataInv
  <2>2. \A s \in carrier[o].to, f \in carrier[o].shared :
            copies'[s][f] \in {copies[s][f], disk[f]} /\ disk'[f] = disk[f]
    BY <2>1 DEF CarrierType
  <2>3. ASSUME NEW s \in carrier'[o].to, NEW f \in carrier'[o].shared \ carrier'[o].disturbed
        PROVE  /\ carrier'[o].pc = "copying" =>
                    <<s, f>> \in carrier'[o].todo \/ copies'[s][f] = disk'[f]
               /\ carrier'[o].pc \in {"slicing", "sending", "ready"} =>
                    copies'[s][f] = disk'[f]
    BY <2>1, <2>2 DEF Brought
  <2> QED
    BY <2>3 DEF Brought
<1> QED
  BY <1>2, <1>3, <1>4, <1>5

\* A copy that is made leaves the source at the slave, and nothing else changes.
LEMMA CopyMade ==
  ASSUME DataInv, NEW s \in Slave, NEW f \in File,
         copies' = [copies EXCEPT ![s][f] = disk[f]]
  PROVE  /\ copies' \in [Slave -> [File -> Content]]
         /\ copies'[s][f] = disk[f]
         /\ \A t \in Slave, g \in File : copies'[t][g] \in {copies[t][g], disk[g]}
<1>1. disk[f] \in Content /\ copies \in [Slave -> [File -> Content]]
  BY DEF DataInv, DataTypeOK
<1>2. [copies[s] EXCEPT ![f] = disk[f]] \in [File -> Content]
  BY <1>1
<1>3. /\ copies' = [copies EXCEPT ![s] = [copies[s] EXCEPT ![f] = disk[f]]]
      /\ copies' \in [Slave -> [File -> Content]]
  BY <1>1, <1>2
<1>4. /\ \A t \in Slave \ {s} : copies'[t] = copies[t]
      /\ copies'[s] = [copies[s] EXCEPT ![f] = disk[f]]
  BY <1>1, <1>3
<1>5. /\ copies'[s][f] = disk[f]
      /\ \A g \in File \ {f} : copies'[s][g] = copies[s][g]
  BY <1>1, <1>4
<1> QED
  BY <1>3, <1>4, <1>5

\* The run.
LEMMA RunKeeps ==
  ASSUME DataInv,
         \/ RunReadsBindings \/ RunApplies \/ RunReady \/ RunFilesFail
         \/ \E f \in File : RunCuts(f)
         \/ \E f \in File, s \in Slave : RunCopies(s, f) \/ RunSends(s, f)
  PROVE  DataInv'
<1> DEFINE run == carrier["run"]
<1>0. /\ carrier \in [{"run", "sync"} -> CarrierType] /\ run \in CarrierType
      /\ fileFaults \in 0..MaxFileFault /\ NoFile \in Content
      /\ copies \in [Slave -> [File -> Content]] /\ slices \in [Slave -> [File -> Chunk]]
      /\ disk \in [File -> Content] /\ Brought("run") /\ SlicesInv
  <2>1. carrier \in [{"run", "sync"} -> CarrierType]
    BY CarrierTyped DEF DataInv
  <2>2. NoFile \in Content
    BY DataFilesAssumption DEF NoFile, Content
  <2> QED
    BY <2>1, <2>2 DEF DataInv, DataTypeOK
<1>1. ASSUME NEW next \in CarrierType, RunGoes(next),
             copies' \in [Slave -> [File -> Content]],
             \A s \in Slave, f \in File : copies'[s][f] \in {copies[s][f], disk[f]},
             slices' \in [Slave -> [File -> Chunk]], fileFaults' \in 0..MaxFileFault
      PROVE  /\ DataTypeOK' /\ VersionInv' /\ carrier'["run"] = next /\ disk' = disk
             /\ Brought("run")' /\ SlicesInv' => DataInv'
  BY <1>1, CarrierMoves DEF RunGoes, DataInv
<1>2. CASE RunReadsBindings
  <2> DEFINE next == [Copying(Slave, SharedFiles) EXCEPT !.split = SplitFiles,
                                                         !.left = SplitFiles]
  <2>1. SharedFiles \subseteq File /\ SplitFiles \subseteq File
    BY DEF SharedFiles, SplitFiles, DataInv, DataTypeOK
  <2>2. /\ next \in CarrierType /\ next.pc = "copying" /\ next.left = next.split
        /\ next.to = Slave /\ next.shared = SharedFiles
        /\ next.todo = Slave \X SharedFiles
    BY <1>0, <2>1 DEF Copying, Parked, CarrierType, CarrierPC
  <2>3. RunGoes(next) /\ UNCHANGED <<copies, slices, fileFaults>>
    BY <1>2 DEF RunReadsBindings
  <2> HIDE DEF next
  <2>4. /\ DataTypeOK' /\ VersionInv' /\ carrier'["run"] = next
        /\ Brought("run")' /\ SlicesInv' => DataInv'
    BY <1>0, <1>1, <2>2, <2>3
  <2>5. Brought("run")'
    BY <2>2, <2>4 DEF Brought
  <2>6. SlicesInv'
    BY <2>2, <2>4 DEF SlicesInv
  <2> QED
    BY <2>4, <2>5, <2>6
<1>3. ASSUME NEW f \in File, NEW s \in Slave, RunCopies(s, f)
      PROVE  DataInv'
  <2> DEFINE next == [run EXCEPT !.todo = @ \ {<<s, f>>}]
  <2>1. /\ next \in CarrierType /\ next.pc = "copying" /\ run.pc = "copying"
        /\ next.left = run.left /\ next.split = run.split
        /\ next.to = run.to /\ next.shared = run.shared
        /\ next.todo = run.todo \ {<<s, f>>} /\ next.disturbed = run.disturbed
    BY <1>0, <1>3 DEF RunCopies, CarrierType
  <2>2. RunGoes(next) /\ UNCHANGED <<slices, fileFaults>>
        /\ copies' = [copies EXCEPT ![s][f] = disk[f]]
    BY <1>3 DEF RunCopies
  <2> HIDE DEF next
  <2>3. /\ copies' \in [Slave -> [File -> Content]] /\ copies'[s][f] = disk[f]
        /\ \A t \in Slave, g \in File : copies'[t][g] \in {copies[t][g], disk[g]}
    BY <2>2, CopyMade
  <2>4. /\ DataTypeOK' /\ VersionInv' /\ carrier'["run"] = next /\ disk' = disk
        /\ Brought("run")' /\ SlicesInv' => DataInv'
    BY <1>0, <1>1, <2>1, <2>2, <2>3
  <2>5. ASSUME NEW t \in run.to, NEW g \in run.shared \ run.disturbed
        PROVE  <<t, g>> \in next.todo \/ copies'[t][g] = disk[g]
    <3>1. t \in Slave /\ g \in File
      BY <1>0 DEF CarrierType
    <3>2. <<t, g>> \in run.todo \/ copies[t][g] = disk[g]
      BY <1>0, <2>1 DEF Brought
    <3> QED
      BY <2>1, <2>3, <3>1, <3>2
  <2>6. Brought("run")'
    BY <2>1, <2>4, <2>5 DEF Brought
  <2>7. SlicesInv'
    BY <1>0, <2>1, <2>4 DEF SlicesInv
  <2> QED
    BY <2>4, <2>6, <2>7
<1>4. CASE RunApplies
  <2> DEFINE next == [run EXCEPT !.pc = "slicing"]
  <2>1. /\ next \in CarrierType /\ next.pc = "slicing" /\ run.pc = "copying"
        /\ next.left = run.left /\ next.split = run.split
        /\ next.to = run.to /\ next.shared = run.shared
        /\ run.todo = {} /\ next.disturbed = run.disturbed
    BY <1>0, <1>4 DEF RunApplies, CarrierType, CarrierPC
  <2>2. RunGoes(next) /\ UNCHANGED <<copies, slices, fileFaults>>
    BY <1>4 DEF RunApplies
  <2> HIDE DEF next
  <2>3. /\ DataTypeOK' /\ VersionInv' /\ carrier'["run"] = next /\ disk' = disk
        /\ Brought("run")' /\ SlicesInv' => DataInv'
    BY <1>0, <1>1, <2>1, <2>2
  <2>4. Brought("run")'
    BY <1>0, <2>1, <2>2, <2>3, ZenonT(40) DEF Brought
  <2>5. SlicesInv'
    BY <1>0, <2>1, <2>3 DEF SlicesInv
  <2> QED
    BY <2>3, <2>4, <2>5
<1>5. ASSUME NEW f \in File, RunCuts(f)
      PROVE  DataInv'
  <2> DEFINE next == [run EXCEPT !.pc = "sending", !.cut = disk[f], !.left = @ \ {f},
                                 !.todo = Slave \X {f}]
  <2>1. /\ next \in CarrierType /\ next.pc = "sending" /\ run.pc = "slicing"
        /\ next.left = run.left \ {f} /\ next.split = run.split
        /\ next.to = run.to /\ next.shared = run.shared /\ next.cut = disk[f]
        /\ next.todo = Slave \X {f} /\ next.disturbed = run.disturbed
    BY <1>0, <1>5 DEF RunCuts, CarrierType, CarrierPC
  <2>2. RunGoes(next) /\ UNCHANGED <<copies, slices, fileFaults>> /\ disk[f].version # 0
    BY <1>5 DEF RunCuts, DataInv, VersionInv
  <2> HIDE DEF next
  <2>3. /\ DataTypeOK' /\ VersionInv' /\ carrier'["run"] = next /\ disk' = disk
        /\ Brought("run")' /\ SlicesInv' => DataInv'
    BY <1>0, <1>1, <2>1, <2>2
  <2>4. Brought("run")'
    <3>1. ASSUME NEW s \in next.to, NEW g \in next.shared \ next.disturbed
          PROVE  copies'[s][g] = disk'[g]
      BY <1>0, <2>1, <2>2, <2>3 DEF Brought
    <3> QED
      BY <2>1, <2>3, <3>1 DEF Brought
  <2>5. ASSUME NEW g \in run.split \ next.left
        PROVE  Sent(g)' \/ (Partitioned(g)' /\ \A s \in Slave : <<s, g>> \notin next.todo)
    <3>1. CASE g = f
      <4>1. \A s \in Slave : <<s, g>> \in carrier'["run"].todo
        BY <2>1, <2>3, <3>1
      <4> QED
        BY <4>1 DEF Sent
    <3>2. CASE g # f
      <4>1. Partitioned(g)
        BY <1>0, <2>1, <3>2 DEF SlicesInv
      <4>2. Partitioned(g)'
        BY <2>2, <4>1 DEF Partitioned
      <4> QED
        BY <2>1, <3>2, <4>2
    <3> QED
      BY <3>1, <3>2
  <2>6. SlicesInv'
    BY <2>1, <2>2, <2>3, <2>5 DEF SlicesInv
  <2> QED
    BY <2>3, <2>4, <2>6
<1>6. ASSUME NEW f \in File, NEW s \in Slave, RunSends(s, f)
      PROVE  DataInv'
  <2> DEFINE next == [run EXCEPT !.todo = @ \ {<<s, f>>},
                         !.pc = IF run.todo = {<<s, f>>} THEN "slicing" ELSE @]
  <2>1. /\ next \in CarrierType /\ run.pc = "sending" /\ <<s, f>> \in run.todo
        /\ next.pc = IF run.todo = {<<s, f>>} THEN "slicing" ELSE "sending"
        /\ next.left = run.left /\ next.split = run.split
        /\ next.to = run.to /\ next.shared = run.shared /\ next.cut = run.cut
        /\ next.todo = run.todo \ {<<s, f>>} /\ next.disturbed = run.disturbed
    BY <1>0, <1>6 DEF RunSends, CarrierType, CarrierPC
  <2>2. RunGoes(next) /\ UNCHANGED <<copies, fileFaults>>
        /\ slices' = [slices EXCEPT ![s][f] = SliceOf(s, f)]
    BY <1>6 DEF RunSends
  <2> HIDE DEF next
  <2>3. run.cut \in Content
    BY <1>0 DEF CarrierType
  <2>4. SliceOf(s, f) \in Chunk
    BY <2>3 DEF SliceOf, Chunk, Content
  <2>5. /\ slices' \in [Slave -> [File -> Chunk]] /\ slices'[s][f] = SliceOf(s, f)
        /\ \A t \in Slave, g \in File :
               <<t, g>> # <<s, f>> => slices'[t][g] = slices[t][g]
    <3>1. [slices[s] EXCEPT ![f] = SliceOf(s, f)] \in [File -> Chunk]
      BY <1>0, <2>4
    <3>2. /\ slices' = [slices EXCEPT ![s] = [slices[s] EXCEPT ![f] = SliceOf(s, f)]]
          /\ slices' \in [Slave -> [File -> Chunk]]
      BY <1>0, <2>2, <3>1
    <3>3. /\ \A t \in Slave \ {s} : slices'[t] = slices[t]
          /\ slices'[s] = [slices[s] EXCEPT ![f] = SliceOf(s, f)]
      BY <1>0, <3>2
    <3>4. /\ slices'[s][f] = SliceOf(s, f)
          /\ \A g \in File \ {f} : slices'[s][g] = slices[s][g]
      BY <1>0, <3>3
    <3> QED
      BY <3>2, <3>3, <3>4
  <2>6. /\ DataTypeOK' /\ VersionInv' /\ carrier'["run"] = next /\ disk' = disk
        /\ Brought("run")' /\ SlicesInv' => DataInv'
    BY <1>0, <1>1, <2>1, <2>2, <2>5
  <2>7. Brought("run")'
    BY <1>0, <2>1, <2>2, <2>6, ZenonT(40) DEF Brought
  <2>8. run.cut.version # 0
    BY <1>0, <2>1 DEF SlicesInv
  <2>9. ASSUME NEW g \in run.split \ run.left
        PROVE  /\ Sent(g)' \/ (Partitioned(g)' /\ \A t \in Slave : <<t, g>> \notin next.todo)
               /\ next.todo = {} => Partitioned(g)'
    <3>0. g \in File
      BY <1>0 DEF CarrierType
    <3>1. CASE Sent(g)
      <4>1. ASSUME NEW t \in Slave
            PROVE  <<t, g>> \in next.todo
                   \/ slices'[t][g] = [version |-> run.cut.version,
                                       whole |-> run.cut.whole, share |-> t]
        <5>1. <<t, g>> \in run.todo
              \/ slices[t][g] = [version |-> run.cut.version,
                                 whole |-> run.cut.whole, share |-> t]
          BY <3>1 DEF Sent, SliceOf
        <5>2. <<t, g>> = <<s, f>> =>
                 slices'[t][g] = [version |-> run.cut.version,
                                  whole |-> run.cut.whole, share |-> t]
          BY <2>5 DEF SliceOf
        <5> QED
          BY <2>1, <2>5, <3>0, <5>1, <5>2
      <4>2. Sent(g)'
        BY <2>1, <2>6, <4>1 DEF Sent, SliceOf
      <4>3. next.todo = {} => Partitioned(g)'
        <5>1. ASSUME next.todo = {}, NEW t \in Slave
              PROVE  /\ slices'[t][g].version = run.cut.version
                     /\ slices'[t][g].share = t
          <6>1. slices'[t][g] = [version |-> run.cut.version,
                                 whole |-> run.cut.whole, share |-> t]
            BY <4>1, <5>1
          <6> QED
            BY <6>1
        <5> QED
          BY <2>8, <5>1 DEF Partitioned
      <4> QED
        BY <4>2, <4>3
    <3>2. CASE ~Sent(g)
      <4>1. Partitioned(g) /\ \A t \in Slave : <<t, g>> \notin run.todo
        BY <1>0, <2>1, <3>2 DEF SlicesInv
      <4>2. \A t \in Slave : slices'[t][g] = slices[t][g]
        BY <2>1, <2>5, <3>0, <4>1
      <4>3. Partitioned(g)'
        BY <4>1, <4>2 DEF Partitioned
      <4> QED
        BY <2>1, <4>1, <4>3
    <3> QED
      BY <3>1, <3>2
  <2>10. SlicesInv'
    BY <2>1, <2>6, <2>8, <2>9 DEF SlicesInv
  <2> QED
    BY <2>6, <2>7, <2>10
<1>7. CASE RunReady
  <2> DEFINE next == [run EXCEPT !.pc = "ready", !.cut = NoFile]
  <2>1. /\ next \in CarrierType /\ next.pc = "ready" /\ run.pc = "slicing"
        /\ run.left = {} /\ next.left = run.left /\ next.split = run.split
        /\ next.to = run.to /\ next.shared = run.shared
        /\ next.disturbed = run.disturbed
    BY <1>0, <1>7 DEF RunReady, CarrierType, CarrierPC
  <2>2. RunGoes(next) /\ UNCHANGED <<copies, slices, fileFaults>>
    BY <1>7 DEF RunReady
  <2> HIDE DEF next
  <2>3. /\ DataTypeOK' /\ VersionInv' /\ carrier'["run"] = next /\ disk' = disk
        /\ Brought("run")' /\ SlicesInv' => DataInv'
    BY <1>0, <1>1, <2>1, <2>2
  <2>4. Brought("run")'
    BY <1>0, <2>1, <2>2, <2>3, ZenonT(40) DEF Brought
  <2>5. SlicesInv'
    BY <1>0, <2>1, <2>2, <2>3 DEF SlicesInv, Partitioned
  <2> QED
    BY <2>3, <2>4, <2>5
<1>8. CASE RunFilesFail
  <2> DEFINE next == [Parked EXCEPT !.pc = "failed"]
  <2>1. next \in CarrierType /\ next.pc = "failed" /\ next.to = {} /\ next.split = {}
    BY <1>0 DEF Parked, CarrierType, CarrierPC
  <2>2. RunGoes(next) /\ UNCHANGED <<copies, slices>> /\ fileFaults' \in 0..MaxFileFault
    BY <1>0, <1>8, DataFilesAssumption DEF RunFilesFail
  <2> HIDE DEF next
  <2>3. /\ DataTypeOK' /\ VersionInv' /\ carrier'["run"] = next
        /\ Brought("run")' /\ SlicesInv' => DataInv'
    BY <1>0, <1>1, <2>1, <2>2
  <2>4. Brought("run")' /\ SlicesInv'
    BY <2>1, <2>3 DEF Brought, SlicesInv
  <2> QED
    BY <2>3, <2>4
<1> QED
  BY <1>2, <1>3, <1>4, <1>5, <1>6, <1>7, <1>8

\* syncNode.
LEMMA SyncKeeps ==
  ASSUME DataInv,
         \/ SyncEnds \/ \E s \in Slave : SyncReadsBindings(s)
         \/ \E f \in File, s \in Slave : SyncCopies(s, f)
  PROVE  DataInv'
<1> DEFINE sync == carrier["sync"]
<1>0. /\ carrier \in [{"run", "sync"} -> CarrierType] /\ sync \in CarrierType
      /\ fileFaults \in 0..MaxFileFault /\ NoFile \in Content
      /\ copies \in [Slave -> [File -> Content]] /\ slices \in [Slave -> [File -> Chunk]]
      /\ disk \in [File -> Content] /\ Brought("sync") /\ SlicesInv
  <2>1. carrier \in [{"run", "sync"} -> CarrierType]
    BY CarrierTyped DEF DataInv
  <2>2. NoFile \in Content
    BY DataFilesAssumption DEF NoFile, Content
  <2> QED
    BY <2>1, <2>2 DEF DataInv, DataTypeOK
<1>1. ASSUME NEW next \in CarrierType, SyncGoes(next),
             copies' \in [Slave -> [File -> Content]],
             \A s \in Slave, f \in File : copies'[s][f] \in {copies[s][f], disk[f]},
             fileFaults' \in 0..MaxFileFault
      PROVE  /\ carrier'["sync"] = next /\ disk' = disk
             /\ Brought("sync")' => DataInv'
  <2>1. /\ DataTypeOK' /\ VersionInv' /\ carrier'["sync"] = next /\ disk' = disk
        /\ Brought("run")' /\ carrier'["run"] = carrier["run"] /\ slices' = slices
    BY <1>0, <1>1, CarrierMoves DEF SyncGoes
  <2>2. SlicesInv'
    BY <1>0, <2>1 DEF SlicesInv, Partitioned, Sent, SliceOf
  <2> QED
    BY <2>1, <2>2 DEF DataInv
<1>2. ASSUME NEW s \in Slave, SyncReadsBindings(s)
      PROVE  DataInv'
  <2> DEFINE files == {f \in SharedFiles : Stored(f)}
             next == Copying({s}, files)
  <2>1. files \subseteq File
    BY DEF SharedFiles, DataInv, DataTypeOK
  <2>2. SyncGoes(next) /\ UNCHANGED <<copies, fileFaults>>
    BY <1>2 DEF SyncReadsBindings
  <2> HIDE DEF files
  <2>3. /\ next \in CarrierType /\ next.pc = "copying" /\ next.to = {s}
        /\ next.shared = files /\ next.todo = {s} \X files
    BY <1>0, <2>1 DEF Copying, Parked, CarrierType, CarrierPC
  <2> HIDE DEF next
  <2>4. carrier'["sync"] = next /\ (Brought("sync")' => DataInv')
    BY <1>0, <1>1, <2>2, <2>3
  <2>5. Brought("sync")'
    BY <2>3, <2>4 DEF Brought
  <2> QED
    BY <2>4, <2>5
<1>3. ASSUME NEW f \in File, NEW s \in Slave, SyncCopies(s, f)
      PROVE  DataInv'
  <2>1. CASE /\ copies' = [copies EXCEPT ![s][f] = disk[f]]
             /\ SyncGoes([sync EXCEPT !.todo = @ \ {<<s, f>>}])
             /\ UNCHANGED fileFaults
    <3> DEFINE next == [sync EXCEPT !.todo = @ \ {<<s, f>>}]
    <3>1. /\ next \in CarrierType /\ next.pc = sync.pc
          /\ sync.pc \in {"copying", "failing"}
          /\ next.to = sync.to /\ next.shared = sync.shared
          /\ next.todo = sync.todo \ {<<s, f>>} /\ next.disturbed = sync.disturbed
      BY <1>0, <1>3 DEF SyncCopies, CarrierType
    <3>2. SyncGoes(next)
      BY <2>1
    <3> HIDE DEF next
    <3>3. /\ copies' \in [Slave -> [File -> Content]] /\ copies'[s][f] = disk[f]
          /\ \A t \in Slave, g \in File : copies'[t][g] \in {copies[t][g], disk[g]}
      BY <2>1, CopyMade
    <3>4. carrier'["sync"] = next /\ disk' = disk /\ (Brought("sync")' => DataInv')
      BY <1>0, <1>1, <2>1, <3>1, <3>2, <3>3
    <3>5. ASSUME NEW t \in sync.to, NEW g \in sync.shared \ sync.disturbed, sync.pc = "copying"
          PROVE  <<t, g>> \in next.todo \/ copies'[t][g] = disk[g]
      <4>1. t \in Slave /\ g \in File
        BY <1>0 DEF CarrierType
      <4>2. <<t, g>> \in sync.todo \/ copies[t][g] = disk[g]
        BY <1>0, <3>5 DEF Brought
      <4> QED
        BY <3>1, <3>3, <4>1, <4>2
    <3>6. Brought("sync")'
      BY <3>1, <3>4, <3>5 DEF Brought
    <3> QED
      BY <3>4, <3>6
  <2>2. CASE /\ fileFaults' \in 0..MaxFileFault
             /\ SyncGoes([sync EXCEPT !.todo = @ \ {<<s, f>>}, !.pc = "failing"])
             /\ UNCHANGED copies
    <3> DEFINE next == [sync EXCEPT !.todo = @ \ {<<s, f>>}, !.pc = "failing"]
    <3>1. next \in CarrierType /\ next.pc = "failing"
      BY <1>0 DEF CarrierType, CarrierPC
    <3>2. SyncGoes(next)
      BY <2>2
    <3> HIDE DEF next
    <3>3. carrier'["sync"] = next /\ (Brought("sync")' => DataInv')
      BY <1>0, <1>1, <2>2, <3>1, <3>2
    <3> QED
      BY <3>1, <3>3 DEF Brought
  <2>3. fileFaults < MaxFileFault /\ fileFaults' = fileFaults + 1
        => fileFaults' \in 0..MaxFileFault
    BY <1>0, DataFilesAssumption
  <2> QED
    BY <1>0, <1>3, <2>1, <2>2, <2>3 DEF SyncCopies
<1>4. CASE SyncEnds
  <2>1. CASE sync.pc = "copying"
    <3> DEFINE next == [sync EXCEPT !.pc = "ready"]
    <3>1. /\ next \in CarrierType /\ next.pc = "ready" /\ sync.todo = {}
          /\ next.to = sync.to /\ next.shared = sync.shared
          /\ next.disturbed = sync.disturbed
      BY <1>0, <1>4 DEF SyncEnds, CarrierType, CarrierPC
    <3>2. SyncGoes(next) /\ UNCHANGED <<copies, fileFaults>>
      BY <1>4, <2>1 DEF SyncEnds
    <3> HIDE DEF next
    <3>3. carrier'["sync"] = next /\ disk' = disk /\ (Brought("sync")' => DataInv')
      BY <1>0, <1>1, <3>1, <3>2
    <3> QED
      BY <1>0, <2>1, <3>1, <3>2, <3>3 DEF Brought
  <2>2. CASE sync.pc # "copying"
    <3> DEFINE next == [Parked EXCEPT !.pc = "failed"]
    <3>1. next \in CarrierType /\ next.to = {}
      BY <1>0 DEF Parked, CarrierType, CarrierPC
    <3>2. SyncGoes(next) /\ UNCHANGED <<copies, fileFaults>>
      BY <1>4, <2>2 DEF SyncEnds
    <3> HIDE DEF next
    <3>3. carrier'["sync"] = next /\ (Brought("sync")' => DataInv')
      BY <1>0, <1>1, <3>1, <3>2
    <3> QED
      BY <3>1, <3>3 DEF Brought
  <2> QED
    BY <2>1, <2>2
<1> QED
  BY <1>2, <1>3, <1>4

LEMMA DataStep == DataInv /\ [DataNext]_dataVars => DataInv'
<1> SUFFICES ASSUME DataInv, [DataNext]_dataVars PROVE DataInv'
  OBVIOUS
<1>1. CASE DataNext
  BY <1>1, FileCallsKeep, BindingsKeep, RunKeeps, SyncKeeps DEF DataNext
<1>2. CASE UNCHANGED dataVars
  <2>1. DataTypeOK' /\ VersionInv' /\ UNCHANGED <<disk, carriers>>
    BY <1>2 DEF dataVars, carriers, DataInv, DataTypeOK, VersionInv
  <2> QED
    BY <2>1, RowCallsKeep
<1> QED
  BY <1>1, <1>2

\* When a run is ready, or syncNode reports success, every slave has every
\* shared file as it is on the master, unless the file was rewritten meanwhile:
\* a copy that failed, or was made by the other carrier, never goes unnoticed.
THEOREM SharedFilesArrive == DataSpec => []FilesArrive
<1>1. DataInv => FilesArrive
  <2> SUFFICES ASSUME DataInv, NEW k \in {"run", "sync"}, carrier[k].pc = "ready",
                      NEW s \in carrier[k].to,
                      NEW f \in carrier[k].shared \ carrier[k].disturbed
               PROVE  copies[s][f] = disk[f]
    BY CarrierTyped DEF DataInv, FilesArrive
  <2>1. Brought(k)
    BY DEF DataInv
  <2> QED
    BY <2>1 DEF Brought
<1> QED
  BY <1>1, DataInitInv, DataStep, PTL DEF DataSpec

\* The slices of a run are cut from one reading of each file, one for each
\* slave, whatever calls rewrite the file while they are sent.
THEOREM SlicesArePartitions == DataSpec => []SlicesPartition
<1>1. DataInv => SlicesPartition
  BY CarrierTyped DEF DataInv, SlicesInv, Partitioned, SlicesPartition
<1> QED
  BY <1>1, DataInitInv, DataStep, PTL DEF DataSpec

-----------------------------------------------------------------------------
(* A largest bucket: induction by a least counterexample                     *)

LEMMA Least ==
  ASSUME NEW T, T \subseteq Nat, T # {}
  PROVE  \E n \in T : \A m \in T : n <= m
<1> DEFINE R == OpToRel(<, Nat)
<1>1. IsWellFoundedOn(R, Nat)
  BY NatLessThanWellFounded
<1>2. R = {p \in Nat \X Nat : p[1] < p[2]}
  BY DEF OpToRel
<1> HIDE DEF R
<1>3. \E x \in T : \A y \in T : ~(<<y, x>> \in R)
  BY <1>1, WFMin, Zenon
<1>4. \A x \in T, y \in T : ~(<<y, x>> \in R) => x <= y
  BY <1>2
<1> QED
  BY <1>3, <1>4

\* A set that has 0 and, with each number, the next one, has all of them.
LEMMA Induction ==
  ASSUME NEW S, S \subseteq Nat, 0 \in S, \A n \in S : n + 1 \in S
  PROVE  S = Nat
<1> SUFFICES ASSUME Nat \ S # {} PROVE FALSE
  OBVIOUS
<1>1. PICK n \in Nat \ S : \A m \in Nat \ S : n <= m
  <2> DEFINE T == Nat \ S
  <2>1. T \subseteq Nat /\ T # {}
    OBVIOUS
  <2> HIDE DEF T
  <2>2. \E n \in T : \A m \in T : n <= m
    BY <2>1, Least
  <2> QED
    BY <2>2 DEF T
<1>2. n \in Nat /\ n # 0
  BY <1>1
<1>3. n - 1 \in Nat /\ ~(n <= n - 1)
  BY <1>2
<1>4. n - 1 \in S
  BY <1>1, <1>3
<1>5. n - 1 + 1 \in S
  BY <1>4
<1> QED
  BY <1>1, <1>2, <1>5

\* Finitely many numbers are bounded.
LEMMA Bounded ==
  ASSUME NEW n \in Nat, NEW f \in [1..n -> Nat]
  PROVE  \E m \in Nat : \A i \in 1..n : f[i] <= m
<1> DEFINE S == {k \in Nat : \E m \in Nat : \A i \in 1..n : i <= k => f[i] <= m}
<1>1. 0 \in S
  <2>1. \A i \in 1..n : i <= 0 => f[i] <= 0
    OBVIOUS
  <2> QED
    BY <2>1
<1>2. ASSUME NEW k \in S PROVE k + 1 \in S
  <2>1. PICK m \in Nat : \A i \in 1..n : i <= k => f[i] <= m
    OBVIOUS
  <2>2. k \in Nat
    OBVIOUS
  <2>3. \E top \in Nat : top >= m /\ (k + 1 \in 1..n => top >= f[k + 1])
    <3>1. CASE k + 1 \in 1..n
      <4>1. f[k + 1] \in Nat
        BY <3>1
      <4>2. m + f[k + 1] \in Nat /\ m + f[k + 1] >= m /\ m + f[k + 1] >= f[k + 1]
        BY <4>1
      <4> QED
        BY <4>2
    <3>2. CASE k + 1 \notin 1..n
      BY <3>2
    <3> QED
      BY <3>1, <3>2
  <2>4. PICK top \in Nat : top >= m /\ (k + 1 \in 1..n => top >= f[k + 1])
    BY <2>3
  <2>5. ASSUME NEW i \in 1..n, i <= k + 1 PROVE f[i] <= top
    <3>1. f[i] \in Nat
      OBVIOUS
    <3>2. CASE i <= k
      BY <2>1, <2>4, <3>1, <3>2
    <3>3. CASE i = k + 1
      BY <2>4, <3>1, <3>3
    <3> QED
      BY <2>2, <2>5, <3>2, <3>3
  <2> QED
    BY <2>2, <2>5
<1>3. S \subseteq Nat
  OBVIOUS
<1> HIDE DEF S
<1>4. n \in S
  BY <1>1, <1>2, <1>3, Induction
<1>5. PICK m \in Nat : \A i \in 1..n : i <= n => f[i] <= m
  BY <1>4 DEF S
<1> QED
  BY <1>5

\* A bounded set of numbers has a largest one, and CHOOSE finds it.
LEMMA Largest ==
  ASSUME NEW S, S \subseteq Nat, S # {}, NEW bound \in Nat, \A k \in S : k <= bound
  PROVE  LET m == CHOOSE m \in S : \A k \in S : k <= m IN m \in S /\ \A k \in S : k <= m
<1> DEFINE Above == {n \in Nat : \A k \in S : k <= n}
<1>1. Above \subseteq Nat /\ Above # {}
  OBVIOUS
<1>2. \A n \in Nat : n \in Above <=> \A k \in S : k <= n
  OBVIOUS
<1> HIDE DEF Above
<1>3. PICK n \in Above : \A m \in Above : n <= m
  BY <1>1, Least
<1>4. n \in S
  <2> SUFFICES ASSUME n \notin S PROVE FALSE
    OBVIOUS
  <2>1. n \in Nat /\ \A k \in S : k \in Nat /\ k <= n /\ k # n
    BY <1>1, <1>2, <1>3
  <2>2. \A k \in S : k <= n - 1
    BY <2>1
  <2>3. PICK k \in S : TRUE
    OBVIOUS
  <2>4. n - 1 \in Nat
    BY <2>1, <2>2, <2>3
  <2>5. n - 1 \in Above
    BY <1>2, <2>2, <2>4
  <2> QED
    BY <1>3, <2>1, <2>5
<1>5. \E m \in S : \A k \in S : k <= m
  BY <1>1, <1>2, <1>3, <1>4
<1> QED
  BY <1>5

-----------------------------------------------------------------------------
(* The snapshots of a report *)

TrackerType ==
    [pc: TrackerPC, stop: BOOLEAN, offset: 0..MaxRow, pending: BOOLEAN,
     buckets: [Bucket -> SUBSET Rows], dirty: SUBSET Bucket,
     latest: Nat, finalized: Int]
GenerationType == [pc: GenerationPC, rows: SUBSET (Extra \cup Rows)]
JtlType == [rows: Seq(Bucket), whole: 0..MaxRow, remote: BOOLEAN, there: BOOLEAN]

\* The rows of a bucket among the first n, and what a parser may count for k.
BucketRows(b, n) == {r \in 1..n : jtl.rows[r] = b}
RowsOf(k) ==
    1..Len(jtl.rows)
    \cup (IF jtl.remote /\ k = "error" THEN {Remote} ELSE {})
    \cup (IF k \in {"error", "transaction"} THEN {Frame} ELSE {})

\* The file is complete when the runner waits for its tracker, and is there as
\* long as its report; the slaves' samples come once, after JMeter has exited.
Exited == {"untrack", "collect", "update", "schedule", "finished"}
FileInv ==
    /\ jtl.whole <= Len(jtl.rows) /\ Len(jtl.rows) <= MaxRow
    /\ runner \in Exited => jtl.whole = Len(jtl.rows)
    /\ jtl.there <=> report # "gone"
    /\ runner \in {"run", "untrack", "collect"} => ~jtl.remote

\* A bucket that is not final holds all rows read of it, and only such a bucket
\* is dirty.  A tracker the runner did not tell to stop has the whole file when
\* it saves.
TrackerInv ==
    /\ tracker.offset <= jtl.whole
    /\ \A b \in Bucket :
        /\ tracker.buckets[b] \subseteq BucketRows(b, tracker.offset)
        /\ b >= tracker.finalized => tracker.buckets[b] = BucketRows(b, tracker.offset)
    /\ \A b \in tracker.dirty : b >= tracker.finalized
    /\ runner \in Exited \ {"untrack"} => ~tracker.stop
    /\ runner \in Exited /\ ~tracker.stop /\ tracker.pc = "save" =>
        tracker.offset = jtl.whole

\* Nothing is counted that is not in the file.
CountedInv ==
    /\ \A b \in Bucket : published[b] \subseteq BucketRows(b, Len(jtl.rows))
    /\ \A k \in Kind \ {"metric"} : stored[k] \subseteq RowsOf(k)
    /\ \A k \in Kind : generation[k].pc = "save" => generation[k].rows \subseteq RowsOf(k)

\* After the run, a snapshot is complete, or a generation is on the way to it.
FinalInv ==
    runner = "finished" /\ report = "done" =>
        \A k \in kinds \ missed :
            /\ generation[k].pc = "save" => generation[k].rows = RowsOf(k)
            /\ generation[k].pc = "none" =>
                IF k = "metric"
                THEN \A b \in Bucket : published[b] = BucketRows(b, Len(jtl.rows))
                ELSE stored[k] = RowsOf(k)

\* After the deletion, what was not in flight stores nothing.
GoneInv ==
    report = "gone" =>
        /\ \A k \in Kind \ orphaned : generation[k].pc \in {"none", "read"}
        /\ "metric" \notin orphaned => published = NoRows /\ tracker.pc # "save"
        /\ \A k \in Kind \ ({"metric"} \cup orphaned) : stored[k] = {}

ReportInv ==
    ReportTypeOK /\ FileInv /\ TrackerInv /\ CountedInv /\ FinalInv /\ GoneInv

LEMMA ReportTypes ==
  ReportTypeOK <=>
    /\ kinds \in Followed /\ report \in {"running", "done", "gone"} /\ runner \in RunnerPC
    /\ jtl \in JtlType /\ tracker \in TrackerType
    /\ generation \in [Kind -> GenerationType]
    /\ published \in [Bucket -> SUBSET Rows]
    /\ stored \in [Kind \ {"metric"} -> SUBSET (Extra \cup Rows)]
    /\ missed \subseteq Kind /\ orphaned \subseteq Kind
    /\ views \in 0..MaxView /\ reportFaults \in 0..MaxReportFault
  BY DEF ReportTypeOK, JtlType, TrackerType, GenerationType

LEMMA NoTasks ==
  /\ NoTracker \in TrackerType /\ NoGeneration \in GenerationType
  /\ NoTracker.pc = "none" /\ ~NoTracker.stop /\ NoTracker.offset = 0
  /\ NoTracker.buckets = NoRows /\ NoTracker.dirty = {} /\ NoTracker.finalized = 0
  /\ NoGeneration.pc = "none" /\ NoRows \in [Bucket -> SUBSET Rows]
  BY ReportAssumption
     DEF NoTracker, TrackerType, TrackerPC, NoGeneration, GenerationType, GenerationPC,
         NoRows

LEMMA ReportInitInv == ReportInit => ReportInv
<1> SUFFICES ASSUME ReportInit PROVE ReportInv
  OBVIOUS
<1> DEFINE t == [NoTracker EXCEPT !.pc = "poll"]
<1>1. /\ t \in TrackerType /\ t.pc = "poll" /\ ~t.stop /\ t.offset = 0
      /\ t.buckets = NoRows /\ t.dirty = {} /\ t.finalized = 0 /\ tracker = t
  BY NoTasks DEF ReportInit, TrackerType, TrackerPC
<1> HIDE DEF t
<1>2. /\ jtl \in JtlType /\ jtl.rows = <<>> /\ Len(jtl.rows) = 0 /\ jtl.whole = 0 /\ jtl.there
  BY ReportAssumption DEF ReportInit, JtlType
<1>3. ReportTypeOK
  BY <1>1, <1>2, NoTasks, ReportAssumption, ReportTypes DEF ReportInit, RunnerPC, Kind
<1>4. FileInv
  BY <1>2, ReportAssumption DEF ReportInit, FileInv, Exited
<1>5. TrackerInv
  <2>1. \A b \in Bucket : BucketRows(b, 0) = {} /\ tracker.buckets[b] = {}
    BY <1>1 DEF BucketRows, NoRows
  <2>2. /\ tracker.offset = 0 /\ tracker.finalized = 0 /\ tracker.dirty = {}
        /\ runner \notin Exited /\ jtl.whole = 0
    BY <1>1, <1>2 DEF ReportInit, Exited
  <2> QED
    BY <2>1, <2>2 DEF TrackerInv
<1>6. CountedInv /\ FinalInv /\ GoneInv
  BY NoTasks DEF ReportInit, CountedInv, FinalInv, GoneInv, NoRows
<1> QED
  BY <1>3, <1>4, <1>5, <1>6 DEF ReportInv

\* JMeter writes a row.
LEMMA JmeterKeeps ==
  ASSUME ReportInv, RowBegins \/ RowEnds
  PROVE  ReportInv'
<1>0. /\ jtl \in JtlType /\ jtl.rows \in Seq(Bucket) /\ jtl.whole \in 0..MaxRow
      /\ MaxRow \in Nat /\ Len(jtl.rows) \in Nat /\ tracker \in TrackerType
  BY ReportAssumption, ReportTypes DEF ReportInv, JtlType
<1>1. /\ jtl' \in JtlType /\ jtl'.there = jtl.there /\ jtl'.remote = jtl.remote
      /\ jtl'.whole <= Len(jtl'.rows) /\ Len(jtl'.rows) <= MaxRow
      /\ jtl.whole <= jtl'.whole /\ Len(jtl.rows) <= Len(jtl'.rows)
      /\ jtl'.rows \in Seq(Bucket)
      /\ \A r \in 1..Len(jtl.rows) : jtl'.rows[r] = jtl.rows[r]
  <2>1. CASE RowBegins
    <3>1. PICK b \in Bucket : jtl' = [jtl EXCEPT !.rows = Append(@, b)]
      BY <2>1 DEF RowBegins
    <3>2. /\ jtl.whole = Len(jtl.rows) /\ jtl.whole < MaxRow
      BY <2>1 DEF RowBegins
    <3>3. /\ Append(jtl.rows, b) \in Seq(Bucket)
          /\ Len(Append(jtl.rows, b)) = Len(jtl.rows) + 1
          /\ \A r \in 1..Len(jtl.rows) : Append(jtl.rows, b)[r] = jtl.rows[r]
      BY <1>0
    <3>4. /\ jtl'.rows = Append(jtl.rows, b) /\ jtl'.whole = jtl.whole
          /\ jtl'.there = jtl.there /\ jtl'.remote = jtl.remote /\ jtl' \in JtlType
      BY <1>0, <3>1, <3>3 DEF JtlType
    <3> QED
      BY <1>0, <3>2, <3>3, <3>4
  <2>2. CASE RowEnds
    <3>1. /\ jtl.whole < Len(jtl.rows) /\ Len(jtl.rows) <= MaxRow
          /\ jtl' = [jtl EXCEPT !.whole = @ + 1]
      BY <2>2 DEF RowEnds, ReportInv, FileInv
    <3>2. jtl.whole + 1 \in 0..MaxRow
      BY <1>0, <3>1
    <3>3. /\ jtl'.rows = jtl.rows /\ jtl'.whole = jtl.whole + 1
          /\ jtl'.there = jtl.there /\ jtl'.remote = jtl.remote /\ jtl' \in JtlType
      BY <1>0, <3>1, <3>2 DEF JtlType
    <3> QED
      BY <1>0, <3>1, <3>3
  <2> QED
    BY <2>1, <2>2
<1>2. /\ runner = "run" /\ report' = report
      /\ UNCHANGED <<kinds, report, runner, tracker, generation, published, stored,
                     missed, orphaned, views, reportFaults>>
  BY DEF RowBegins, RowEnds
<1>3. ReportTypeOK'
  BY <1>1, <1>2, ReportTypes DEF ReportInv, ReportTypeOK, JtlType
<1>4. FileInv'
  BY <1>1, <1>2 DEF ReportInv, FileInv, Exited
<1>5. tracker.offset \in Nat /\ tracker.offset <= jtl.whole /\ jtl'.whole \in Nat
      /\ Len(jtl'.rows) \in Nat
  BY <1>0, <1>1 DEF ReportInv, TrackerInv, TrackerType, JtlType
<1>6. \A b \in Bucket :
        /\ BucketRows(b, tracker.offset)' = BucketRows(b, tracker.offset)
        /\ BucketRows(b, Len(jtl.rows)) \subseteq BucketRows(b, Len(jtl.rows))'
  <2> SUFFICES ASSUME NEW b \in Bucket
               PROVE  /\ {r \in 1..tracker.offset : jtl'.rows[r] = b}
                           = {r \in 1..tracker.offset : jtl.rows[r] = b}
                      /\ {r \in 1..Len(jtl.rows) : jtl.rows[r] = b}
                           \subseteq {r \in 1..Len(jtl'.rows) : jtl'.rows[r] = b}
    BY <1>2 DEF BucketRows
  <2>1. \A r \in 1..tracker.offset : r \in 1..Len(jtl.rows)
    BY <1>0, <1>5 DEF ReportInv, FileInv
  <2>2. \A r \in 1..Len(jtl.rows) : r \in 1..Len(jtl'.rows)
    BY <1>0, <1>1, <1>5
  <2> QED
    BY <1>1, <2>1, <2>2
<1>7. TrackerInv'
  <2>1. tracker'.offset <= jtl'.whole
    BY <1>0, <1>1, <1>2, <1>5
  <2> QED
    BY <1>2, <1>6, <2>1 DEF ReportInv, TrackerInv, Exited
<1>8. CountedInv'
  <2>1. \A k \in Kind : RowsOf(k) \subseteq RowsOf(k)'
    BY <1>0, <1>1, <1>5 DEF RowsOf
  <2> QED
    BY <1>2, <1>6, <2>1 DEF ReportInv, CountedInv
<1>9. FinalInv' /\ GoneInv'
  BY <1>2 DEF ReportInv, FinalInv, GoneInv
<1> QED
  BY <1>3, <1>4, <1>7, <1>8, <1>9 DEF ReportInv

\* The rows a tracker reads are rows of the file, and have a latest bucket.
LEMMA FreshRead ==
  ASSUME ReportInv
  PROVE  LET fresh == FreshRows(tracker)
             keys == {jtl.rows[r] : r \in fresh}
             S == keys \cup {tracker.latest}
         IN /\ fresh = {r \in tracker.offset + 1 .. jtl.whole :
                            jtl.rows[r] >= tracker.finalized}
            /\ fresh \subseteq 1..jtl.whole /\ fresh \subseteq Rows
            /\ keys \subseteq Bucket
            /\ (CHOOSE m \in S : \A k \in S : k <= m) \in Nat
<1> DEFINE fresh == FreshRows(tracker)
           keys == {jtl.rows[r] : r \in fresh}
           S == keys \cup {tracker.latest}
<1>0. /\ jtl.rows \in Seq(Bucket) /\ jtl.whole \in 0..MaxRow /\ MaxRow \in Nat
      /\ Len(jtl.rows) \in Nat /\ jtl.whole <= Len(jtl.rows)
      /\ tracker.offset \in Nat /\ tracker.latest \in Nat /\ tracker.finalized \in Int
      /\ Bucket \subseteq Nat
  BY ReportAssumption, ReportTypes DEF ReportInv, FileInv, JtlType, TrackerType
<1>1. /\ fresh = {r \in tracker.offset + 1 .. jtl.whole :
                      jtl.rows[r] >= tracker.finalized}
      /\ \A r \in fresh : r \in 1..jtl.whole /\ r \in 1..Len(jtl.rows) /\ r \in Rows
  BY <1>0 DEF FreshRows, Rows
<1> HIDE DEF fresh
<1>2. keys \subseteq Bucket
  BY <1>0, <1>1
<1> HIDE DEF keys
<1>3. PICK m \in Nat : \A i \in 1..Len(jtl.rows) : jtl.rows[i] <= m
  <2>0. \A i \in 1..Len(jtl.rows) : jtl.rows[i] \in Nat
    <3>1. \A i \in 1..Len(jtl.rows) : jtl.rows[i] \in Bucket
      BY <1>0
    <3> QED
      BY <1>0, <3>1
  <2> DEFINE f == [i \in 1..Len(jtl.rows) |-> jtl.rows[i]]
  <2>1. f \in [1..Len(jtl.rows) -> Nat]
    BY <2>0
  <2> HIDE DEF f
  <2>2. PICK m \in Nat : \A i \in 1..Len(jtl.rows) : f[i] <= m
    BY <1>0, <2>1, Bounded
  <2> QED
    BY <2>2 DEF f
<1>4. ASSUME NEW k \in S PROVE k <= m + tracker.latest
  <2>1. CASE k = tracker.latest
    BY <1>0, <2>1
  <2>2. CASE k \in keys
    <3>1. PICK r \in fresh : k = jtl.rows[r]
      BY <2>2 DEF keys
    <3>2. k <= m /\ k \in Nat
      <4>1. r \in 1..Len(jtl.rows) /\ k \in Bucket
        BY <1>1, <1>2, <2>2
      <4> QED
        BY <1>0, <1>3, <3>1, <4>1
    <3> QED
      BY <1>0, <3>2
  <2> QED
    BY <2>1, <2>2
<1>5. S \subseteq Nat /\ S # {} /\ m + tracker.latest \in Nat
  <2>1. m + tracker.latest \in Nat
    BY <1>0
  <2>2. S \subseteq Nat /\ tracker.latest \in S
    BY <1>0, <1>2
  <2> QED
    BY <2>1, <2>2
<1> HIDE DEF S
<1>6. (CHOOSE n \in S : \A k \in S : k <= n) \in Nat
  BY <1>4, <1>5, Largest
<1> QED
  BY <1>1, <1>2, <1>6 DEF keys, S, fresh

\* What the tracker knows after it has read the file.
LEMMA ReadTracker ==
  ASSUME ReportInv
  PROVE  LET t == ParseIncremental(tracker) IN
         /\ t \in TrackerType /\ t.stop = tracker.stop /\ t.finalized = tracker.finalized
         /\ t.offset = jtl.whole
         /\ \A b \in Bucket :
             /\ t.buckets[b] \subseteq BucketRows(b, jtl.whole)
             /\ b >= tracker.finalized => t.buckets[b] = BucketRows(b, jtl.whole)
         /\ \A b \in t.dirty : b >= tracker.finalized
<1> DEFINE fresh == FreshRows(tracker)
           keys == {jtl.rows[r] : r \in fresh}
           S == keys \cup {tracker.latest}
           top == CHOOSE m \in S : \A k \in S : k <= m
           buckets == [b \in Bucket |-> tracker.buckets[b] \cup {r \in fresh : jtl.rows[r] = b}]
           t == [tracker EXCEPT !.offset = jtl.whole, !.pending = jtl.whole < Len(jtl.rows),
                                !.buckets = buckets, !.dirty = @ \cup keys, !.latest = top]
<1>1. t = ParseIncremental(tracker)
  BY DEF ParseIncremental
<1>2. /\ fresh = {r \in tracker.offset + 1 .. jtl.whole :
                      jtl.rows[r] >= tracker.finalized}
      /\ fresh \subseteq 1..jtl.whole /\ fresh \subseteq Rows
      /\ keys \subseteq Bucket /\ top \in Nat
  BY FreshRead
<1>3. \A k \in keys : k >= tracker.finalized
  BY <1>2
<1> HIDE DEF fresh, top, keys
<1>4. /\ tracker \in TrackerType /\ jtl.whole \in 0..MaxRow
      /\ tracker.offset \in Nat /\ tracker.offset <= jtl.whole
      /\ jtl.rows \in Seq(Bucket) /\ jtl.whole <= Len(jtl.rows)
      /\ Bucket \subseteq Nat /\ tracker.finalized \in Int /\ MaxRow \in Nat
  BY ReportTypes, ReportAssumption
     DEF ReportInv, FileInv, TrackerInv, JtlType, TrackerType
<1>5. buckets \in [Bucket -> SUBSET Rows]
  BY <1>2, <1>4 DEF TrackerType
<1>6. ASSUME NEW b \in Bucket
      PROVE  /\ buckets[b] \subseteq BucketRows(b, jtl.whole)
             /\ b >= tracker.finalized => buckets[b] = BucketRows(b, jtl.whole)
  <2>1. buckets[b] = tracker.buckets[b] \cup {r \in fresh : jtl.rows[r] = b}
    OBVIOUS
  <2>2. /\ tracker.buckets[b] \subseteq {r \in 1..tracker.offset : jtl.rows[r] = b}
        /\ b >= tracker.finalized =>
             tracker.buckets[b] = {r \in 1..tracker.offset : jtl.rows[r] = b}
    BY DEF ReportInv, TrackerInv, BucketRows
  <2>3. buckets[b] \subseteq {r \in 1..jtl.whole : jtl.rows[r] = b}
    BY <1>2, <1>4, <2>1, <2>2
  <2>4. ASSUME b >= tracker.finalized, NEW r \in 1..jtl.whole, jtl.rows[r] = b
        PROVE  r \in buckets[b]
    <3>1. CASE r <= tracker.offset
      BY <1>4, <2>1, <2>2, <2>4, <3>1
    <3>2. CASE ~(r <= tracker.offset)
      <4>1. r \in tracker.offset + 1 .. jtl.whole
        BY <1>4, <3>2
      <4> QED
        BY <1>2, <2>1, <2>4, <4>1
    <3> QED
      BY <3>1, <3>2
  <2> QED
    BY <2>3, <2>4 DEF BucketRows
<1> HIDE DEF buckets
<1>7. /\ t \in TrackerType /\ t.stop = tracker.stop /\ t.finalized = tracker.finalized
      /\ t.offset = jtl.whole /\ t.buckets = buckets /\ t.dirty = tracker.dirty \cup keys
  <2> DEFINE grown == jtl.whole < Len(jtl.rows)
             dirty == tracker.dirty \cup keys
             u == [tracker EXCEPT !.offset = jtl.whole, !.pending = grown,
                                  !.buckets = buckets, !.dirty = dirty, !.latest = top]
  <2>1. u = t
    BY <1>4 DEF TrackerType
  <2>2. dirty \subseteq Bucket
    BY <1>2, <1>4 DEF TrackerType
  <2>3. grown \in BOOLEAN
    OBVIOUS
  <2> HIDE DEF t, dirty, grown
  <2>4. /\ u \in TrackerType /\ u.stop = tracker.stop /\ u.finalized = tracker.finalized
        /\ u.offset = jtl.whole /\ u.buckets = buckets /\ u.dirty = dirty
    BY <1>2, <1>4, <1>5, <2>2, <2>3 DEF TrackerType
  <2> QED
    BY <2>1, <2>4 DEF dirty
<1>8. \A b \in tracker.dirty : b >= tracker.finalized
  BY DEF ReportInv, TrackerInv
<1> HIDE DEF t
<1> QED
  BY <1>1, <1>3, <1>6, <1>7, <1>8

\* What the tracker keeps after it has saved.
LEMMA AckedTracker ==
  ASSUME ReportInv
  PROVE  LET t == Ack(tracker) IN
         /\ t \in TrackerType /\ t.pc = "poll" /\ t.stop = tracker.stop
         /\ t.offset = tracker.offset /\ t.dirty = {}
         /\ \A b \in Bucket :
             /\ t.buckets[b] \subseteq BucketRows(b, tracker.offset)
             /\ b >= t.finalized => t.buckets[b] = BucketRows(b, tracker.offset)
<1> DEFINE keepFrom == tracker.latest - 1
           buckets == [b \in Bucket |-> IF b < keepFrom THEN {} ELSE tracker.buckets[b]]
           final == IF tracker.finalized > keepFrom THEN tracker.finalized ELSE keepFrom
           t == [tracker EXCEPT !.pc = "poll", !.dirty = {}, !.finalized = final,
                                !.buckets = buckets]
<1>1. t = Ack(tracker)
  BY DEF Ack
<1>2. tracker \in TrackerType /\ keepFrom \in Int /\ tracker.finalized \in Int
      /\ Bucket \subseteq Nat
  BY ReportTypes, ReportAssumption DEF ReportInv, TrackerType
<1>3. final \in Int /\ final >= keepFrom /\ final >= tracker.finalized
  BY <1>2
<1>4. buckets \in [Bucket -> SUBSET Rows]
  BY <1>2 DEF TrackerType
<1>5. \A b \in Bucket :
        /\ buckets[b] \subseteq BucketRows(b, tracker.offset)
        /\ b >= final => buckets[b] = BucketRows(b, tracker.offset)
  <2> SUFFICES ASSUME NEW b \in Bucket
               PROVE  /\ buckets[b] \subseteq BucketRows(b, tracker.offset)
                      /\ b >= final => buckets[b] = BucketRows(b, tracker.offset)
    OBVIOUS
  <2>1. /\ tracker.buckets[b] \subseteq BucketRows(b, tracker.offset)
        /\ b >= tracker.finalized => tracker.buckets[b] = BucketRows(b, tracker.offset)
    BY DEF ReportInv, TrackerInv
  <2>2. buckets[b] = IF b < keepFrom THEN {} ELSE tracker.buckets[b]
    OBVIOUS
  <2>3. b >= final => b >= keepFrom /\ b >= tracker.finalized /\ ~(b < keepFrom)
    BY <1>2, <1>3
  <2> HIDE DEF buckets, final, keepFrom
  <2> QED
    BY <2>1, <2>2, <2>3
<1> HIDE DEF buckets, final
<1>6. /\ t \in TrackerType /\ t.pc = "poll" /\ t.stop = tracker.stop
      /\ t.offset = tracker.offset /\ t.dirty = {} /\ t.finalized = final
      /\ t.buckets = buckets
  BY <1>2, <1>3, <1>4 DEF TrackerType, TrackerPC
<1> HIDE DEF t
<1> QED
  BY <1>1, <1>5, <1>6

\* A tracker that moves on without saving.
LEMMA TrackerMoves ==
  ASSUME ReportInv, tracker' \in TrackerType, TrackerInv',
         report = "gone" /\ "metric" \notin orphaned => tracker'.pc # "save",
         views' \in 0..MaxView, reportFaults' \in 0..MaxReportFault,
         UNCHANGED <<kinds, report, jtl, runner, generation, published, stored,
                     missed, orphaned>>
  PROVE  ReportInv'
<1>1. ReportTypeOK'
  BY ReportTypes DEF ReportInv, ReportTypeOK, TrackerType
<1>2. FileInv' /\ CountedInv' /\ FinalInv' /\ GoneInv'
  BY DEF ReportInv, FileInv, CountedInv, FinalInv, GoneInv, BucketRows, RowsOf
<1> QED
  BY <1>1, <1>2 DEF ReportInv

\* The tracker, and the call that starts another one.
LEMMA TrackerKeeps ==
  ASSUME ReportInv,
         TrackerPolls \/ TrackerReads \/ TrackerSaveFails \/ ViewRunningMetrics
  PROVE  ReportInv'
<1>0. /\ tracker \in TrackerType /\ views \in 0..MaxView
      /\ reportFaults \in 0..MaxReportFault
      /\ jtl.whole \in Nat /\ TrackerInv /\ Bucket \subseteq Nat
      /\ jtl.rows \in Seq(Bucket) /\ Len(jtl.rows) \in Nat
  BY ReportTypes, ReportAssumption DEF ReportInv, JtlType
<1>1. ASSUME NEW pc \in TrackerPC \ {"save"},
             tracker' = [tracker EXCEPT !.pc = pc] \/ tracker' = [NoTracker EXCEPT !.pc = pc],
             views' \in 0..MaxView, reportFaults' \in 0..MaxReportFault,
             UNCHANGED <<kinds, report, jtl, runner, generation, published, stored,
                         missed, orphaned>>
      PROVE  ReportInv'
  <2>1. tracker' \in TrackerType /\ tracker'.pc = pc
    BY <1>0, <1>1, NoTasks DEF TrackerType
  <2>2. TrackerInv'
    <3>1. CASE tracker' = [tracker EXCEPT !.pc = pc]
      <4>1. /\ tracker'.offset = tracker.offset /\ tracker'.buckets = tracker.buckets
            /\ tracker'.dirty = tracker.dirty /\ tracker'.finalized = tracker.finalized
            /\ tracker'.stop = tracker.stop
        BY <1>0, <3>1 DEF TrackerType
      <4> QED
        BY <1>0, <1>1, <2>1, <4>1 DEF TrackerInv, BucketRows, Exited
    <3>2. CASE tracker' = [NoTracker EXCEPT !.pc = pc]
      <4>1. /\ tracker'.offset = 0 /\ tracker'.buckets = NoRows
            /\ tracker'.dirty = {} /\ tracker'.finalized = 0 /\ ~tracker'.stop
        BY <3>2, NoTasks DEF TrackerType
      <4>2. \A b \in Bucket : {r \in 1..0 : jtl.rows[r] = b} = {} /\ NoRows[b] = {}
        BY DEF NoRows
      <4> QED
        BY <1>0, <1>1, <2>1, <4>1, <4>2 DEF TrackerInv, BucketRows
    <3> QED
      BY <1>1, <3>1, <3>2
  <2> QED
    BY <1>1, <2>1, <2>2, TrackerMoves
<1>2. CASE TrackerPolls
  <2>1. NoTracker = [NoTracker EXCEPT !.pc = "none"]
    BY NoTasks DEF TrackerType
  <2> QED
    BY <1>0, <1>1, <1>2, <2>1 DEF TrackerPolls, TrackerPC
<1>3. CASE TrackerReads
  <2>1. CASE ~(jtl.there /\ Grown(tracker))
    <3>1. tracker' = [tracker EXCEPT !.pc = "poll"]
      BY <1>3, <2>1 DEF TrackerReads
    <3> QED
      BY <1>0, <1>1, <1>3, <3>1 DEF TrackerReads, TrackerPC
  <2>2. CASE jtl.there /\ Grown(tracker)
    <3> DEFINE t == ParseIncremental(tracker)
    <3>1. /\ t \in TrackerType /\ t.stop = tracker.stop
          /\ t.finalized = tracker.finalized /\ t.offset = jtl.whole
          /\ \A b \in Bucket :
              /\ t.buckets[b] \subseteq BucketRows(b, jtl.whole)
              /\ b >= tracker.finalized => t.buckets[b] = BucketRows(b, jtl.whole)
          /\ \A b \in t.dirty : b >= tracker.finalized
      BY ReadTracker
    <3>2. PICK pc \in {"save", "poll"} : tracker' = [t EXCEPT !.pc = pc]
      <4>1. tracker' = [t EXCEPT !.pc = IF t.dirty # {} THEN "save" ELSE "poll"]
        BY <1>3, <2>2 DEF TrackerReads
      <4> HIDE DEF t
      <4> QED
        BY <4>1
    <3> HIDE DEF t
    <3>3. /\ tracker' \in TrackerType /\ tracker'.stop = t.stop
          /\ tracker'.finalized = t.finalized /\ tracker'.offset = t.offset
          /\ tracker'.buckets = t.buckets /\ tracker'.dirty = t.dirty
      BY <3>1, <3>2 DEF TrackerType, TrackerPC
    <3>4. UNCHANGED <<kinds, report, jtl, runner, generation, published, stored,
                      missed, orphaned, views, reportFaults>>
      BY <1>3 DEF TrackerReads
    <3>5. TrackerInv'
      <4>1. \A b \in Bucket : BucketRows(b, jtl.whole) = {r \in 1..jtl.whole : jtl.rows[r] = b}
        BY DEF BucketRows
      <4> QED
        BY <1>0, <3>1, <3>3, <3>4, <4>1 DEF TrackerInv, BucketRows
    <3>6. report # "gone"
      BY <2>2 DEF ReportInv, FileInv
    <3> QED
      BY <1>0, <3>3, <3>4, <3>5, <3>6, TrackerMoves
  <2> QED
    BY <2>1, <2>2
<1>4. CASE TrackerSaveFails
  <2>1. reportFaults' \in 0..MaxReportFault
    BY <1>0, <1>4, ReportAssumption DEF TrackerSaveFails
  <2> QED
    BY <1>0, <1>1, <1>4, <2>1 DEF TrackerSaveFails, TrackerPC
<1>5. CASE ViewRunningMetrics
  <2>1. views' \in 0..MaxView
    BY <1>0, <1>5, ReportAssumption DEF ViewRunningMetrics
  <2> QED
    BY <1>0, <1>1, <1>5, <2>1 DEF ViewRunningMetrics, TrackerPC
<1> QED
  BY <1>2, <1>3, <1>4, <1>5

\* The tracker saves what it read: rows of the file, and all of them once the
\* run is over.
LEMMA TrackerSavesKeeps ==
  ASSUME ReportInv, TrackerSaves
  PROVE  ReportInv'
<1> DEFINE t == Ack(tracker)
<1>1. /\ t \in TrackerType /\ t.pc = "poll" /\ t.stop = tracker.stop
      /\ t.offset = tracker.offset /\ t.dirty = {}
      /\ \A b \in Bucket :
          /\ t.buckets[b] \subseteq BucketRows(b, tracker.offset)
          /\ b >= t.finalized => t.buckets[b] = BucketRows(b, tracker.offset)
  BY AckedTracker
<1>2. /\ tracker.pc = "save" /\ tracker' = t
      /\ UNCHANGED <<kinds, report, jtl, runner, generation, stored, missed, orphaned,
                     views, reportFaults>>
      /\ published' = [b \in Bucket |->
             IF b \in tracker.dirty THEN tracker.buckets[b] ELSE published[b]]
  BY DEF TrackerSaves
<1> HIDE DEF t
<1>3. /\ tracker \in TrackerType /\ published \in [Bucket -> SUBSET Rows]
      /\ tracker.offset \in Nat /\ tracker.offset <= jtl.whole
      /\ jtl.whole \in Nat /\ Len(jtl.rows) \in Nat /\ jtl.whole <= Len(jtl.rows)
      /\ jtl.rows \in Seq(Bucket)
  BY ReportTypes, ReportAssumption
     DEF ReportInv, FileInv, TrackerInv, TrackerType, JtlType
<1>4. /\ published' \in [Bucket -> SUBSET Rows]
      /\ \A b \in Bucket : published'[b] = IF b \in tracker.dirty THEN tracker.buckets[b]
                                           ELSE published[b]
  BY <1>2, <1>3 DEF TrackerType
<1>5. ReportTypeOK'
  BY <1>1, <1>2, <1>4, ReportTypes DEF ReportInv, ReportTypeOK, TrackerType
<1>6. FileInv' /\ GoneInv'
  BY <1>1, <1>2 DEF ReportInv, FileInv, GoneInv
<1>7. TrackerInv'
  <2>1. \A b \in Bucket : BucketRows(b, tracker.offset)
                            = {r \in 1..tracker.offset : jtl.rows[r] = b}
    BY DEF BucketRows
  <2>2. \A b \in Bucket : BucketRows(b, tracker.offset)'
                            = {r \in 1..t.offset : jtl.rows[r] = b}
    BY <1>2 DEF BucketRows
  <2> QED
    BY <1>1, <1>2, <1>3, <2>1, <2>2 DEF ReportInv, TrackerInv, Exited
<1>8. \A b \in Bucket :
        /\ published'[b] \subseteq BucketRows(b, Len(jtl.rows))
        /\ runner = "finished" =>
             published'[b] \in {published[b], BucketRows(b, Len(jtl.rows))}
  <2> SUFFICES ASSUME NEW b \in Bucket
               PROVE  /\ published'[b] \subseteq BucketRows(b, Len(jtl.rows))
                      /\ runner = "finished" =>
                           published'[b] \in {published[b], BucketRows(b, Len(jtl.rows))}
    OBVIOUS
  <2>1. published[b] \subseteq BucketRows(b, Len(jtl.rows))
    BY DEF ReportInv, CountedInv
  <2>2. CASE b \in tracker.dirty
    <3>1. tracker.buckets[b] = BucketRows(b, tracker.offset)
      BY <2>2 DEF ReportInv, TrackerInv
    <3>2. BucketRows(b, tracker.offset) \subseteq BucketRows(b, Len(jtl.rows))
      BY <1>3 DEF BucketRows
    <3>3. runner = "finished" => tracker.offset = Len(jtl.rows)
      BY <1>2 DEF ReportInv, TrackerInv, FileInv, Exited
    <3> QED
      BY <1>4, <2>2, <3>1, <3>2, <3>3
  <2> QED
    BY <1>4, <2>1, <2>2
<1>9. CountedInv' /\ FinalInv'
  <2>1. \A b \in Bucket : BucketRows(b, Len(jtl.rows))' = BucketRows(b, Len(jtl.rows))
    BY <1>2 DEF BucketRows
  <2>2. \A k \in Kind : RowsOf(k)' = RowsOf(k)
    BY <1>2 DEF RowsOf
  <2>3. CountedInv'
    BY <1>2, <1>8, <2>1, <2>2 DEF ReportInv, CountedInv
  <2>4. FinalInv'
    <3> SUFFICES ASSUME runner = "finished", report = "done", NEW k \in kinds \ missed
                 PROVE  /\ generation[k].pc = "save" => generation[k].rows = RowsOf(k)
                        /\ generation[k].pc = "none" =>
                             IF k = "metric"
                             THEN \A b \in Bucket :
                                      published'[b] = BucketRows(b, Len(jtl.rows))
                             ELSE stored[k] = RowsOf(k)
      BY <1>2 DEF FinalInv, BucketRows, RowsOf
    <3> QED
      BY <1>8 DEF ReportInv, FinalInv
  <2> QED
    BY <2>3, <2>4
<1> QED
  BY <1>5, <1>6, <1>7, <1>9 DEF ReportInv

\* What a step of one generation must keep.
LEMMA GenerationMoves ==
  ASSUME ReportInv, NEW k \in Kind, NEW g \in GenerationType,
         generation' = [generation EXCEPT ![k] = g],
         UNCHANGED <<kinds, report, jtl, runner, tracker, orphaned>>,
         published' \in [Bucket -> SUBSET Rows],
         stored' \in [Kind \ {"metric"} -> SUBSET (Extra \cup Rows)],
         missed' \subseteq Kind, views' \in 0..MaxView, reportFaults' \in 0..MaxReportFault,
         \A b \in Bucket : published'[b] \subseteq BucketRows(b, Len(jtl.rows)),
         \A j \in Kind \ {"metric"} : stored'[j] \subseteq RowsOf(j),
         g.pc = "save" => g.rows \subseteq RowsOf(k),
         FinalInv', GoneInv'
  PROVE  ReportInv'
<1>1. generation \in [Kind -> GenerationType]
  BY ReportTypes DEF ReportInv
<1>2. ReportTypeOK'
  BY <1>1, ReportTypes DEF ReportInv, ReportTypeOK, GenerationType
<1>3. FileInv' /\ TrackerInv'
  BY DEF ReportInv, FileInv, TrackerInv, BucketRows
<1>4. CountedInv'
  <2>1. \A b \in Bucket : BucketRows(b, Len(jtl.rows))' = BucketRows(b, Len(jtl.rows))
    BY DEF BucketRows
  <2>2. \A j \in Kind : RowsOf(j)' = RowsOf(j)
    BY DEF RowsOf
  <2>3. \A j \in Kind : generation'[j] = IF j = k THEN g ELSE generation[j]
    BY <1>1
  <2> QED
    BY <2>1, <2>2, <2>3 DEF ReportInv, CountedInv
<1> QED
  BY <1>2, <1>3, <1>4 DEF ReportInv

\* The types and bounds the steps of a generation need.
LEMMA GenerationFacts ==
  ASSUME ReportInv
  PROVE  /\ generation \in [Kind -> GenerationType] /\ kinds \subseteq Kind
         /\ published \in [Bucket -> SUBSET Rows]
         /\ stored \in [Kind \ {"metric"} -> SUBSET (Extra \cup Rows)]
         /\ missed \subseteq Kind /\ views \in 0..MaxView
         /\ reportFaults \in 0..MaxReportFault /\ MaxReportFault \in Nat /\ MaxView \in Nat
         /\ jtl.rows \in Seq(Bucket) /\ jtl.whole \in Nat /\ Len(jtl.rows) \in Nat
         /\ MaxRow \in Nat /\ jtl.whole <= Len(jtl.rows) /\ Len(jtl.rows) <= MaxRow
         /\ \A k \in Kind : RowsOf(k) \subseteq Extra \cup Rows
         /\ \A b \in Bucket : published[b] \subseteq BucketRows(b, Len(jtl.rows))
         /\ \A k \in Kind \ {"metric"} : stored[k] \subseteq RowsOf(k)
<1>1. /\ generation \in [Kind -> GenerationType] /\ kinds \in Followed
      /\ published \in [Bucket -> SUBSET Rows]
      /\ stored \in [Kind \ {"metric"} -> SUBSET (Extra \cup Rows)]
      /\ missed \subseteq Kind /\ views \in 0..MaxView
      /\ reportFaults \in 0..MaxReportFault /\ jtl \in JtlType
  BY ReportTypes DEF ReportInv
<1>2. kinds \subseteq Kind /\ MaxReportFault \in Nat /\ MaxView \in Nat /\ MaxRow \in Nat
  BY <1>1, ReportAssumption DEF Kind
<1>3. /\ jtl.rows \in Seq(Bucket) /\ jtl.whole \in Nat /\ Len(jtl.rows) \in Nat
      /\ jtl.whole <= Len(jtl.rows) /\ Len(jtl.rows) <= MaxRow
  BY <1>1, <1>2 DEF ReportInv, FileInv, JtlType
<1>4. \A k \in Kind : RowsOf(k) \subseteq Extra \cup Rows
  BY <1>2, <1>3 DEF RowsOf, Rows, Extra
<1>5. /\ \A b \in Bucket : published[b] \subseteq BucketRows(b, Len(jtl.rows))
      /\ \A k \in Kind \ {"metric"} : stored[k] \subseteq RowsOf(k)
  BY DEF ReportInv, CountedInv
<1> QED
  BY <1>1, <1>2, <1>3, <1>4, <1>5

\* A parser counts rows of the file, and all of them once the run is over.
LEMMA ParsedRows ==
  ASSUME ReportInv, NEW k \in Kind, NEW torn \in {{}, Rows}
  PROVE  /\ Parsed(k, torn) \subseteq RowsOf(k)
         /\ runner = "finished" /\ report = "done" => Parsed(k, torn) = RowsOf(k)
<1>1. /\ jtl.whole \in Nat /\ Len(jtl.rows) \in Nat /\ jtl.whole <= Len(jtl.rows)
      /\ MaxRow \in Nat
  BY GenerationFacts
<1>2. (torn \cap {Len(jtl.rows)}) \subseteq 1..Len(jtl.rows)
  BY <1>1 DEF Rows
<1>3. 1..jtl.whole \subseteq 1..Len(jtl.rows)
  BY <1>1
<1>4. Parsed(k, torn) \subseteq RowsOf(k)
  BY <1>2, <1>3 DEF Parsed, RowsOf
<1>5. ASSUME runner = "finished", report = "done"
      PROVE  Parsed(k, torn) = RowsOf(k)
  <2>1. jtl.whole = Len(jtl.rows) /\ jtl.there
    BY <1>5 DEF ReportInv, FileInv, Exited
  <2> QED
    BY <1>2, <2>1 DEF Parsed, RowsOf
<1> QED
  BY <1>4, <1>5

\* A generation that reads the report, or parses the file, or fails, or starts.
LEMMA GenerationKeeps ==
  ASSUME ReportInv, NEW k \in kinds,
         \/ GenerationReads(k) \/ GenerationParses(k)
         \/ GenerationFailsToSave(k) \/ ViewSnapshots(k)
  PROVE  ReportInv'
<1>0. /\ generation \in [Kind -> GenerationType] /\ k \in Kind
      /\ published \in [Bucket -> SUBSET Rows]
      /\ stored \in [Kind \ {"metric"} -> SUBSET (Extra \cup Rows)]
      /\ missed \subseteq Kind /\ views \in 0..MaxView
      /\ reportFaults \in 0..MaxReportFault /\ MaxReportFault \in Nat /\ MaxView \in Nat
      /\ \A b \in Bucket : published[b] \subseteq BucketRows(b, Len(jtl.rows))
      /\ \A j \in Kind \ {"metric"} : stored[j] \subseteq RowsOf(j)
      /\ RowsOf(k) \subseteq Extra \cup Rows
      /\ Len(jtl.rows) \in Nat
  BY GenerationFacts
<1>1. ASSUME NEW g \in GenerationType,
             generation' = [generation EXCEPT ![k] = g],
             UNCHANGED <<kinds, report, jtl, runner, tracker, published, stored, orphaned>>,
             missed' \subseteq Kind, missed \subseteq missed',
             views' \in 0..MaxView, reportFaults' \in 0..MaxReportFault,
             g.pc = "save" => g.rows \subseteq RowsOf(k),
             runner = "finished" /\ report = "done" /\ k \notin missed' =>
                 /\ g.pc = "save" => g.rows = RowsOf(k)
                 /\ g.pc = "none" =>
                      IF k = "metric"
                      THEN \A b \in Bucket : published[b] = BucketRows(b, Len(jtl.rows))
                      ELSE stored[k] = RowsOf(k),
             report = "gone" /\ k \notin orphaned => g.pc \in {"none", "read"}
      PROVE  ReportInv'
  <2>1. \A j \in Kind : generation'[j] = IF j = k THEN g ELSE generation[j]
    BY <1>0, <1>1
  <2>2. /\ \A b \in Bucket : BucketRows(b, Len(jtl.rows))' = BucketRows(b, Len(jtl.rows))
        /\ \A j \in Kind : RowsOf(j)' = RowsOf(j)
    BY <1>1 DEF BucketRows, RowsOf
  <2>3. FinalInv'
    <3> SUFFICES ASSUME runner = "finished", report = "done", NEW j \in kinds \ missed'
                 PROVE  /\ generation'[j].pc = "save" => generation'[j].rows = RowsOf(j)
                        /\ generation'[j].pc = "none" =>
                             IF j = "metric"
                             THEN \A b \in Bucket :
                                      published[b] = BucketRows(b, Len(jtl.rows))
                             ELSE stored[j] = RowsOf(j)
      BY <1>1 DEF FinalInv, BucketRows, RowsOf
    <3>1. j \in kinds \ missed /\ j \in Kind
      BY <1>1, GenerationFacts
    <3>2. CASE j = k
      BY <1>1, <2>1, <3>1, <3>2
    <3>3. CASE j # k
      <4>1. generation'[j] = generation[j]
        BY <2>1, <3>1, <3>3
      <4> QED
        BY <3>1, <4>1 DEF ReportInv, FinalInv
    <3> QED
      BY <3>2, <3>3
  <2>4. GoneInv'
    BY <1>1, <2>1 DEF ReportInv, GoneInv
  <2> QED
    BY <1>0, <1>1, <2>3, <2>4, GenerationMoves
<1>2. CASE GenerationReads(k)
  <2> DEFINE g == IF report = "gone" THEN NoGeneration
                  ELSE [generation[k] EXCEPT !.pc = "parse"]
  <2>1. generation' = [generation EXCEPT ![k] = g] /\ generation[k].pc = "read"
    BY <1>0, <1>2 DEF GenerationReads
  <2>2. /\ g \in GenerationType
        /\ IF report = "gone" THEN g.pc = "none" ELSE g.pc = "parse"
    BY <1>0, NoTasks DEF GenerationType, GenerationPC
  <2> HIDE DEF g
  <2> QED
    BY <1>0, <1>1, <1>2, <2>1, <2>2 DEF GenerationReads
<1>3. CASE GenerationParses(k)
  <2>1. PICK torn \in {{}, Rows} :
          generation' = [generation EXCEPT ![k] =
            IF Parsed(k, torn) = {} /\ k \in {"metric", "transaction"} THEN NoGeneration
            ELSE [pc |-> "save", rows |-> Parsed(k, torn)]]
    BY <1>3 DEF GenerationParses
  <2> DEFINE rows == Parsed(k, torn)
             g == IF rows = {} /\ k \in {"metric", "transaction"} THEN NoGeneration
                  ELSE [pc |-> "save", rows |-> rows]
  <2>2. /\ rows \subseteq RowsOf(k)
        /\ runner = "finished" /\ report = "done" => rows = RowsOf(k)
    BY <1>0, ParsedRows
  <2> HIDE DEF rows
  <2>3. generation' = [generation EXCEPT ![k] = g]
    BY <2>1 DEF rows
  <2>4. /\ g \in GenerationType
        /\ IF rows = {} /\ k \in {"metric", "transaction"} THEN g.pc = "none"
           ELSE g.pc = "save" /\ g.rows = rows
    <3>1. CASE rows = {} /\ k \in {"metric", "transaction"}
      BY <3>1, NoTasks
    <3>2. CASE ~(rows = {} /\ k \in {"metric", "transaction"})
      <4>1. rows \subseteq Extra \cup Rows
        BY <1>0, <2>2
      <4> QED
        BY <3>2, <4>1 DEF GenerationType, GenerationPC
    <3> QED
      BY <3>1, <3>2
  <2> HIDE DEF g
  <2>5. ASSUME runner = "finished", report = "done", g.pc = "none"
        PROVE  IF k = "metric"
               THEN \A b \in Bucket : published[b] = BucketRows(b, Len(jtl.rows))
               ELSE stored[k] = RowsOf(k)
    <3>1. rows = {} /\ k \in {"metric", "transaction"} /\ RowsOf(k) = {}
      BY <2>2, <2>4, <2>5
    <3>2. 1..Len(jtl.rows) = {}
      BY <3>1 DEF RowsOf
    <3>3. \A b \in Bucket : BucketRows(b, Len(jtl.rows)) = {}
      BY <3>2 DEF BucketRows
    <3>4. k # "metric" => stored[k] = {}
      BY <1>0, <3>1
    <3> QED
      BY <1>0, <3>1, <3>3, <3>4
  <2>6. report = "gone" => k \in orphaned
    BY <1>0, <1>3 DEF GenerationParses, ReportInv, GoneInv
  <2> QED
    BY <1>0, <1>1, <1>3, <2>2, <2>3, <2>4, <2>5, <2>6 DEF GenerationParses
<1>4. CASE GenerationFailsToSave(k)
  <2>1. reportFaults' \in 0..MaxReportFault /\ missed' \subseteq Kind /\ k \in missed'
    BY <1>0, <1>4 DEF GenerationFailsToSave
  <2>2. NoGeneration.pc = "none" /\ NoGeneration \in GenerationType
    BY NoTasks
  <2> QED
    BY <1>0, <1>1, <1>4, <2>1, <2>2 DEF GenerationFailsToSave
<1>5. CASE ViewSnapshots(k)
  <2> DEFINE g == [NoGeneration EXCEPT !.pc = "read"]
  <2>1. g \in GenerationType /\ g.pc = "read"
    BY NoTasks DEF GenerationType, GenerationPC
  <2>2. generation' = Scheduled({k}) /\ Idle(k)
    BY <1>5 DEF ViewSnapshots
  <2>3. generation' = [generation EXCEPT ![k] = g]
    BY <1>0, <2>2 DEF Scheduled
  <2>4. views' \in 0..MaxView
    BY <1>0, <1>5 DEF ViewSnapshots
  <2> HIDE DEF g
  <2> QED
    BY <1>0, <1>1, <1>5, <2>1, <2>3, <2>4 DEF ViewSnapshots
<1> QED
  BY <1>2, <1>3, <1>4, <1>5

\* A generation saves what it parsed: rows of the file, and after the run all of
\* them, whatever the tracker left out.
LEMMA GenerationSavesKeeps ==
  ASSUME ReportInv, NEW k \in kinds, GenerationSaves(k)
  PROVE  ReportInv'
<1> DEFINE rows == generation[k].rows
           whole(b) == {r \in rows : jtl.rows[r] = b}
<1>0. /\ generation \in [Kind -> GenerationType] /\ k \in Kind
      /\ published \in [Bucket -> SUBSET Rows]
      /\ stored \in [Kind \ {"metric"} -> SUBSET (Extra \cup Rows)]
      /\ missed \subseteq Kind /\ views \in 0..MaxView
      /\ reportFaults \in 0..MaxReportFault
      /\ \A b \in Bucket : published[b] \subseteq BucketRows(b, Len(jtl.rows))
      /\ \A j \in Kind \ {"metric"} : stored[j] \subseteq RowsOf(j)
      /\ RowsOf(k) \subseteq Extra \cup Rows
      /\ Len(jtl.rows) \in Nat /\ MaxRow \in Nat /\ Len(jtl.rows) <= MaxRow
  BY GenerationFacts
<1>1. /\ generation[k].pc = "save"
      /\ generation' = [generation EXCEPT ![k] = NoGeneration]
      /\ UNCHANGED <<kinds, report, jtl, runner, tracker, missed, orphaned, views,
                     reportFaults>>
      /\ IF k = "metric"
         THEN /\ published' = [b \in Bucket |-> IF whole(b) = {} THEN published[b] ELSE whole(b)]
              /\ UNCHANGED stored
         ELSE stored' = [stored EXCEPT ![k] = rows] /\ UNCHANGED published
  BY DEF GenerationSaves
<1>2. /\ rows \subseteq RowsOf(k)
      /\ runner = "finished" /\ report = "done" /\ k \notin missed => rows = RowsOf(k)
  BY <1>0, <1>1 DEF ReportInv, CountedInv, FinalInv
<1>3. report = "gone" => k \in orphaned
  BY <1>0, <1>1 DEF ReportInv, GoneInv
<1> HIDE DEF rows
<1>4. k = "metric" => \A b \in Bucket :
        /\ whole(b) \subseteq BucketRows(b, Len(jtl.rows))
        /\ rows = RowsOf(k) => whole(b) = BucketRows(b, Len(jtl.rows))
  BY <1>2 DEF BucketRows, RowsOf
<1> HIDE DEF whole
<1>5. /\ published' \in [Bucket -> SUBSET Rows]
      /\ \A b \in Bucket : published'[b] \subseteq BucketRows(b, Len(jtl.rows))
      /\ k = "metric" /\ rows = RowsOf(k) =>
           \A b \in Bucket : published'[b] = BucketRows(b, Len(jtl.rows))
  <2>1. CASE k = "metric"
    <3>1. \A b \in Bucket : published'[b] = IF whole(b) = {} THEN published[b] ELSE whole(b)
      BY <1>1, <2>1
    <3>2. \A b \in Bucket : BucketRows(b, Len(jtl.rows)) \subseteq Rows
      BY <1>0 DEF BucketRows, Rows
    <3>3. \A b \in Bucket : published'[b] \subseteq BucketRows(b, Len(jtl.rows))
      BY <1>0, <1>4, <2>1, <3>1
    <3>4. rows = RowsOf(k) => \A b \in Bucket : published'[b] = BucketRows(b, Len(jtl.rows))
      BY <1>0, <1>4, <2>1, <3>1
    <3>5. published' \in [Bucket -> SUBSET Rows]
      <4>1. published' = [b \in Bucket |-> IF whole(b) = {} THEN published[b] ELSE whole(b)]
        BY <1>1, <2>1
      <4>2. \A b \in Bucket :
              (IF whole(b) = {} THEN published[b] ELSE whole(b)) \in SUBSET Rows
        BY <1>0, <1>4, <2>1, <3>2
      <4> QED
        BY <4>1, <4>2
    <3> QED
      BY <3>3, <3>4, <3>5
  <2>2. CASE k # "metric"
    BY <1>0, <1>1, <2>2
  <2> QED
    BY <2>1, <2>2
<1>6. /\ stored' \in [Kind \ {"metric"} -> SUBSET (Extra \cup Rows)]
      /\ \A j \in Kind \ {"metric"} :
           stored'[j] = IF j = k THEN rows ELSE stored[j]
  <2>1. CASE k = "metric"
    BY <1>0, <1>1, <2>1
  <2>2. CASE k # "metric"
    <3>1. rows \in SUBSET (Extra \cup Rows) /\ stored' = [stored EXCEPT ![k] = rows]
      BY <1>0, <1>1, <1>2, <2>2
    <3> QED
      BY <1>0, <2>2, <3>1
  <2> QED
    BY <2>1, <2>2
<1>7. \A j \in Kind : generation'[j] = IF j = k THEN NoGeneration ELSE generation[j]
  BY <1>0, <1>1
<1>8. NoGeneration.pc = "none" /\ NoGeneration \in GenerationType
  BY NoTasks
<1>9. FinalInv'
  <2> SUFFICES ASSUME runner = "finished", report = "done", NEW j \in kinds \ missed
               PROVE  /\ generation'[j].pc = "save" => generation'[j].rows = RowsOf(j)
                      /\ generation'[j].pc = "none" =>
                           IF j = "metric"
                           THEN \A b \in Bucket :
                                    published'[b] = BucketRows(b, Len(jtl.rows))
                           ELSE stored'[j] = RowsOf(j)
    BY <1>1 DEF FinalInv, BucketRows, RowsOf
  <2>0. j \in Kind
    BY GenerationFacts
  <2>1. CASE j = k
    <3>1. rows = RowsOf(k)
      BY <1>2, <2>1
    <3> QED
      BY <1>5, <1>6, <1>7, <1>8, <2>0, <2>1, <3>1
  <2>2. CASE j # k
    <3>1. generation'[j] = generation[j]
      BY <1>7, <2>0, <2>2
    <3>2. j # "metric" => stored'[j] = stored[j]
      BY <1>6, <2>0, <2>2
    <3>3. j = "metric" => published' = published
      BY <1>1, <2>2
    <3> QED
      BY <3>1, <3>2, <3>3 DEF ReportInv, FinalInv
  <2> QED
    BY <2>1, <2>2
<1>10. GoneInv'
  <2> SUFFICES ASSUME report = "gone"
               PROVE  /\ \A j \in Kind \ orphaned : generation'[j].pc \in {"none", "read"}
                      /\ "metric" \notin orphaned => published' = NoRows /\ tracker.pc # "save"
                      /\ \A j \in Kind \ ({"metric"} \cup orphaned) : stored'[j] = {}
    BY <1>1 DEF GoneInv
  <2>1. k \in orphaned
    BY <1>3
  <2>2. "metric" \notin orphaned => published' = published
    BY <1>1, <2>1
  <2> QED
    BY <1>6, <1>7, <2>1, <2>2 DEF ReportInv, GoneInv
<1>11. \A j \in Kind \ {"metric"} : stored'[j] \subseteq RowsOf(j)
  BY <1>0, <1>2, <1>6
<1> QED
  BY <1>0, <1>1, <1>5, <1>6, <1>8, <1>9, <1>10, <1>11, GenerationMoves

\* The steps of the runner.
LEMMA RunnerKeeps ==
  ASSUME ReportInv,
         \/ JmeterExits \/ TrackerJoined \/ CollectRemoteErrorSamples
         \/ RunnerUpdates \/ RunnerUpdateFails
  PROVE  ReportInv'
<1>0. /\ tracker \in TrackerType /\ jtl \in JtlType /\ reportFaults \in 0..MaxReportFault
      /\ MaxReportFault \in Nat /\ report \in {"running", "done", "gone"}
  BY ReportTypes, GenerationFacts DEF ReportInv
<1>1. ASSUME runner' \in RunnerPC, report' \in {"running", "done", "gone"},
             reportFaults' \in 0..MaxReportFault,
             UNCHANGED <<kinds, jtl, tracker, generation, published, stored, missed,
                         orphaned, views>>,
             report' = "gone" <=> report = "gone",
             FileInv', TrackerInv', runner' # "finished"
      PROVE  ReportInv'
  <2>1. ReportTypeOK'
    BY <1>1, ReportTypes DEF ReportInv, ReportTypeOK
  <2>2. CountedInv' /\ FinalInv' /\ GoneInv'
    BY <1>1 DEF ReportInv, CountedInv, FinalInv, GoneInv, BucketRows, RowsOf
  <2> QED
    BY <1>1, <2>1, <2>2 DEF ReportInv
<1>2. CASE JmeterExits
  <2> DEFINE told == tracker.pc # "none"
             t == [tracker EXCEPT !.stop = told]
  <2>1. told \in BOOLEAN
    OBVIOUS
  <2>2. tracker' = t
    BY <1>2 DEF JmeterExits
  <2>3. /\ t \in TrackerType /\ t.stop = told /\ t.pc = tracker.pc
        /\ t.offset = tracker.offset /\ t.buckets = tracker.buckets
        /\ t.dirty = tracker.dirty /\ t.finalized = tracker.finalized
    <3> HIDE DEF told
    <3> QED
      BY <1>0, <2>1 DEF TrackerType
  <2> HIDE DEF t
  <2>4. /\ runner = "run" /\ runner' = "untrack" /\ jtl.whole = Len(jtl.rows)
        /\ UNCHANGED <<kinds, report, jtl, generation, published, stored, missed,
                       orphaned, views, reportFaults>>
    BY <1>2 DEF JmeterExits
  <2>5. ReportTypeOK'
    BY <2>2, <2>3, <2>4, ReportTypes DEF ReportInv, ReportTypeOK, RunnerPC, TrackerType
  <2>6. FileInv'
    BY <2>4 DEF ReportInv, FileInv
  <2>7. TrackerInv'
    <3>1. tracker'.pc = "save" => tracker'.stop
      BY <2>2, <2>3
    <3> QED
      BY <2>2, <2>3, <2>4, <3>1 DEF ReportInv, TrackerInv, BucketRows
  <2>8. CountedInv' /\ FinalInv' /\ GoneInv'
    BY <2>2, <2>3, <2>4
       DEF ReportInv, CountedInv, FinalInv, GoneInv, BucketRows, RowsOf
  <2> QED
    BY <2>5, <2>6, <2>7, <2>8 DEF ReportInv
<1>3. CASE TrackerJoined
  <2>1. /\ runner = "untrack" /\ runner' = "collect" /\ ~tracker.stop
        /\ UNCHANGED <<kinds, report, jtl, tracker, generation, published, stored,
                       missed, orphaned, views, reportFaults>>
    BY <1>3 DEF TrackerJoined
  <2>2. FileInv' /\ TrackerInv'
    BY <2>1 DEF ReportInv, FileInv, TrackerInv, Exited, BucketRows
  <2> QED
    BY <1>0, <1>1, <2>1, <2>2 DEF RunnerPC
<1>4. CASE CollectRemoteErrorSamples
  <2>0. PICK got \in {FALSE, report # "gone"} : jtl' = [jtl EXCEPT !.remote = got]
    BY <1>4 DEF CollectRemoteErrorSamples
  <2> DEFINE j == [jtl EXCEPT !.remote = got]
  <2>1. got \in BOOLEAN /\ jtl' = j
    BY <2>0
  <2>2. /\ j \in JtlType /\ j.rows = jtl.rows /\ j.whole = jtl.whole
        /\ j.there = jtl.there /\ j.remote = got
    BY <1>0, <2>1 DEF JtlType
  <2> HIDE DEF j
  <2>3. /\ runner = "collect" /\ runner' = "update"
        /\ UNCHANGED <<kinds, report, tracker, generation, published, stored, missed,
                       orphaned, views, reportFaults>>
    BY <1>4 DEF CollectRemoteErrorSamples
  <2>4. ReportTypeOK'
    BY <2>1, <2>2, <2>3, ReportTypes DEF ReportInv, ReportTypeOK, RunnerPC, JtlType
  <2>5. FileInv' /\ TrackerInv'
    <3>2. FileInv'
      BY <2>1, <2>2, <2>3 DEF ReportInv, FileInv, Exited
    <3>3. TrackerInv'
      BY <2>1, <2>2, <2>3 DEF ReportInv, TrackerInv, Exited, BucketRows
    <3> QED
      BY <3>2, <3>3
  <2>6. \A k \in Kind : RowsOf(k) \subseteq RowsOf(k)'
    BY <2>1, <2>2, <2>3 DEF ReportInv, FileInv, RowsOf
  <2>7. CountedInv' /\ FinalInv' /\ GoneInv'
    <3>1. CountedInv'
      BY <2>1, <2>2, <2>3, <2>6 DEF ReportInv, CountedInv, BucketRows
    <3> QED
      BY <2>3, <3>1 DEF ReportInv, FinalInv, GoneInv
  <2> QED
    BY <2>4, <2>5, <2>7 DEF ReportInv
<1>5. CASE RunnerUpdates \/ RunnerUpdateFails
  <2>1. /\ runner = "update" /\ runner' \in {"schedule", "lost"}
        /\ report' \in {"running", "done", "gone"}
        /\ report' = "gone" <=> report = "gone"
        /\ reportFaults' \in 0..MaxReportFault
        /\ UNCHANGED <<kinds, jtl, tracker, generation, published, stored, missed,
                       orphaned, views>>
    <3>1. CASE RunnerUpdates
      BY <1>0, <3>1 DEF RunnerUpdates
    <3>2. CASE RunnerUpdateFails
      BY <1>0, <3>2 DEF RunnerUpdateFails
    <3> QED
      BY <1>5, <3>1, <3>2
  <2>2. FileInv' /\ TrackerInv'
    BY <2>1 DEF ReportInv, FileInv, TrackerInv, Exited, BucketRows
  <2> QED
    BY <1>1, <2>1, <2>2 DEF RunnerPC
<1> QED
  BY <1>2, <1>3, <1>4, <1>5

\* The runner schedules every kind: what it could not schedule is missed, and
\* what is not missed has a generation ahead of it.
LEMMA RunnerSchedulesKeeps ==
  ASSUME ReportInv, RunnerSchedules
  PROVE  ReportInv'
<1> DEFINE g == [NoGeneration EXCEPT !.pc = "read"]
<1>1. g \in GenerationType /\ g.pc = "read"
  BY NoTasks DEF GenerationType, GenerationPC
<1>2. /\ runner = "schedule" /\ runner' = "finished"
      /\ generation' = Scheduled(kinds)
      /\ missed' = {k \in Kind : ~Idle(k)}
      /\ UNCHANGED <<kinds, report, jtl, tracker, published, stored, orphaned, views,
                     reportFaults>>
  BY DEF RunnerSchedules
<1>3. generation \in [Kind -> GenerationType] /\ kinds \subseteq Kind
  BY GenerationFacts
<1>4. \A k \in Kind : generation'[k] = IF k \in kinds /\ Idle(k) THEN g ELSE generation[k]
  BY <1>2 DEF Scheduled
<1>5. generation' \in [Kind -> GenerationType]
  <2>1. generation' = [k \in Kind |-> generation'[k]]
    BY <1>2 DEF Scheduled
  <2> HIDE DEF g
  <2>2. \A k \in Kind : generation'[k] \in GenerationType
    BY <1>1, <1>3, <1>4
  <2> QED
    BY <2>1, <2>2
<1> HIDE DEF g
<1>6. ReportTypeOK'
  BY <1>2, <1>5, ReportTypes DEF ReportInv, ReportTypeOK, RunnerPC, GenerationType
<1>7. FileInv' /\ TrackerInv'
  BY <1>2 DEF ReportInv, FileInv, TrackerInv, Exited, BucketRows
<1>8. CountedInv'
  BY <1>1, <1>2, <1>4 DEF ReportInv, CountedInv, BucketRows, RowsOf
<1>9. FinalInv'
  <2>1. \A k \in kinds \ missed' : generation'[k].pc = "read"
    BY <1>1, <1>2, <1>3, <1>4
  <2> QED
    BY <1>2, <2>1 DEF FinalInv
<1>10. GoneInv'
  BY <1>1, <1>2, <1>4 DEF ReportInv, GoneInv
<1> QED
  BY <1>6, <1>7, <1>8, <1>9, <1>10 DEF ReportInv

\* A stop request, the deletion of the report, and a restart.
LEMMA ReportKeeps ==
  ASSUME ReportInv, StopMarksReport \/ CleanReport \/ ApiRestarts
  PROVE  ReportInv'
<1>0. /\ jtl \in JtlType /\ reportFaults \in 0..MaxReportFault /\ MaxReportFault \in Nat
      /\ report \in {"running", "done", "gone"} /\ missed \subseteq Kind
  BY ReportTypes, GenerationFacts DEF ReportInv
<1>1. CASE StopMarksReport
  <2>1. /\ runner = "run" /\ report = "running" /\ report' = "done"
        /\ UNCHANGED <<kinds, jtl, runner, tracker, generation, published, stored,
                       missed, orphaned, views, reportFaults>>
    BY <1>1 DEF StopMarksReport
  <2>2. ReportTypeOK'
    BY <2>1, ReportTypes DEF ReportInv, ReportTypeOK
  <2>3. FileInv' /\ TrackerInv' /\ CountedInv' /\ FinalInv' /\ GoneInv'
    BY <2>1 DEF ReportInv, FileInv, TrackerInv, CountedInv, FinalInv, GoneInv,
                Exited, BucketRows, RowsOf
  <2> QED
    BY <2>2, <2>3 DEF ReportInv
<1>2. CASE CleanReport
  <2>1. /\ report = "done" /\ report' = "gone" /\ published' = NoRows
        /\ stored' = [k \in Kind \ {"metric"} |-> {}]
        /\ jtl' = [jtl EXCEPT !.there = FALSE]
        /\ orphaned' = {k \in Kind : ~Idle(k)} \cup
                       (IF tracker.pc = "save" THEN {"metric"} ELSE {})
        /\ UNCHANGED <<kinds, runner, tracker, generation, missed, views, reportFaults>>
    BY <1>2 DEF CleanReport
  <2>2. /\ jtl' \in JtlType /\ jtl'.rows = jtl.rows /\ jtl'.whole = jtl.whole
        /\ ~jtl'.there
    BY <1>0, <2>1 DEF JtlType
  <2>3. ReportTypeOK'
    <3>1. orphaned' \subseteq Kind
      BY <2>1 DEF Kind
    <3>2. stored' \in [Kind \ {"metric"} -> SUBSET (Extra \cup Rows)]
      BY <2>1
    <3> QED
      BY <2>1, <2>2, <3>1, <3>2, NoTasks, ReportTypes
         DEF ReportInv, ReportTypeOK, JtlType
  <2>4. FileInv' /\ TrackerInv'
    BY <2>1, <2>2 DEF ReportInv, FileInv, TrackerInv, Exited, BucketRows
  <2>5. CountedInv'
    BY <2>1, <2>2 DEF ReportInv, CountedInv, NoRows, RowsOf
  <2>6. FinalInv'
    BY <2>1 DEF FinalInv
  <2>7. GoneInv'
    <3>1. \A k \in Kind \ orphaned' : generation'[k].pc = "none"
      BY <2>1 DEF Idle
    <3>2. "metric" \notin orphaned' => tracker'.pc # "save"
      BY <2>1
    <3> QED
      BY <2>1, <3>1, <3>2 DEF GoneInv
  <2> QED
    BY <2>3, <2>4, <2>5, <2>6, <2>7 DEF ReportInv
<1>3. CASE ApiRestarts
  <2>1. /\ report' \in {"running", "done", "gone"}
        /\ report' = "gone" <=> report = "gone"
        /\ reportFaults' \in 0..MaxReportFault
        /\ runner' = "lost" /\ tracker' = NoTracker
        /\ generation' = [k \in Kind |-> NoGeneration]
        /\ missed' \subseteq Kind
        /\ UNCHANGED <<kinds, jtl, published, stored, orphaned, views>>
    BY <1>0, <1>3 DEF ApiRestarts
  <2>2. ReportTypeOK'
    <3>1. generation' \in [Kind -> GenerationType]
      BY <2>1, NoTasks
    <3> QED
      BY <2>1, <3>1, NoTasks, ReportTypes
         DEF ReportInv, ReportTypeOK, RunnerPC, GenerationType, TrackerType
  <2>3. FileInv'
    BY <2>1 DEF ReportInv, FileInv, Exited
  <2>4. TrackerInv'
    <3>1. \A b \in Bucket : {r \in 1..0 : jtl.rows[r] = b} = {} /\ NoRows[b] = {}
      BY DEF NoRows
    <3>2. jtl.whole \in Nat
      BY <1>0, ReportAssumption DEF JtlType
    <3> QED
      BY <2>1, <3>1, <3>2, NoTasks DEF TrackerInv, BucketRows, Exited
  <2>5. CountedInv' /\ FinalInv' /\ GoneInv'
    BY <2>1, NoTasks DEF ReportInv, CountedInv, FinalInv, GoneInv, BucketRows, RowsOf
  <2> QED
    BY <2>2, <2>3, <2>4, <2>5 DEF ReportInv
<1> QED
  BY <1>1, <1>2, <1>3

LEMMA ReportStep == ReportInv /\ [ReportNext]_reportVars => ReportInv'
<1> SUFFICES ASSUME ReportInv, [ReportNext]_reportVars PROVE ReportInv'
  OBVIOUS
<1>1. CASE UNCHANGED reportVars
  <2>1. ReportTypeOK'
    BY <1>1 DEF ReportInv, ReportTypeOK, reportVars
  <2>2. FileInv' /\ TrackerInv' /\ CountedInv' /\ FinalInv' /\ GoneInv'
    BY <1>1 DEF ReportInv, FileInv, TrackerInv, CountedInv, FinalInv, GoneInv,
                BucketRows, RowsOf, reportVars
  <2> QED
    BY <2>1, <2>2 DEF ReportInv
<1>2. CASE ReportNext
  <2>1. CASE RowBegins \/ RowEnds
    BY <2>1, JmeterKeeps
  <2>2. CASE TrackerStep \/ TrackerSaveFails \/ ViewRunningMetrics
    BY <2>2, TrackerKeeps, TrackerSavesKeeps DEF TrackerStep
  <2>3. CASE \E k \in kinds :
               GenerationStep(k) \/ GenerationFailsToSave(k) \/ ViewSnapshots(k)
    <3>1. PICK k \in kinds :
            GenerationStep(k) \/ GenerationFailsToSave(k) \/ ViewSnapshots(k)
      BY <2>3
    <3> QED
      BY <3>1, GenerationKeeps, GenerationSavesKeeps DEF GenerationStep
  <2>4. CASE StopMarksReport \/ CleanReport \/ ApiRestarts
    BY <2>4, ReportKeeps
  <2>5. CASE JmeterExits \/ RunnerStep \/ RunnerUpdateFails
    BY <2>5, RunnerKeeps, RunnerSchedulesKeeps DEF RunnerStep
  <2> QED
    BY <1>2, <2>1, <2>2, <2>3, <2>4, <2>5 DEF ReportNext
<1> QED
  BY <1>1, <1>2

\* Once the runner is done and nothing is in flight, every snapshot whose last
\* generation was not refused or lost was computed from every row of the run, and
\* from the slaves' error samples if _collect_remote_error_samples got them: the
\* whole-file generations make good what _parse_incremental_jtl_metrics left out.
THEOREM SnapshotsComplete == ReportSpec => []SnapshotsFinal
<1>1. ReportInv => SnapshotsFinal
  <2> SUFFICES ASSUME ReportInv, runner = "finished", report = "done",
                      \A k \in kinds : Idle(k)
               PROVE  /\ "metric" \in kinds \ missed =>
                           published = [b \in Bucket |->
                                           {r \in 1..jtl.whole : jtl.rows[r] = b}]
                      /\ "curve" \in kinds \ missed => stored["curve"] = 1..jtl.whole
                      /\ "transaction" \in kinds \ missed =>
                           stored["transaction"] = {Frame} \cup 1..jtl.whole
                      /\ "error" \in kinds \ missed =>
                           stored["error"] = {Frame} \cup 1..jtl.whole
                               \cup (IF jtl.remote THEN {Remote} ELSE {})
    BY DEF SnapshotsFinal
  <2>1. jtl.whole = Len(jtl.rows)
    BY DEF ReportInv, FileInv, Exited
  <2>2. \A k \in kinds \ missed :
          IF k = "metric" THEN \A b \in Bucket : published[b] = BucketRows(b, Len(jtl.rows))
          ELSE stored[k] = RowsOf(k)
    BY DEF ReportInv, FinalInv, Idle
  <2>3. "metric" \in kinds \ missed =>
          published = [b \in Bucket |-> {r \in 1..jtl.whole : jtl.rows[r] = b}]
    BY <2>1, <2>2, GenerationFacts DEF BucketRows
  <2>4. /\ RowsOf("curve") = 1..jtl.whole
        /\ RowsOf("transaction") = {Frame} \cup 1..jtl.whole
        /\ RowsOf("error") = {Frame} \cup 1..jtl.whole
                                \cup (IF jtl.remote THEN {Remote} ELSE {})
    BY <2>1 DEF RowsOf
  <2> QED
    BY <2>2, <2>3, <2>4
<1> QED
  BY <1>1, ReportInitInv, ReportStep, PTL DEF ReportSpec

\* After clean_report nothing of the report is left in the database, save what a
\* task that was in flight at the deletion stores after it.
THEOREM DeletionIsClean == ReportSpec => []DeletionLeavesNothing
<1>1. ReportInv => DeletionLeavesNothing
  BY DEF ReportInv, GoneInv, DeletionLeavesNothing
<1> QED
  BY <1>1, ReportInitInv, ReportStep, PTL DEF ReportSpec

\* A point of the live curve loses a row the tracker has read only to a
\* whole-file generation or to the deletion: _ack_incremental_jtl_metrics drops
\* no bucket that a later read could open again without its rows.
THEOREM LiveCurveOnlyGrows == ReportSpec => LiveCurveGrows
<1> DEFINE Grows == \A b \in Bucket :
                \/ published[b] \ published'[b] \subseteq tracker.offset + 1 .. MaxRow
                \/ generation["metric"].pc = "save"
                \/ report' = "gone"
<1>1. ReportInv /\ [ReportNext]_reportVars => [Grows]_reportVars
  <2> SUFFICES ASSUME ReportInv, ReportNext PROVE Grows
    OBVIOUS
  <2>1. CASE UNCHANGED published
    BY <2>1
  <2>2. CASE TrackerSaves
    <3> SUFFICES ASSUME NEW b \in Bucket
                 PROVE  published[b] \ published'[b] \subseteq tracker.offset + 1 .. MaxRow
      OBVIOUS
    <3>1. published'[b] = IF b \in tracker.dirty THEN tracker.buckets[b] ELSE published[b]
      BY <2>2 DEF TrackerSaves
    <3>2. CASE b \in tracker.dirty
      <4>1. tracker.buckets[b] = {r \in 1..tracker.offset : jtl.rows[r] = b}
        BY <3>2 DEF ReportInv, TrackerInv, BucketRows
      <4>2. published[b] \subseteq {r \in 1..Len(jtl.rows) : jtl.rows[r] = b}
        BY GenerationFacts DEF BucketRows
      <4>3. tracker.offset \in Nat /\ Len(jtl.rows) \in Nat /\ MaxRow \in Nat
            /\ Len(jtl.rows) <= MaxRow
        BY GenerationFacts, ReportTypes DEF ReportInv, TrackerType
      <4> QED
        BY <3>1, <3>2, <4>1, <4>2, <4>3
    <3> QED
      BY <3>1, <3>2
  <2>3. CASE CleanReport
    BY <2>3 DEF CleanReport
  <2>4. CASE \E k \in kinds : GenerationSaves(k)
    <3>1. PICK k \in kinds : GenerationSaves(k)
      BY <2>4
    <3>2. CASE k = "metric"
      BY <3>1, <3>2 DEF GenerationSaves
    <3>3. CASE k # "metric"
      BY <2>1, <3>1, <3>3 DEF GenerationSaves
    <3> QED
      BY <3>2, <3>3
  <2>5. CASE \E k \in kinds : \/ GenerationReads(k) \/ GenerationParses(k)
                              \/ GenerationFailsToSave(k) \/ ViewSnapshots(k)
    BY <2>1, <2>5 DEF GenerationReads, GenerationParses, GenerationFailsToSave, ViewSnapshots
  <2>6. CASE \/ RowBegins \/ RowEnds \/ TrackerPolls \/ TrackerReads \/ TrackerSaveFails
             \/ ViewRunningMetrics \/ StopMarksReport \/ JmeterExits \/ TrackerJoined
             \/ CollectRemoteErrorSamples \/ RunnerUpdates \/ RunnerSchedules
             \/ RunnerUpdateFails \/ ApiRestarts
    BY <2>1, <2>6 DEF RowBegins, RowEnds, TrackerPolls, TrackerReads, TrackerSaveFails,
         ViewRunningMetrics, StopMarksReport, JmeterExits, TrackerJoined,
         CollectRemoteErrorSamples, RunnerUpdates, RunnerSchedules, RunnerUpdateFails,
         ApiRestarts
  <2> HIDE DEF Grows
  <2> QED
    BY <2>2, <2>3, <2>4, <2>5, <2>6
       DEF ReportNext, TrackerStep, GenerationStep, RunnerStep
<1>2. ReportSpec => [][Grows]_reportVars
  <2> HIDE DEF Grows
  <2> QED
    BY <1>1, ReportInitInv, ReportStep, PTL DEF ReportSpec
<1> QED
  BY <1>2 DEF LiveCurveGrows

-----------------------------------------------------------------------------
(* Sums over finite sets *)

\* What has {} and, with each set, the set with one element more, has all sets.
LEMMA FiniteInduction ==
  ASSUME NEW S, IsFiniteSet(S), NEW P, P \subseteq SUBSET S, {} \in P,
         \A s \in P : \A x \in S \ s : s \cup {x} \in P
  PROVE  S \in P
<1> DEFINE T == {n \in Nat : \A s \in SUBSET S : Cardinality(s) = n => s \in P}
<1>1. 0 \in T
  BY FS_EmptySet, FS_Subset
<1>2. ASSUME NEW n \in T PROVE n + 1 \in T
  <2>1. ASSUME NEW s \in SUBSET S, Cardinality(s) = n + 1 PROVE s \in P
    <3>1. IsFiniteSet(s) /\ s # {}
      BY <2>1, FS_Subset, FS_EmptySet
    <3>2. PICK x \in s : TRUE
      BY <3>1
    <3>3. n \in Nat /\ Cardinality(s \ {x}) = n
      <4>1. Cardinality(s \ {x}) = Cardinality(s) - 1
        BY <3>1, <3>2, FS_RemoveElement
      <4> QED
        BY <2>1, <4>1
    <3>4. s \ {x} \in P /\ x \in S \ (s \ {x})
      BY <3>2, <3>3
    <3>5. (s \ {x}) \cup {x} = s
      BY <3>2
    <3> QED
      BY <3>4, <3>5
  <2> QED
    BY <2>1
<1>3. T \subseteq Nat
  OBVIOUS
<1>4. S \in SUBSET S /\ Cardinality(S) \in Nat
  BY FS_CardinalityType
<1> HIDE DEF T
<1>5. \A n \in T : n + 1 \in T
  BY <1>2
<1>6. T = Nat
  BY <1>1, <1>3, <1>5, Induction
<1> QED
  BY <1>4, <1>6 DEF T

\* Selection one element at a time, a fold over a finite set has a result.
Folded(S, V, base, step, pick) ==
  \E it \in [SUBSET S -> V] : \A s \in SUBSET S :
    it[s] = IF s = {} THEN base ELSE step[<<pick[s], it[s \ {pick[s]}]>>]

LEMMA Recursion ==
  ASSUME NEW S, IsFiniteSet(S), NEW V, NEW base \in V, NEW step \in [S \X V -> V],
         NEW pick, \A s \in (SUBSET S) \ {{}} : pick[s] \in s
  PROVE  Folded(S, V, base, step, pick)
<1> DEFINE Right(it, s) ==
      it[s] = IF s = {} THEN base ELSE step[<<pick[s], it[s \ {pick[s]}]>>]
<1> DEFINE T == {n \in Nat : \E it \in [SUBSET S -> V] : \A s \in SUBSET S :
                   Cardinality(s) <= n => Right(it, s)}
<1>0. \A s \in SUBSET S : IsFiniteSet(s) /\ Cardinality(s) \in Nat
  BY FS_Subset, FS_CardinalityType
<1>1. 0 \in T
  <2> DEFINE z == [s \in SUBSET S |-> base]
  <2>1. ASSUME NEW s \in SUBSET S, Cardinality(s) <= 0 PROVE Right(z, s)
    <3>1. s = {}
      BY <1>0, <2>1, FS_EmptySet
    <3> QED
      BY <3>1
  <2>2. z \in [SUBSET S -> V]
    OBVIOUS
  <2> HIDE DEF z
  <2> QED
    BY <2>1, <2>2
<1>2. ASSUME NEW n \in T PROVE n + 1 \in T
  <2>1. PICK it \in [SUBSET S -> V] : \A s \in SUBSET S : Cardinality(s) <= n => Right(it, s)
    OBVIOUS
  <2> DEFINE z == [s \in SUBSET S |->
                     IF s = {} THEN base ELSE step[<<pick[s], it[s \ {pick[s]}]>>]]
  <2>2. ASSUME NEW s \in SUBSET S, s # {}
        PROVE  pick[s] \in S /\ s \ {pick[s]} \in SUBSET S /\ it[s \ {pick[s]}] \in V
    BY <2>2
  <2>3. z \in [SUBSET S -> V]
    BY <2>2
  <2>4. ASSUME NEW s \in SUBSET S, Cardinality(s) <= n + 1 PROVE Right(z, s)
    <3>1. CASE s = {}
      BY <3>1
    <3>2. CASE s # {}
      <4> DEFINE r == s \ {pick[s]}
      <4>1. r \in SUBSET S
        BY <3>2
      <4>2. Cardinality(r) = Cardinality(s) - 1
        BY <1>0, <3>2, FS_RemoveElement
      <4>3. Cardinality(r) <= n
        BY <1>0, <2>4, <4>2
      <4>4. it[r] = z[r]
        BY <2>1, <4>1, <4>3
      <4>5. z[s] = step[<<pick[s], it[r]>>]
        BY <3>2
      <4> HIDE DEF z
      <4> QED
        BY <3>2, <4>4, <4>5
    <3> QED
      BY <3>1, <3>2
  <2> HIDE DEF z
  <2>5. n + 1 \in Nat
    OBVIOUS
  <2> QED
    BY <2>3, <2>4, <2>5
<1>3. T \subseteq Nat
  OBVIOUS
<1> HIDE DEF T
<1>4. \A n \in T : n + 1 \in T
  BY <1>2
<1>6. T = Nat
  BY <1>1, <1>3, <1>4, Induction
<1>5. PICK it \in [SUBSET S -> V] :
        \A s \in SUBSET S : Cardinality(s) <= Cardinality(S) => Right(it, s)
  <2> HIDE DEF Right
  <2>1. Cardinality(S) \in T
    BY <1>0, <1>6
  <2> QED
    BY <2>1, Zenon DEF T
<1>7. \A s \in SUBSET S : Cardinality(s) <= Cardinality(S)
  BY FS_Subset
<1>8. \A s \in SUBSET S : Right(it, s)
  BY <1>5, <1>7
<1> QED
  BY <1>8 DEF Folded

Sum(f, S) == MapThenSumSet(LAMBDA x : f[x], S)

\* A sum taken one element at a time, as the fold takes them.
Sums(it, f, S) ==
  it = [s \in SUBSET S |->
         IF s = {} THEN 0
         ELSE f[CHOOSE x \in s : TRUE] + it[s \ {CHOOSE x \in s : TRUE}]]

LEMMA SumsExist ==
  ASSUME NEW S, IsFiniteSet(S), NEW f, \A x \in S : f[x] \in Nat
  PROVE  \E it \in [SUBSET S -> Nat] : Sums(it, f, S)
<1> DEFINE pick == [s \in (SUBSET S) \ {{}} |-> CHOOSE x \in s : TRUE]
           step == [p \in S \X Nat |-> f[p[1]] + p[2]]
<1>1. step \in [S \X Nat -> Nat]
  OBVIOUS
<1>2. \A s \in (SUBSET S) \ {{}} : pick[s] \in s /\ pick[s] = CHOOSE x \in s : TRUE
  OBVIOUS
<1>3. \A x \in S, n \in Nat : step[<<x, n>>] = f[x] + n
  OBVIOUS
<1> HIDE DEF pick, step
<1>4. PICK it \in [SUBSET S -> Nat] : \A s \in SUBSET S :
        it[s] = IF s = {} THEN 0 ELSE step[<<pick[s], it[s \ {pick[s]}]>>]
  <2>1. 0 \in Nat /\ \A s \in (SUBSET S) \ {{}} : pick[s] \in s
    BY <1>2
  <2>2. Folded(S, Nat, 0, step, pick)
    BY <1>1, <2>1, Recursion
  <2> QED
    BY <2>2 DEF Folded
<1>5. ASSUME NEW s \in SUBSET S
      PROVE  it[s] = IF s = {} THEN 0
                     ELSE f[CHOOSE x \in s : TRUE] + it[s \ {CHOOSE x \in s : TRUE}]
  <2>1. CASE s = {}
    BY <1>4, <2>1
  <2>2. CASE s # {}
    <3>1. pick[s] \in S /\ s \ {pick[s]} \in SUBSET S /\ it[s \ {pick[s]}] \in Nat
      BY <1>2, <2>2
    <3>2. step[<<pick[s], it[s \ {pick[s]}]>>] = f[pick[s]] + it[s \ {pick[s]}]
      BY <1>3, <3>1
    <3> QED
      BY <1>2, <1>4, <2>2, <3>2
  <2> QED
    BY <2>1, <2>2
<1> DEFINE z == [s \in SUBSET S |->
                   IF s = {} THEN 0
                   ELSE f[CHOOSE x \in s : TRUE] + it[s \ {CHOOSE x \in s : TRUE}]]
<1>6. \A s \in SUBSET S : it[s] = z[s]
  BY <1>5
<1>7. z = [s \in SUBSET S |-> z[s]]
  OBVIOUS
<1> HIDE DEF z
<1>8. it = z
  BY <1>6, <1>7
<1> QED
  BY <1>8, Zenon DEF Sums, z

\* Two folds of the same numbers agree on the subsets they share.
LEMMA SumsAgree ==
  ASSUME NEW S, IsFiniteSet(S), NEW f, NEW it, Sums(it, f, S),
         NEW T, S \subseteq T, NEW at, Sums(at, f, T)
  PROVE  it[S] = at[S]
<1> DEFINE N == {n \in Nat : \A s \in SUBSET S : Cardinality(s) <= n => it[s] = at[s]}
<1>0. \A s \in SUBSET S : IsFiniteSet(s) /\ Cardinality(s) \in Nat
  BY FS_Subset, FS_CardinalityType
<1>a. \A s \in SUBSET S :
        it[s] = IF s = {} THEN 0
                ELSE f[CHOOSE x \in s : TRUE] + it[s \ {CHOOSE x \in s : TRUE}]
  <2> DEFINE z == [s \in SUBSET S |->
                     IF s = {} THEN 0
                     ELSE f[CHOOSE x \in s : TRUE] + it[s \ {CHOOSE x \in s : TRUE}]]
  <2>1. it = z
    BY DEF Sums
  <2>2. \A s \in SUBSET S : z[s] =
          IF s = {} THEN 0
          ELSE f[CHOOSE x \in s : TRUE] + it[s \ {CHOOSE x \in s : TRUE}]
    OBVIOUS
  <2> HIDE DEF z
  <2> QED
    BY <2>1, <2>2
<1>b. \A s \in SUBSET S :
        at[s] = IF s = {} THEN 0
                ELSE f[CHOOSE x \in s : TRUE] + at[s \ {CHOOSE x \in s : TRUE}]
  <2> DEFINE z == [s \in SUBSET T |->
                     IF s = {} THEN 0
                     ELSE f[CHOOSE x \in s : TRUE] + at[s \ {CHOOSE x \in s : TRUE}]]
  <2>1. at = z
    BY DEF Sums
  <2>2. \A s \in SUBSET S : z[s] =
          IF s = {} THEN 0
          ELSE f[CHOOSE x \in s : TRUE] + at[s \ {CHOOSE x \in s : TRUE}]
    OBVIOUS
  <2> HIDE DEF z
  <2> QED
    BY <2>1, <2>2
<1>1. 0 \in N
  <2>1. \A s \in SUBSET S : Cardinality(s) <= 0 => s = {}
    BY <1>0, FS_EmptySet
  <2> QED
    BY <1>a, <1>b, <2>1
<1>2. ASSUME NEW n \in N PROVE n + 1 \in N
  <2>1. ASSUME NEW s \in SUBSET S, Cardinality(s) <= n + 1 PROVE it[s] = at[s]
    <3>1. CASE s = {}
      BY <1>a, <1>b, <3>1
    <3>2. CASE s # {}
      <4> DEFINE x == CHOOSE x \in s : TRUE
      <4>1. x \in s
        BY <3>2
      <4>2. it[s] = f[x] + it[s \ {x}] /\ at[s] = f[x] + at[s \ {x}]
        BY <1>a, <1>b, <3>2
      <4> HIDE DEF x
      <4>3. Cardinality(s \ {x}) = Cardinality(s) - 1
        BY <1>0, <4>1, FS_RemoveElement
      <4>4. n \in Nat /\ Cardinality(s) \in Nat /\ s \ {x} \in SUBSET S
        BY <1>0
      <4>5. it[s \ {x}] = at[s \ {x}]
        BY <2>1, <4>3, <4>4
      <4> QED
        BY <4>2, <4>5
    <3> QED
      BY <3>1, <3>2
  <2> QED
    BY <2>1
<1>3. N \subseteq Nat
  OBVIOUS
<1> HIDE DEF N
<1>4. \A n \in N : n + 1 \in N
  BY <1>2
<1>5. N = Nat
  BY <1>1, <1>3, <1>4, Induction
<1>6. S \in SUBSET S /\ Cardinality(S) \in N
  BY <1>0, <1>5
<1> QED
  BY <1>0, <1>6 DEF N

\* A sum is the end of its fold.
LEMMA SumFolds ==
  ASSUME NEW S, IsFiniteSet(S), NEW f, \A x \in S : f[x] \in Nat
  PROVE  \E it \in [SUBSET S -> Nat] : Sums(it, f, S) /\ Sum(f, S) = it[S]
<1> DEFINE c == CHOOSE it : Sums(it, f, S)
<1>1. PICK it \in [SUBSET S -> Nat] : Sums(it, f, S)
  BY SumsExist
<1>2. Sums(c, f, S)
  BY <1>1
<1>3. Sum(f, S) = c[S]
  BY DEF Sum, MapThenSumSet, MapThenFoldSet, Sums
<1> HIDE DEF c
<1>4. c[S] = it[S]
  BY <1>1, <1>2, SumsAgree
<1> QED
  BY <1>1, <1>3, <1>4

\* In whichever order the elements are taken.
TakesAny(it, f, S) ==
  /\ it[{}] = 0
  /\ \A s \in SUBSET S : \A x \in s : it[s] = f[x] + it[s \ {x}]

LEMMA SumsTakeAny ==
  ASSUME NEW S, IsFiniteSet(S), NEW f, \A x \in S : f[x] \in Nat,
         NEW it \in [SUBSET S -> Nat], Sums(it, f, S)
  PROVE  TakesAny(it, f, S)
<1> DEFINE N == {n \in Nat : \A s \in SUBSET S : Cardinality(s) <= n =>
                   \A x \in s : it[s] = f[x] + it[s \ {x}]}
<1>0. \A s \in SUBSET S : IsFiniteSet(s) /\ Cardinality(s) \in Nat
  BY FS_Subset, FS_CardinalityType
<1>a. \A s \in SUBSET S :
        it[s] = IF s = {} THEN 0
                ELSE f[CHOOSE x \in s : TRUE] + it[s \ {CHOOSE x \in s : TRUE}]
  <2> DEFINE z == [s \in SUBSET S |->
                     IF s = {} THEN 0
                     ELSE f[CHOOSE x \in s : TRUE] + it[s \ {CHOOSE x \in s : TRUE}]]
  <2>1. it = z
    BY DEF Sums
  <2>2. \A s \in SUBSET S : z[s] =
          IF s = {} THEN 0
          ELSE f[CHOOSE x \in s : TRUE] + it[s \ {CHOOSE x \in s : TRUE}]
    OBVIOUS
  <2> HIDE DEF z
  <2> QED
    BY <2>1, <2>2
<1>1. 0 \in N
  <2>1. \A s \in SUBSET S : Cardinality(s) <= 0 => s = {}
    BY <1>0, FS_EmptySet
  <2> QED
    BY <2>1
<1>2. ASSUME NEW n \in N PROVE n + 1 \in N
  <2>1. ASSUME NEW s \in SUBSET S, Cardinality(s) <= n + 1, NEW x \in s
        PROVE  it[s] = f[x] + it[s \ {x}]
    <3> DEFINE c == CHOOSE y \in s : TRUE
    <3>1. c \in s /\ it[s] = f[c] + it[s \ {c}]
      BY <1>a
    <3> HIDE DEF c
    <3>2. CASE c = x
      BY <3>1, <3>2
    <3>3. CASE c # x
      <4>1. /\ Cardinality(s \ {c}) = Cardinality(s) - 1
            /\ Cardinality(s \ {x}) = Cardinality(s) - 1
        BY <1>0, <3>1, FS_RemoveElement
      <4>2. n \in Nat /\ Cardinality(s) \in Nat
        BY <1>0
      <4>3. Cardinality(s \ {c}) <= n /\ Cardinality(s \ {x}) <= n
        BY <2>1, <4>1, <4>2
      <4>4. s \ {c} \in SUBSET S /\ s \ {x} \in SUBSET S /\ x \in s \ {c} /\ c \in s \ {x}
        BY <3>1, <3>3
      <4>5. /\ it[s \ {c}] = f[x] + it[(s \ {c}) \ {x}]
            /\ it[s \ {x}] = f[c] + it[(s \ {x}) \ {c}]
        BY <4>3, <4>4
      <4>6. (s \ {c}) \ {x} = (s \ {x}) \ {c} /\ (s \ {x}) \ {c} \in SUBSET S
        OBVIOUS
      <4> DEFINE k == it[(s \ {x}) \ {c}]
      <4>7. f[x] \in Nat /\ f[c] \in Nat /\ k \in Nat
        BY <3>1, <4>6
      <4>8. it[s \ {c}] = f[x] + k /\ it[s \ {x}] = f[c] + k
        BY <4>5, <4>6
      <4> HIDE DEF k
      <4> QED
        BY <3>1, <4>7, <4>8
    <3> QED
      BY <3>2, <3>3
  <2> QED
    BY <2>1
<1>3. N \subseteq Nat
  OBVIOUS
<1>4. it[{}] = 0
  BY <1>a
<1> HIDE DEF N
<1>5. \A n \in N : n + 1 \in N
  BY <1>2
<1>6. N = Nat
  BY <1>1, <1>3, <1>5, Induction
<1>7. ASSUME NEW s \in SUBSET S PROVE \A x \in s : it[s] = f[x] + it[s \ {x}]
  <2>1. Cardinality(s) \in N /\ Cardinality(s) <= Cardinality(s)
    BY <1>0, <1>6
  <2> QED
    BY <2>1 DEF N
<1> QED
  BY <1>4, <1>7 DEF TakesAny

LEMMA SumOfNone ==
  ASSUME NEW f
  PROVE  Sum(f, {}) = 0
<1>1. IsFiniteSet({})
  BY FS_EmptySet
<1>2. PICK it \in [SUBSET {} -> Nat] : Sums(it, f, {}) /\ Sum(f, {}) = it[{}]
  BY <1>1, SumFolds
<1> QED
  BY <1>1, <1>2, SumsTakeAny DEF TakesAny

LEMMA SumWith ==
  ASSUME NEW S, IsFiniteSet(S), NEW x, x \notin S, NEW f,
         \A y \in S \cup {x} : f[y] \in Nat
  PROVE  Sum(f, S) \in Nat /\ Sum(f, S \cup {x}) = f[x] + Sum(f, S)
<1> DEFINE T == S \cup {x}
<1>1. IsFiniteSet(T)
  BY FS_AddElement
<1>2. PICK it \in [SUBSET S -> Nat] : Sums(it, f, S) /\ Sum(f, S) = it[S]
  BY SumFolds
<1>3. T \ {x} = S /\ S \subseteq T /\ x \in T /\ T \in SUBSET T /\ \A y \in T : f[y] \in Nat
  OBVIOUS
<1> HIDE DEF T
<1>4. PICK at \in [SUBSET T -> Nat] : Sums(at, f, T) /\ Sum(f, T) = at[T]
  BY <1>1, <1>3, SumFolds
<1>5. it[S] = at[S]
  BY <1>2, <1>3, <1>4, SumsAgree
<1>6. at[T] = f[x] + at[T \ {x}]
  <2>1. \A y \in T : f[y] \in Nat
    BY <1>3
  <2>2. TakesAny(at, f, T)
    BY <1>1, <1>4, <2>1, SumsTakeAny
  <2> QED
    BY <1>3, <2>2 DEF TakesAny
<1>7. Sum(f, S) \in Nat
  BY <1>2
<1>8. Sum(f, T) = f[x] + Sum(f, S)
  BY <1>2, <1>3, <1>4, <1>5, <1>6
<1> QED
  BY <1>7, <1>8 DEF T

LEMMA SumTimes ==
  ASSUME NEW S, IsFiniteSet(S), NEW f, NEW g, NEW k \in Nat,
         \A x \in S : f[x] \in Nat /\ g[x] = f[x] * k
  PROVE  /\ Sum(f, S) \in Nat
         /\ Sum(g, S) = Sum(f, S) * k
         /\ \A x \in S : f[x] > 0 => Sum(f, S) > 0
<1> DEFINE P == {s \in SUBSET S : /\ Sum(f, s) \in Nat
                                  /\ Sum(g, s) = Sum(f, s) * k
                                  /\ \A x \in s : f[x] > 0 => Sum(f, s) > 0}
<1>1. {} \in P
  BY SumOfNone
<1>2. ASSUME NEW s \in P, NEW x \in S \ s PROVE s \cup {x} \in P
  <2> DEFINE a == Sum(f, s)
             b == f[x]
  <2>1. s \cup {x} \in SUBSET S /\ IsFiniteSet(s) /\ \A y \in s \cup {x} : f[y] \in Nat
    BY FS_Subset
  <2>2. \A y \in s \cup {x} : g[y] \in Nat
    BY <2>1
  <2>3. Sum(f, s \cup {x}) = b + a
    BY <2>1, SumWith
  <2>4. Sum(g, s \cup {x}) = g[x] + Sum(g, s)
    BY <2>1, <2>2, SumWith
  <2>5. a \in Nat /\ Sum(g, s) = a * k /\ b \in Nat /\ g[x] = b * k
    OBVIOUS
  <2>6. \A y \in s : f[y] > 0 => a > 0
    OBVIOUS
  <2> HIDE DEF a, b
  <2>7. b * k + a * k = (b + a) * k
    BY <2>5
  <2>8. Sum(f, s \cup {x}) \in Nat /\ Sum(g, s \cup {x}) = Sum(f, s \cup {x}) * k
    BY <2>3, <2>4, <2>5, <2>7
  <2>9. ASSUME NEW y \in s \cup {x}, f[y] > 0 PROVE Sum(f, s \cup {x}) > 0
    <3>1. y \in s => a > 0
      BY <2>6, <2>9
    <3>2. y = x => b > 0
      BY <2>9 DEF b
    <3> QED
      BY <2>3, <2>5, <3>1, <3>2
  <2> QED
    BY <2>1, <2>8, <2>9
<1>3. P \subseteq SUBSET S
  OBVIOUS
<1> HIDE DEF P
<1>4. S \in P
  BY <1>1, <1>2, <1>3, FiniteInduction
<1> QED
  BY <1>4 DEF P

-----------------------------------------------------------------------------
(* Multiples and remainders *)

LEMMA Product ==
  ASSUME NEW a \in Nat, NEW b \in Nat, NEW c \in Nat
  PROVE  /\ a * c \in Nat /\ b * c \in Nat
         /\ (a + 1) * c = a * c + c
         /\ a <= b => a * c <= b * c
         /\ a < b => a * c + c <= b * c
<1>1. a * c \in Nat /\ b * c \in Nat /\ (a + 1) * c = a * c + c
  OBVIOUS
<1>2. a <= b => a * c <= b * c
  <2> SUFFICES ASSUME a <= b PROVE a * c <= b * c
    OBVIOUS
  <2>1. PICK k \in Nat : b = a + k
    <3>1. b - a \in Nat /\ b = a + (b - a)
      OBVIOUS
    <3> QED
      BY <3>1
  <2>2. b * c = a * c + k * c /\ k * c \in Nat
    BY <2>1
  <2> QED
    BY <1>1, <2>2
<1>3. a < b => a * c + c <= b * c
  <2> SUFFICES ASSUME a < b PROVE a * c + c <= b * c
    OBVIOUS
  <2>1. PICK k \in Nat : b = a + 1 + k
    <3>1. b - a - 1 \in Nat /\ b = a + 1 + (b - a - 1)
      OBVIOUS
    <3> QED
      BY <3>1
  <2>2. b * c = a * c + c + k * c /\ k * c \in Nat
    BY <2>1
  <2> QED
    BY <1>1, <2>2
<1> QED
  BY <1>1, <1>2, <1>3

LEMMA Divided ==
  ASSUME NEW n \in Nat, NEW c \in Nat \ {0}
  PROVE  /\ n \div c \in Nat /\ n % c \in 0..c - 1
         /\ n = (n \div c) * c + (n % c)
OBVIOUS

LEMMA Quotient ==
  ASSUME NEW n \in Nat, NEW c \in Nat \ {0}, NEW k \in Nat
  PROVE  k <= n \div c <=> k * c <= n
<1> DEFINE q == n \div c
           r == n % c
<1>1. q \in Nat /\ r \in 0..c - 1 /\ n = q * c + r
  BY Divided
<1> HIDE DEF q, r
<1>2. k <= q => k * c <= n
  <2>1. k <= q => k * c <= q * c
    BY <1>1, Product
  <2>2. q * c \in Nat /\ k * c \in Nat
    BY <1>1, Product
  <2> QED
    BY <1>1, <2>1, <2>2
<1>3. q < k => n < k * c
  <2>1. q < k => q * c + c <= k * c
    BY <1>1, Product
  <2>2. q * c \in Nat /\ k * c \in Nat
    BY <1>1, Product
  <2> QED
    BY <1>1, <2>1, <2>2
<1>4. q < k \/ k <= q
  BY <1>1
<1>5. k * c \in Nat
  BY Product
<1>6. k <= q <=> k * c <= n
  BY <1>1, <1>2, <1>3, <1>4, <1>5
<1> QED
  BY <1>6 DEF q

\* A number has one place in a row of c columns.
LEMMA Places ==
  ASSUME NEW c \in Nat \ {0}, NEW a \in Nat, NEW b \in Nat, NEW i \in 1..c, NEW j \in 1..c,
         i + a * c = j + b * c
  PROVE  a = b /\ i = j
<1>1. a * c \in Nat /\ b * c \in Nat
  BY Product
<1>2. ~(a < b)
  <2>1. a < b => a * c + c <= b * c
    BY Product
  <2> QED
    BY <1>1, <2>1
<1>3. ~(b < a)
  <2>1. b < a => b * c + c <= a * c
    BY Product
  <2> QED
    BY <1>1, <2>1
<1>4. a = b
  BY <1>2, <1>3
<1> QED
  BY <1>1, <1>4

-----------------------------------------------------------------------------
(* The load of a run: threads *)

LEMMA AskedTypes ==
  ASSUME asked \in Asked
  PROVE  /\ asked.threads \in Nat \ {0} /\ asked.slaves \in Nat /\ asked.lines \in Nat
         /\ asked.header \in BOOLEAN
         /\ \A g \in Group : /\ asked.inJmx[g] \in Nat \ {0}
                             /\ asked.overrides[g].threads \in Nat
                             /\ asked.overrides[g].enabled \in BOOLEAN
                             /\ asked.overrides[g].mode \in {"none", "custom", "fixed"}
<1>1. /\ asked.threads \in Threads /\ asked.slaves \in SlaveCount /\ asked.lines \in RowCount
      /\ asked.header \in BOOLEAN
      /\ asked.inJmx \in [Group -> Threads] /\ asked.overrides \in [Group -> Override]
  BY DEF Asked, Ask
<1>2. ASSUME NEW g \in Group
      PROVE  /\ asked.inJmx[g] \in Nat \ {0}
             /\ asked.overrides[g].threads \in Nat
             /\ asked.overrides[g].enabled \in BOOLEAN
             /\ asked.overrides[g].mode \in {"none", "custom", "fixed"}
  <2>1. asked.overrides[g] \in Override /\ asked.inJmx[g] \in Threads
    BY <1>1
  <2>2. asked.inJmx[g] \in Nat \ {0}
    BY <2>1, RunLoadAssumption
  <2>3. /\ asked.overrides[g].mode \in {"none", "custom", "fixed"}
        /\ asked.overrides[g].enabled \in BOOLEAN
        /\ asked.overrides[g].threads \in Threads \cup {0}
    BY <2>1 DEF Override
  <2>4. asked.overrides[g].threads \in Nat
    <3>1. Threads \cup {0} \subseteq Nat
      BY RunLoadAssumption
    <3> QED
      BY <2>3, <3>1
  <2> QED
    BY <2>2, <2>3, <2>4
<1>3. asked.threads \in Nat \ {0} /\ asked.slaves \in Nat /\ asked.lines \in Nat
  BY <1>1, RunLoadAssumption
<1> QED
  BY <1>1, <1>2, <1>3

\* All slaves together run what is asked for, and less than one each more.
LEMMA ShareIs ==
  ASSUME asked \in Asked, NEW n \in Nat \ {0}
  PROVE  /\ Share(n) \in Nat \ {0} /\ Slaves \in Nat \ {0}
         /\ Share(n) * Slaves >= n
         /\ Share(n) * Slaves < n + Slaves
<1>1. asked.slaves \in Nat
  BY AskedTypes
<1>2. CASE asked.slaves > 1
  <2> DEFINE c == asked.slaves
             m == n + c - 1
             q == m \div c
  <2>1. c \in Nat \ {0} /\ m \in Nat
    BY <1>1, <1>2
  <2>2. q \in Nat /\ m % c \in 0..c - 1 /\ m = q * c + (m % c)
    BY <2>1, Divided
  <2>3. Share(n) = q /\ Slaves = c
    BY <1>2 DEF Share, Slaves
  <2>4. q * c \in Nat
    BY <2>1, <2>2, Product
  <2>5. m = n + c - 1
    OBVIOUS
  <2> HIDE DEF m, q, c
  <2>6. q * c >= n /\ q * c < n + c
    BY <2>1, <2>2, <2>4, <2>5
  <2>7. q # 0
    BY <2>1, <2>6
  <2> QED
    BY <2>1, <2>2, <2>3, <2>6, <2>7
<1>3. CASE ~(asked.slaves > 1)
  <2>1. Share(n) = n /\ Slaves = 1
    BY <1>1, <1>3 DEF Share, Slaves
  <2> QED
    BY <2>1
<1> QED
  BY <1>2, <1>3

LEMMA RunThreadsAre ==
  ASSUME asked \in Asked, NEW g \in Group
  PROVE  RunThreads(g) \in Nat \ {0}
<1>1. asked.overrides[g].threads \in Nat /\ asked.inJmx[g] \in Nat \ {0} /\ asked.threads \in Nat \ {0}
  BY AskedTypes
<1>2. CASE asked.overrides[g].mode = "fixed"
  BY <1>1, <1>2 DEF RunThreads
<1>3. CASE asked.overrides[g].mode # "fixed" /\ asked.overrides[g].mode = "custom" /\ asked.overrides[g].threads # 0
  <2>1. Share(asked.overrides[g].threads) \in Nat \ {0}
    BY <1>1, <1>3, ShareIs
  <2> QED
    BY <1>3, <2>1 DEF RunThreads
<1>4. CASE asked.overrides[g].mode # "fixed" /\ ~(asked.overrides[g].mode = "custom" /\ asked.overrides[g].threads # 0)
  <2>1. Share(asked.threads) \in Nat \ {0}
    BY <1>1, ShareIs
  <2> QED
    BY <1>4, <2>1 DEF RunThreads
<1> QED
  BY <1>2, <1>3, <1>4

Prepared ==
  [run |-> RunJmx,
   perSlave |-> IF SumEnabled(RunJmx) > 0 THEN SumEnabled(RunJmx) ELSE Share(asked.threads),
   total |-> IF SumEnabled(RunJmx) > 0 THEN SumEnabled(RunJmx) * Slaves ELSE asked.threads,
   chunks |-> IF asked.slaves = 0 THEN <<>> ELSE SplitCsvLines(asked.slaves),
   ready |-> TRUE]

LoadInv == asked \in Asked /\ load \in {NoLoad, Prepared}

LEMMA LoadInitInv == LoadInit => LoadInv
BY DEF LoadInit, LoadInv

LEMMA LoadStep == LoadInv /\ [PrepareLoad]_loadVars => LoadInv'
<1> SUFFICES ASSUME LoadInv, [PrepareLoad]_loadVars PROVE LoadInv'
  OBVIOUS
<1>1. asked' = asked /\ (load' = load \/ load' = Prepared)
  BY DEF PrepareLoad, loadVars, Prepared
<1>2. Prepared' = Prepared
  <2>1. RunJmx' = RunJmx
    BY <1>1 DEF RunJmx, RunThreads, Enabled, Share
  <2>2. SumEnabled(RunJmx)' = SumEnabled(RunJmx)
    <3>1. SumEnabled(RunJmx)' = SumEnabled(RunJmx')
      BY DEF SumEnabled, MapThenSumSet, MapThenFoldSet
    <3> QED
      BY <2>1, <3>1
  <2>3. Slaves' = Slaves /\ Share(asked.threads)' = Share(asked.threads)
    BY <1>1 DEF Slaves, Share
  <2>4. SplitCsvLines(asked.slaves)' = SplitCsvLines(asked.slaves)
    BY <1>1 DEF SplitCsvLines
  <2> QED
    BY <1>1, <2>1, <2>2, <2>3, <2>4 DEF Prepared
<1> QED
  BY <1>1, <1>2 DEF LoadInv

LEMMA Summed ==
  ASSUME asked \in Asked
  PROVE  /\ RunJmx \in [Group -> Nat]
         /\ SumEnabled(RunJmx) \in Nat
         /\ SumEnabled([g \in Group |-> RunJmx[g] * Slaves]) = SumEnabled(RunJmx) * Slaves
         /\ \A g \in Group : Enabled(g) => SumEnabled(RunJmx) > 0
<1>1. \A g \in Group : RunJmx[g] \in Nat /\ (Enabled(g) => RunJmx[g] > 0)
  <2> SUFFICES ASSUME NEW g \in Group
               PROVE  RunJmx[g] \in Nat /\ (Enabled(g) => RunJmx[g] > 0)
    OBVIOUS
  <2>1. RunThreads(g) \in Nat \ {0} /\ RunJmx[g] = IF Enabled(g) THEN RunThreads(g) ELSE 0
    BY RunThreadsAre DEF RunJmx
  <2>2. Enabled(g) \in BOOLEAN
    BY AskedTypes DEF Enabled
  <2> QED
    BY <2>1, <2>2
<1>2. Slaves \in Nat
  BY AskedTypes DEF Slaves
<1> DEFINE h == [g \in Group |-> RunJmx[g] * Slaves]
<1>3. \A g \in Group : h[g] = RunJmx[g] * Slaves
  OBVIOUS
<1>4. SumEnabled(RunJmx) = Sum(RunJmx, Group) /\ SumEnabled(h) = Sum(h, Group)
  BY DEF SumEnabled, Sum
<1>5. RunJmx = [g \in Group |-> RunJmx[g]]
  BY DEF RunJmx
<1> HIDE DEF h
<1>6. /\ Sum(RunJmx, Group) \in Nat
      /\ Sum(h, Group) = Sum(RunJmx, Group) * Slaves
      /\ \A g \in Group : RunJmx[g] > 0 => Sum(RunJmx, Group) > 0
  BY <1>1, <1>2, <1>3, RunLoadAssumption, SumTimes
<1> QED
  BY <1>1, <1>4, <1>5, <1>6 DEF h

LEMMA LoadAsAskedHolds == LoadInv => LoadAsAsked
<1> SUFFICES ASSUME LoadInv, load.ready PROVE LoadAsAsked
  BY DEF LoadAsAsked
<1>1. asked \in Asked /\ load = Prepared
  BY DEF LoadInv, NoLoad
<1>2. load.run = RunJmx /\ load.total = IF SumEnabled(RunJmx) > 0 THEN SumEnabled(RunJmx) * Slaves ELSE asked.threads
  BY <1>1 DEF Prepared
<1>3. ASSUME NEW g \in Group, Enabled(g), asked.overrides[g].mode # "fixed"
      PROVE  LET o == asked.overrides[g]
                 want == IF o.mode = "custom" /\ o.threads # 0 THEN o.threads ELSE asked.threads IN
             load.run[g] * Slaves >= want /\ load.run[g] * Slaves < want + Slaves
  <2> DEFINE o == asked.overrides[g]
             want == IF o.mode = "custom" /\ o.threads # 0 THEN o.threads ELSE asked.threads
  <2>1. want \in Nat \ {0}
    BY <1>1, AskedTypes
  <2>2. load.run[g] = Share(want)
    BY <1>2, <1>3 DEF RunJmx, RunThreads
  <2> HIDE DEF want
  <2>3. load.run[g] * Slaves >= want /\ load.run[g] * Slaves < want + Slaves
    BY <1>1, <2>1, <2>2, ShareIs
  <2> QED
    BY <2>3 DEF want
<1>4. (\E g \in Group : Enabled(g)) => load.total = SumEnabled([g \in Group |-> load.run[g] * Slaves])
  BY <1>1, <1>2, Summed
<1> QED
  BY <1>3, <1>4 DEF LoadAsAsked

-----------------------------------------------------------------------------
(* The load of a run: rows *)

HeaderRow == IF asked.header /\ asked.lines > 1 THEN 1 ELSE 0
RowsLeft(i, count) == (asked.lines - HeaderRow - i + count) \div count
DealtTo(i, count) == [k \in 1..RowsLeft(i, count) |-> HeaderRow + i + (k - 1) * count]
HeaderPart == IF HeaderRow = 1 THEN <<1>> ELSE <<>>

LEMMA SplitIs ==
  ASSUME NEW count
  PROVE  SplitCsvLines(count) = [i \in 1..count |-> HeaderPart \o DealtTo(i, count)]
BY DEF SplitCsvLines, HeaderRow, RowsLeft, DealtTo, HeaderPart

LEMMA Joined ==
  ASSUME NEW s \in Seq(Nat), NEW t \in Seq(Nat)
  PROVE  /\ s \o t \in Seq(Nat) /\ Len(s \o t) = Len(s) + Len(t)
         /\ \A i \in 1..Len(s) : (s \o t)[i] = s[i]
         /\ \A i \in 1..Len(t) : (s \o t)[Len(s) + i] = t[i]
<1>1. s \o t \in Seq(Nat) /\ Len(s \o t) = Len(s) + Len(t)
  OBVIOUS
<1>2. ASSUME NEW i \in 1..Len(s) PROVE (s \o t)[i] = s[i]
  OBVIOUS
<1>3. ASSUME NEW i \in 1..Len(t) PROVE (s \o t)[Len(s) + i] = t[i]
  OBVIOUS
<1> QED
  BY <1>1, <1>2, <1>3

\* The slice of a slave, and the places of a row in it.
LEMMA SliceIs ==
  ASSUME asked \in Asked, NEW count \in Nat \ {0}, NEW i \in 1..count
  PROVE  /\ HeaderRow \in {0, 1} /\ asked.lines - HeaderRow \in Nat
         /\ RowsLeft(i, count) \in Nat
         /\ \A k \in Nat \ {0} :
              k <= RowsLeft(i, count) <=> i + (k - 1) * count <= asked.lines - HeaderRow
         /\ HeaderPart \o DealtTo(i, count) \in Seq(Nat)
         /\ Len(HeaderPart \o DealtTo(i, count)) = HeaderRow + RowsLeft(i, count)
         /\ HeaderRow = 1 => (HeaderPart \o DealtTo(i, count))[1] = 1
         /\ \A k \in 1..RowsLeft(i, count) :
              (HeaderPart \o DealtTo(i, count))[HeaderRow + k] = HeaderRow + i + (k - 1) * count
<1> DEFINE h == HeaderRow
           rows == asked.lines - h
           n == RowsLeft(i, count)
           d == DealtTo(i, count)
           m == rows - i + count
<1>1. h \in {0, 1} /\ rows \in Nat /\ asked.lines \in Nat
  <2>1. asked.lines \in Nat
    BY AskedTypes
  <2> QED
    BY <2>1 DEF HeaderRow
<1>2. m \in Nat
  BY <1>1
<1>3. n = m \div count
  BY DEF RowsLeft
<1>4. n \in Nat
  BY <1>2, <1>3, Divided
<1>5. d = [k \in 1..n |-> h + i + (k - 1) * count]
  BY DEF DealtTo
<1>6. HeaderPart = IF h = 1 THEN <<1>> ELSE <<>>
  BY DEF HeaderPart
<1>0. m = rows - i + count
  OBVIOUS
<1> HIDE DEF h, rows, n, d, m
<1>7. ASSUME NEW k \in Nat \ {0}
      PROVE  k <= n <=> i + (k - 1) * count <= rows
  <2>1. k <= n <=> k * count <= m
    BY <1>2, <1>3, Quotient
  <2>2. k - 1 \in Nat /\ (k - 1) * count \in Nat /\ k * count = (k - 1) * count + count
    <3>1. k - 1 \in Nat /\ (k - 1) + 1 = k
      OBVIOUS
    <3> QED
      BY <3>1, Product
  <2> QED
    BY <1>0, <1>1, <2>1, <2>2
<1>8. \A k \in 1..n : h + i + (k - 1) * count \in Nat
  <2> SUFFICES ASSUME NEW k \in 1..n PROVE h + i + (k - 1) * count \in Nat
    OBVIOUS
  <2>1. k - 1 \in Nat
    BY <1>4
  <2>2. (k - 1) * count \in Nat
    BY <2>1, Product
  <2> QED
    BY <1>1, <2>2
<1>9. d \in Seq(Nat) /\ Len(d) = n /\ \A k \in 1..n : d[k] = h + i + (k - 1) * count
  BY <1>4, <1>5, <1>8
<1>10. HeaderPart \in Seq(Nat) /\ Len(HeaderPart) = h /\ (h = 1 => HeaderPart[1] = 1)
  BY <1>1, <1>6
<1>11. /\ HeaderPart \o d \in Seq(Nat) /\ Len(HeaderPart \o d) = h + n
       /\ h = 1 => (HeaderPart \o d)[1] = 1
       /\ \A k \in 1..n : (HeaderPart \o d)[h + k] = d[k]
  <2>1. /\ HeaderPart \o d \in Seq(Nat) /\ Len(HeaderPart \o d) = h + n
        /\ \A k \in 1..h : (HeaderPart \o d)[k] = HeaderPart[k]
        /\ \A k \in 1..n : (HeaderPart \o d)[h + k] = d[k]
    BY <1>9, <1>10, Joined
  <2>2. h = 1 => 1 \in 1..h
    OBVIOUS
  <2> QED
    BY <1>10, <2>1, <2>2
<1> QED
  BY <1>1, <1>4, <1>7, <1>9, <1>11 DEF h, rows, n, d

Holders(chunk, r) == {i \in DOMAIN chunk : \E k \in DOMAIN chunk[i] : chunk[i][k] = r}

LEMMA ChunkIs ==
  ASSUME asked \in Asked, NEW count \in Nat \ {0}, NEW i \in 1..count
  PROVE  /\ i \in DOMAIN SplitCsvLines(count)
         /\ SplitCsvLines(count)[i] \in Seq(Nat)
         /\ DOMAIN SplitCsvLines(count)[i] = 1..HeaderRow + RowsLeft(i, count)
         /\ Len(SplitCsvLines(count)[i]) = HeaderRow + RowsLeft(i, count)
         /\ HeaderRow = 1 => SplitCsvLines(count)[i][1] = 1
         /\ \A k \in 1..RowsLeft(i, count) :
              SplitCsvLines(count)[i][HeaderRow + k] = HeaderRow + i + (k - 1) * count
<1> DEFINE c == HeaderPart \o DealtTo(i, count)
<1>1. i \in DOMAIN SplitCsvLines(count) /\ SplitCsvLines(count)[i] = c
  BY SplitIs
<1>2. /\ c \in Seq(Nat) /\ Len(c) = HeaderRow + RowsLeft(i, count)
      /\ HeaderRow = 1 => c[1] = 1
      /\ \A k \in 1..RowsLeft(i, count) : c[HeaderRow + k] = HeaderRow + i + (k - 1) * count
  BY SliceIs
<1> HIDE DEF c
<1>3. DOMAIN c = 1..Len(c)
  BY <1>2
<1> QED
  BY <1>1, <1>2, <1>3

\* A row is in one slice.
LEMMA RowInOne ==
  ASSUME asked \in Asked, NEW count \in Nat \ {0}, NEW r \in 1..asked.lines,
         ~(HeaderRow = 1 /\ r = 1)
  PROVE  \E i \in 1..count : Holders(SplitCsvLines(count), r) = {i}
<1> DEFINE h == HeaderRow
           chunk == SplitCsvLines(count)
           at == r - h - 1
           i == (at % count) + 1
           k == (at \div count) + 1
<1>1. h \in {0, 1} /\ asked.lines - h \in Nat /\ asked.lines \in Nat
  <2>1. 1 \in 1..count
    OBVIOUS
  <2> QED
    BY <2>1, SliceIs, AskedTypes
<1>2. at \in Nat
  BY <1>1
<1>3. at \div count \in Nat /\ at % count \in 0..count - 1 /\ at = (at \div count) * count + (at % count)
  BY <1>2, Divided
<1>4. /\ i \in 1..count /\ k \in Nat \ {0} /\ k - 1 = at \div count
      /\ (k - 1) * count \in Nat /\ i + (k - 1) * count = r - h
  <2>1. (at \div count) * count \in Nat
    BY <1>3, Product
  <2> QED
    BY <1>1, <1>3, <2>1
<1>5. DOMAIN chunk = 1..count
  BY SplitIs
<1>a. ASSUME NEW j \in 1..count
      PROVE  /\ DOMAIN chunk[j] = 1..h + RowsLeft(j, count) /\ RowsLeft(j, count) \in Nat
             /\ h = 1 => chunk[j][1] = 1
             /\ \A n \in 1..RowsLeft(j, count) : chunk[j][h + n] = h + j + (n - 1) * count
             /\ \A n \in Nat \ {0} :
                  n <= RowsLeft(j, count) <=> j + (n - 1) * count <= asked.lines - h
  BY ChunkIs, SliceIs
<1> HIDE DEF chunk, h, at, i, k
<1>6. i \in Holders(chunk, r)
  <2>1. i + (k - 1) * count <= asked.lines - h
    BY <1>1, <1>4
  <2>2. k <= RowsLeft(i, count) /\ RowsLeft(i, count) \in Nat
    BY <1>4, <1>a, <2>1
  <2>3. k \in 1..RowsLeft(i, count) /\ h + k \in 1..h + RowsLeft(i, count)
    BY <1>1, <1>4, <2>2
  <2>4. chunk[i][h + k] = h + i + (k - 1) * count
    BY <1>4, <1>a, <2>3
  <2>5. chunk[i][h + k] = r
    BY <1>1, <1>4, <2>4
  <2>6. h + k \in DOMAIN chunk[i]
    BY <1>4, <1>a, <2>3
  <2> QED
    BY <1>4, <1>5, <2>5, <2>6 DEF Holders
<1>7. ASSUME NEW j \in Holders(chunk, r) PROVE j = i
  <2>1. j \in 1..count /\ \E m \in DOMAIN chunk[j] : chunk[j][m] = r
    BY <1>5 DEF Holders
  <2>3. DOMAIN chunk[j] = 1..h + RowsLeft(j, count) /\ RowsLeft(j, count) \in Nat
    BY <1>a, <2>1
  <2>2. PICK m \in 1..h + RowsLeft(j, count) : chunk[j][m] = r
    BY <2>1, <2>3
  <2>4. m > h
    <3>1. h = 1 /\ m = 1 => r = 1
      BY <1>a, <2>1, <2>2
    <3>2. ~(h = 1 /\ r = 1)
      BY DEF h
    <3> QED
      BY <1>1, <2>2, <2>3, <3>1, <3>2
  <2> DEFINE n == m - h
  <2>5. n \in 1..RowsLeft(j, count) /\ h + n = m /\ n - 1 \in Nat
    BY <1>1, <2>2, <2>3, <2>4
  <2>6. chunk[j][h + n] = h + j + (n - 1) * count
    BY <1>a, <2>1, <2>5
  <2>7. (n - 1) * count \in Nat
    BY <2>5, Product
  <2>8. chunk[j][h + n] = r
    BY <2>2, <2>5
  <2> HIDE DEF n
  <2>9. j + (n - 1) * count = r - h
    BY <1>1, <2>1, <2>6, <2>7, <2>8
  <2>10. j + (n - 1) * count = i + (k - 1) * count /\ k - 1 \in Nat
    BY <1>4, <2>9
  <2> QED
    BY <1>4, <2>1, <2>5, <2>10, Places
<1>8. Holders(chunk, r) = {i}
  BY <1>6, <1>7
<1> QED
  BY <1>4, <1>8 DEF chunk

LEMMA RowsDealtHolds == LoadInv => RowsDealt
<1> SUFFICES ASSUME LoadInv, load.ready, asked.slaves > 0 PROVE RowsDealt
  BY DEF RowsDealt
<1> DEFINE count == asked.slaves
           chunk == SplitCsvLines(count)
<1>1. asked \in Asked /\ count \in Nat \ {0} /\ load.chunks = chunk
  <2>1. asked \in Asked /\ load = Prepared
    BY DEF LoadInv, NoLoad
  <2> QED
    BY <2>1, AskedTypes DEF Prepared
<1>2. /\ DOMAIN chunk = 1..count /\ Len(chunk) = count
      /\ \A j \in 1..count :
           /\ Len(chunk[j]) = HeaderRow + RowsLeft(j, count)
           /\ DOMAIN chunk[j] = 1..HeaderRow + RowsLeft(j, count)
           /\ HeaderRow = 1 => chunk[j][1] = 1
  <2>1. DOMAIN chunk = 1..count /\ Len(chunk) = count
    BY <1>1, SplitIs
  <2> QED
    BY <1>1, <2>1, ChunkIs
<1> HIDE DEF chunk
<1>3. ASSUME NEW r \in 1..asked.lines
      PROVE  Cardinality(Holders(chunk, r)) =
               IF r = 1 /\ asked.header /\ asked.lines > 1 THEN count ELSE 1
  <2>1. CASE r = 1 /\ HeaderRow = 1
    <3>1. \A j \in 1..count : 1 \in DOMAIN chunk[j] /\ chunk[j][1] = 1
      <4> SUFFICES ASSUME NEW j \in 1..count PROVE 1 \in DOMAIN chunk[j] /\ chunk[j][1] = 1
        OBVIOUS
      <4>1. RowsLeft(j, count) \in Nat
        BY <1>1, SliceIs
      <4>2. 1 \in 1..HeaderRow + RowsLeft(j, count)
        BY <2>1, <4>1
      <4> QED
        BY <1>2, <2>1, <4>2
    <3>2. Holders(chunk, r) = 1..count
      BY <1>2, <2>1, <3>1 DEF Holders
    <3>3. Cardinality(1..count) = count
      BY <1>1, FS_Interval
    <3> QED
      BY <2>1, <3>2, <3>3 DEF HeaderRow
  <2>2. CASE ~(r = 1 /\ HeaderRow = 1)
    <3>1. PICK i \in 1..count : Holders(chunk, r) = {i}
      BY <1>1, <2>2, RowInOne DEF chunk
    <3>2. Cardinality({i}) = 1
      BY FS_Singleton
    <3> QED
      BY <2>2, <3>1, <3>2 DEF HeaderRow
  <2> QED
    BY <2>1, <2>2
<1>4. ASSUME NEW i \in 1..count, NEW j \in 1..count
      PROVE  Len(chunk[i]) <= Len(chunk[j]) + 1
  <2> DEFINE rows == asked.lines - HeaderRow
             n == RowsLeft(i, count)
             m == RowsLeft(j, count)
  <2>1. rows \in Nat /\ n \in Nat /\ m \in Nat /\ HeaderRow \in {0, 1}
    BY <1>1, SliceIs
  <2>2. /\ \A p \in Nat \ {0} : p <= n <=> i + (p - 1) * count <= rows
        /\ \A p \in Nat \ {0} : p <= m <=> j + (p - 1) * count <= rows
    BY <1>1, SliceIs
  <2> HIDE DEF rows, n, m
  <2>3. n <= m + 1
    <3> DEFINE p == m + 1
               q == m + 2
    <3>1. p \in Nat \ {0} /\ q \in Nat \ {0} /\ p - 1 = m /\ q - 1 = m + 1
      BY <2>1
    <3>2. p <= m <=> j + (p - 1) * count <= rows
      BY <2>2, <3>1
    <3>3. q <= n <=> i + (q - 1) * count <= rows
      BY <2>2, <3>1
    <3>4. m * count \in Nat /\ (m + 1) * count = m * count + count
      BY <1>1, <2>1, Product
    <3>5. ~(j + m * count <= rows)
      BY <2>1, <3>1, <3>2
    <3>6. ~(i + (m + 1) * count <= rows)
      BY <1>1, <2>1, <3>4, <3>5
    <3> QED
      BY <2>1, <3>1, <3>3, <3>6
  <2> QED
    BY <1>2, <2>1, <2>3 DEF n, m
<1> QED
  BY <1>1, <1>2, <1>3, <1>4 DEF RowsDealt, Holders

\* Types of the load.
LEMMA LoadTyped == LoadInv => LoadTypeOK
<1> SUFFICES ASSUME LoadInv PROVE LoadTypeOK
  OBVIOUS
<1>1. asked \in Ask /\ asked \in Asked
  BY DEF LoadInv, Asked
<1>2. CASE load = NoLoad
  BY <1>1, <1>2 DEF NoLoad, LoadTypeOK
<1>3. CASE load = Prepared
  <2>1. RunJmx \in [Group -> Nat] /\ SumEnabled(RunJmx) \in Nat
    BY <1>1, Summed
  <2>2. asked.threads \in Nat \ {0} /\ asked.slaves \in Nat
    BY <1>1, AskedTypes
  <2>3. Share(asked.threads) \in Nat /\ Slaves \in Nat
    BY <1>1, <2>2, ShareIs
  <2>4. SumEnabled(RunJmx) * Slaves \in Nat
    BY <2>1, <2>3, Product
  <2>5. asked.slaves # 0 => SplitCsvLines(asked.slaves) \in Seq(Seq(Nat))
    <3> SUFFICES ASSUME asked.slaves # 0
                 PROVE  [i \in 1..asked.slaves |-> HeaderPart \o DealtTo(i, asked.slaves)] \in Seq(Seq(Nat))
      BY SplitIs
    <3>1. \A i \in 1..asked.slaves : HeaderPart \o DealtTo(i, asked.slaves) \in Seq(Nat)
      BY <1>1, <2>2, SliceIs
    <3> DEFINE c == [i \in 1..asked.slaves |-> HeaderPart \o DealtTo(i, asked.slaves)]
    <3>2. c \in [1..asked.slaves -> Seq(Nat)]
      BY <3>1
    <3> HIDE DEF c
    <3>3. c \in Seq(Seq(Nat))
      BY <2>2, <3>2
    <3> QED
      BY <3>3 DEF c
  <2>6. <<>> \in Seq(Seq(Nat))
    OBVIOUS
  <2>7. load.run \in [Group -> Nat] /\ load.perSlave \in Nat
    BY <1>3, <2>1, <2>3 DEF Prepared
  <2>8. load.total \in Nat
    BY <1>3, <2>2, <2>4 DEF Prepared
  <2>9. load.chunks \in Seq(Seq(Nat))
    BY <1>3, <2>5, <2>6 DEF Prepared
  <2> QED
    BY <1>1, <2>7, <2>8, <2>9 DEF LoadTypeOK
<1> QED
  BY <1>2, <1>3 DEF LoadInv

\* The slaves together get the load that was asked for: the threads of each
\* group, and each row of a parameter file once.
THEOREM SlavesShareLoad == LoadSpec => []LoadShared
<1>1. LoadInv => LoadShared
  BY LoadAsAskedHolds, RowsDealtHolds DEF LoadShared
<1> QED
  BY <1>1, LoadInitInv, LoadStep, PTL DEF LoadSpec

-----------------------------------------------------------------------------
(* Error samples: folds over sequences *)

\* A finite set of numbers has a largest one, and CHOOSE finds it.
LEMMA MaxIs ==
  ASSUME NEW n \in Nat, NEW s \in SUBSET (1..n), s # {}
  PROVE  Max(s) \in s /\ \A k \in s : k <= Max(s)
<1>1. s \subseteq Nat /\ \A k \in s : k <= n
  OBVIOUS
<1>2. LET m == CHOOSE m \in s : \A k \in s : k <= m IN m \in s /\ \A k \in s : k <= m
  BY <1>1, Largest
<1>3. \E m \in s : \A k \in s : m >= k
  BY <1>1, <1>2
<1>4. Max(s) \in s /\ \A k \in s : Max(s) >= k
  BY <1>3 DEF Max
<1> QED
  BY <1>1, <1>4

LEMMA MaxOfFirst ==
  ASSUME NEW i \in Nat
  PROVE  Max(1..i + 1) = i + 1 /\ (1..i + 1) \ {i + 1} = 1..i /\ 1..i + 1 # {}
<1>1. i + 1 \in 1..i + 1 /\ i + 1 \in Nat
  OBVIOUS
<1>2. Max(1..i + 1) \in 1..i + 1 /\ \A k \in 1..i + 1 : k <= Max(1..i + 1)
  BY <1>1, MaxIs
<1>3. Max(1..i + 1) = i + 1
  BY <1>1, <1>2
<1>4. (1..i + 1) \ {i + 1} = 1..i
  OBVIOUS
<1> QED
  BY <1>1, <1>3, <1>4

\* What a step has of a function of a place and of what there is: the folds over
\* the places 1..n, as FoldLeft takes them, exist.
FoldedUpTo(n, V, base, step) ==
  \E it \in [SUBSET (1..n) -> V] : \A s \in SUBSET (1..n) :
    it[s] = IF s = {} THEN base ELSE step[<<Max(s), it[s \ {Max(s)}]>>]

LEMMA FoldExists ==
  ASSUME NEW n \in Nat, NEW V, NEW base \in V, NEW step \in [(1..n) \X V -> V]
  PROVE  FoldedUpTo(n, V, base, step)
<1> DEFINE pick == [s \in (SUBSET (1..n)) \ {{}} |-> Max(s)]
<1>1. \A s \in (SUBSET (1..n)) \ {{}} : pick[s] \in s /\ pick[s] = Max(s)
  BY MaxIs
<1>2. IsFiniteSet(1..n)
  BY FS_Interval
<1> HIDE DEF pick
<1>3. Folded(1..n, V, base, step, pick)
  BY <1>1, <1>2, Recursion
<1>4. PICK it \in [SUBSET (1..n) -> V] : \A s \in SUBSET (1..n) :
        it[s] = IF s = {} THEN base ELSE step[<<pick[s], it[s \ {pick[s]}]>>]
  BY <1>3 DEF Folded
<1>5. \A s \in SUBSET (1..n) :
        it[s] = IF s = {} THEN base ELSE step[<<Max(s), it[s \ {Max(s)}]>>]
  BY <1>1, <1>4
<1> QED
  BY <1>5 DEF FoldedUpTo

\* The errors kept on the way through a file.
Merging(F, base, seq, limit) ==
  /\ F \in [0..Len(seq) -> SUBSET Error]
  /\ F[0] = base
  /\ \A i \in 0..Len(seq) - 1 : F[i + 1] = AppendIfAllowed(F[i], seq[i + 1], limit)

Merge(base, seq, limit) ==
  FoldLeft(LAMBDA had, s : AppendIfAllowed(had, s, limit), base, seq)

LEMMA AppendTyped ==
  ASSUME NEW had \in SUBSET Error, NEW s \in Error, NEW limit
  PROVE  AppendIfAllowed(had, s, limit) \in SUBSET Error
<1>1. had \cup {s} \in SUBSET Error
  OBVIOUS
<1> QED
  BY <1>1 DEF AppendIfAllowed

LEMMA MergeFolds ==
  ASSUME NEW base \in SUBSET Error, NEW seq \in Seq(Error), NEW limit
  PROVE  \E F : Merging(F, base, seq, limit) /\ Merge(base, seq, limit) = F[Len(seq)]
<1> DEFINE n == Len(seq)
           V == SUBSET Error
           step == [p \in (1..n) \X V |-> AppendIfAllowed(p[2], seq[p[1]], limit)]
           Folds(c) == c = [s \in SUBSET DOMAIN seq |->
                              IF s = {} THEN base
                              ELSE AppendIfAllowed(c[s \ {Max(s)}], seq[Max(s)], limit)]
           c == CHOOSE it : Folds(it)
<1>1. n \in Nat /\ DOMAIN seq = 1..n /\ base \in V /\ \A i \in 1..n : seq[i] \in Error
  OBVIOUS
<1>2. \A i \in 1..n, k \in V : /\ AppendIfAllowed(k, seq[i], limit) \in V
                               /\ step[<<i, k>>] = AppendIfAllowed(k, seq[i], limit)
  BY <1>1, AppendTyped
<1>3. step = [p \in (1..n) \X V |-> step[p]]
  OBVIOUS
<1>4. Merge(base, seq, limit) = c[DOMAIN seq]
  BY DEF Merge, FoldLeft, MapThenFoldSet
<1> HIDE DEF step
<1>5. step \in [(1..n) \X V -> V]
  <2>1. ASSUME NEW p \in (1..n) \X V PROVE step[p] \in V
    <3>1. p = <<p[1], p[2]>> /\ p[1] \in 1..n /\ p[2] \in V
      OBVIOUS
    <3>2. step[<<p[1], p[2]>>] \in V
      BY <1>2, <3>1
    <3> QED
      BY <3>1, <3>2
  <2> HIDE DEF V, n
  <2> QED
    BY <1>3, <2>1
<1> HIDE DEF V, n
<1>6. PICK it \in [SUBSET (1..n) -> V] : \A s \in SUBSET (1..n) :
        it[s] = IF s = {} THEN base ELSE step[<<Max(s), it[s \ {Max(s)}]>>]
  <2>1. FoldedUpTo(n, V, base, step)
    BY <1>1, <1>5, FoldExists
  <2> QED
    BY <2>1 DEF FoldedUpTo
<1>7. Folds(it)
  <2> DEFINE z == [s \in SUBSET (1..n) |->
                     IF s = {} THEN base
                     ELSE AppendIfAllowed(it[s \ {Max(s)}], seq[Max(s)], limit)]
  <2>1. ASSUME NEW s \in SUBSET (1..n)
        PROVE  it[s] = IF s = {} THEN base
                       ELSE AppendIfAllowed(it[s \ {Max(s)}], seq[Max(s)], limit)
    <3>1. CASE s = {}
      BY <1>6, <3>1
    <3>2. CASE s # {}
      <4>1. Max(s) \in 1..n
        BY <1>1, <3>2, MaxIs
      <4>2. s \ {Max(s)} \in SUBSET (1..n)
        OBVIOUS
      <4>3. it[s \ {Max(s)}] \in V
        BY <1>6, <4>2
      <4>4. step[<<Max(s), it[s \ {Max(s)}]>>] = AppendIfAllowed(it[s \ {Max(s)}], seq[Max(s)], limit)
        BY <1>2, <4>1, <4>3
      <4> QED
        BY <1>6, <3>2, <4>4
    <3> QED
      BY <3>1, <3>2
  <2>2. \A s \in SUBSET (1..n) : it[s] = z[s]
    BY <2>1
  <2>3. z = [s \in SUBSET (1..n) |-> z[s]]
    OBVIOUS
  <2> HIDE DEF z
  <2>4. it = z
    BY <1>6, <2>2, <2>3
  <2> QED
    BY <1>1, <2>4, Zenon DEF z
<1>8. Folds(c)
  BY <1>7, Zenon
<1>9. \A s \in SUBSET (1..n) :
        c[s] = IF s = {} THEN base
               ELSE AppendIfAllowed(c[s \ {Max(s)}], seq[Max(s)], limit)
  <2> DEFINE z == [s \in SUBSET DOMAIN seq |->
                     IF s = {} THEN base
                     ELSE AppendIfAllowed(c[s \ {Max(s)}], seq[Max(s)], limit)]
  <2>1. c = z
    BY <1>8, Zenon
  <2>2. \A s \in SUBSET (1..n) : z[s] =
          IF s = {} THEN base
          ELSE AppendIfAllowed(c[s \ {Max(s)}], seq[Max(s)], limit)
    BY <1>1
  <2> HIDE DEF z, c
  <2> QED
    BY <2>1, <2>2
<1> HIDE DEF c, Folds
<1>10. c[1..0] = base
  <2>1. 1..0 = {} /\ {} \in SUBSET (1..n)
    OBVIOUS
  <2> QED
    BY <1>9, <2>1
<1>11. ASSUME NEW i \in 0..n - 1
       PROVE  c[1..i + 1] = AppendIfAllowed(c[1..i], seq[i + 1], limit)
  <2>1. i \in Nat /\ 1..i + 1 \in SUBSET (1..n)
    BY <1>1
  <2>2. Max(1..i + 1) = i + 1 /\ (1..i + 1) \ {i + 1} = 1..i /\ 1..i + 1 # {}
    BY <2>1, MaxOfFirst
  <2> QED
    BY <1>9, <2>1, <2>2
<1> DEFINE T == {i \in Nat : i <= n => c[1..i] \in V}
<1>12. 0 \in T
  BY <1>1, <1>10
<1>13. ASSUME NEW i \in T PROVE i + 1 \in T
  <2> SUFFICES ASSUME i + 1 <= n PROVE c[1..i + 1] \in V
    OBVIOUS
  <2>1. i \in 0..n - 1 /\ i + 1 \in 1..n /\ c[1..i] \in V
    BY <1>1
  <2>2. c[1..i + 1] = AppendIfAllowed(c[1..i], seq[i + 1], limit)
    BY <1>11, <2>1
  <2> QED
    BY <1>2, <2>1, <2>2
<1>14. T \subseteq Nat
  OBVIOUS
<1> HIDE DEF T
<1>15. \A i \in T : i + 1 \in T
  BY <1>13
<1>16. T = Nat
  BY <1>12, <1>14, <1>15, Induction
<1>17. \A i \in 0..n : c[1..i] \in V
  BY <1>1, <1>16 DEF T
<1> DEFINE F == [i \in 0..n |-> c[1..i]]
<1>18. F \in [0..n -> V] /\ F[0] = base /\ F[n] = c[DOMAIN seq]
  BY <1>1, <1>10, <1>17
<1>19. \A i \in 0..n - 1 : F[i + 1] = AppendIfAllowed(F[i], seq[i + 1], limit)
  <2> SUFFICES ASSUME NEW i \in 0..n - 1
               PROVE  F[i + 1] = AppendIfAllowed(F[i], seq[i + 1], limit)
    OBVIOUS
  <2>1. F[i + 1] = c[1..i + 1] /\ F[i] = c[1..i]
    BY <1>1
  <2> HIDE DEF F
  <2> QED
    BY <1>11, <2>1
<1> HIDE DEF F
<1>20. Merging(F, base, seq, limit) /\ Merge(base, seq, limit) = F[n]
  BY <1>4, <1>18, <1>19 DEF Merging, n, V
<1> QED
  BY <1>20 DEF n

\* A set is no smaller than what its elements are mapped to.
ImageOf(C, q) == {q[i] : i \in C}

LEMMA ImageNoLarger ==
  ASSUME NEW C, IsFiniteSet(C), NEW q
  PROVE  /\ IsFiniteSet(ImageOf(C, q)) /\ Cardinality(ImageOf(C, q)) <= Cardinality(C)
         /\ Cardinality(ImageOf(C, q)) \in Nat /\ Cardinality(C) \in Nat
<1> DEFINE T == ImageOf(C, q)
           f == [i \in C |-> q[i]]
<1>1. f \in [C -> T] /\ \A t \in T : \E i \in C : f[i] = t
  BY DEF ImageOf
<1> HIDE DEF f, T
<1>2. f \in Surjection(C, T)
  BY <1>1 DEF Surjection
<1>3. IsFiniteSet(T) /\ Cardinality(T) <= Cardinality(C)
  BY <1>2, FS_Surjection
<1> QED
  BY <1>3, FS_CardinalityType DEF T

LEMMA SmallerSet ==
  ASSUME NEW S, NEW T, S \subseteq T, IsFiniteSet(T)
  PROVE  /\ IsFiniteSet(S) /\ Cardinality(S) \in Nat /\ Cardinality(T) \in Nat
         /\ Cardinality(S) <= Cardinality(T)
BY FS_Subset, FS_CardinalityType

LEMMA OneMore ==
  ASSUME NEW S, IsFiniteSet(S), NEW x
  PROVE  /\ IsFiniteSet(S \cup {x})
         /\ Cardinality(S \cup {x}) \in Nat /\ Cardinality(S) \in Nat
         /\ Cardinality(S \cup {x}) <= Cardinality(S) + 1
         /\ Cardinality(S) <= Cardinality(S \cup {x})
<1> DEFINE a == Cardinality(S)
           b == Cardinality(S \cup {x})
<1>1. IsFiniteSet(S \cup {x})
  BY FS_AddElement
<1>2. a \in Nat /\ b \in Nat
  BY <1>1, FS_CardinalityType
<1>3. b = a \/ b = a + 1
  <2>1. CASE x \in S
    <3>1. S \cup {x} = S
      BY <2>1
    <3> QED
      BY <3>1
  <2>2. CASE x \notin S
    BY <2>2, FS_AddElement
  <2> QED
    BY <2>1, <2>2
<1> HIDE DEF a, b
<1>4. b <= a + 1 /\ a <= b
  BY <1>2, <1>3
<1> QED
  BY <1>1, <1>2, <1>4 DEF a, b

LEMMA PrefixIs ==
  ASSUME NEW D, NEW q \in Seq(D), NEW n \in Nat
  PROVE  /\ Prefix(q, n) \in Seq(D)
         /\ Len(Prefix(q, n)) \in 0..Len(q)
         /\ \A k \in 1..Len(Prefix(q, n)) : Prefix(q, n)[k] = q[k]
<1> DEFINE m == IF Len(q) < n THEN Len(q) ELSE n
<1>1. m \in 0..Len(q) /\ Len(q) \in Nat
  OBVIOUS
<1>2. Prefix(q, n) = SubSeq(q, 1, m)
  BY DEF Prefix
<1> HIDE DEF m
<1>3. /\ SubSeq(q, 1, m) \in Seq(D) /\ Len(SubSeq(q, 1, m)) = m
      /\ \A k \in 1..m : SubSeq(q, 1, m)[k] = q[k]
  BY <1>1
<1> QED
  BY <1>1, <1>2, <1>3

-----------------------------------------------------------------------------
(* Error samples: what is read of the XML files *)

Here(m) == IF m \in present THEN inXml[m] ELSE <<>>
ReadFrom(rd, m) ==
  IF m > slaves THEN <<>>
  ELSE Prefix(Here(m), XmlScan) \o (IF Len(Here(m)) >= XmlScan THEN <<>> ELSE rd[m + 1])
Reads(rd) == rd = [m \in 0..slaves + 1 |-> ReadFrom(rd, m)]

LEMMA XmlErrorsAre == XmlErrors = (CHOOSE rd : Reads(rd))[0]
BY DEF XmlErrors, Reads, ReadFrom, Here

LEMMA ReadTyped ==
  ASSUME ErrorTypeOK, NEW m \in 0..slaves + 1, NEW rd,
         m <= slaves => rd[m + 1] \in Seq(Error)
  PROVE  ReadFrom(rd, m) \in Seq(Error)
<1>1. slaves \in Nat /\ XmlScan \in Nat
  BY ErrorSamplesAssumption DEF ErrorTypeOK
<1>2. Here(m) \in Seq(Error)
  <2>1. <<>> \in Seq(Error)
    OBVIOUS
  <2>2. \A n \in present : inXml[n] \in Seq(Error)
    BY DEF ErrorTypeOK
  <2> QED
    BY <2>1, <2>2 DEF Here
<1>3. Prefix(Here(m), XmlScan) \in Seq(Error) /\ <<>> \in Seq(Error)
  BY <1>1, <1>2, PrefixIs
<1> DEFINE p == Prefix(Here(m), XmlScan)
           cut == Len(Here(m)) >= XmlScan
<1>4. ReadFrom(rd, m) = IF m > slaves THEN <<>> ELSE p \o (IF cut THEN <<>> ELSE rd[m + 1])
  BY DEF ReadFrom
<1> HIDE DEF p, cut
<1>5. p \in Seq(Error)
  BY <1>3 DEF p
<1>6. m > slaves \/ m <= slaves
  BY <1>1
<1> DEFINE rest == IF cut THEN <<>> ELSE rd[m + 1]
<1>7. m <= slaves => rest \in Seq(Error)
  BY <1>3
<1>8. ReadFrom(rd, m) = IF m > slaves THEN <<>> ELSE p \o rest
  BY <1>4
<1> HIDE DEF rest
<1>9. rest \in Seq(Error) => p \o rest \in Seq(Error)
  BY <1>5
<1> QED
  BY <1>3, <1>6, <1>7, <1>8, <1>9

LEMMA ReadsExist ==
  ASSUME ErrorTypeOK
  PROVE  \E rd : Reads(rd)
<1> DEFINE c == slaves
           V == Seq(Error)
           T == {m \in Nat : \E rd \in [0..c + 1 -> V] : \A f \in 0..c + 1 :
                   f > c - m => rd[f] = ReadFrom(rd, f)}
<1>1. c \in Nat
  BY ErrorSamplesAssumption DEF ErrorTypeOK
<1>2. 0 \in T
  <2> DEFINE z == [f \in 0..c + 1 |-> <<>>]
  <2>1. z \in [0..c + 1 -> V] /\ \A f \in 0..c + 1 : z[f] = <<>>
    OBVIOUS
  <2> HIDE DEF z
  <2>2. \A f \in 0..c + 1 : f > c - 0 => z[f] = ReadFrom(z, f)
    BY <1>1, <2>1 DEF ReadFrom
  <2> QED
    BY <2>1, <2>2
<1>3. ASSUME NEW m \in T PROVE m + 1 \in T
  <2>1. PICK rd \in [0..c + 1 -> V] : \A f \in 0..c + 1 : f > c - m => rd[f] = ReadFrom(rd, f)
    OBVIOUS
  <2> DEFINE z == [f \in 0..c + 1 |-> ReadFrom(rd, f)]
  <2>2. \A f \in 0..c + 1 : z[f] = ReadFrom(rd, f)
    OBVIOUS
  <2>3. \A f \in 0..c + 1 : ReadFrom(rd, f) \in V
    <3> SUFFICES ASSUME NEW f \in 0..c + 1 PROVE ReadFrom(rd, f) \in V
      OBVIOUS
    <3>1. f <= c => f + 1 \in 0..c + 1
      BY <1>1
    <3>2. f <= slaves => rd[f + 1] \in Seq(Error)
      BY <2>1, <3>1
    <3> QED
      BY <3>2, ReadTyped
  <2>4. z \in [0..c + 1 -> V]
    BY <2>3
  <2> HIDE DEF z
  <2>5. ASSUME NEW f \in 0..c + 1, f > c - (m + 1) PROVE z[f] = ReadFrom(z, f)
    <3>1. CASE f > c
      BY <1>1, <2>2, <3>1 DEF ReadFrom
    <3>2. CASE f <= c
      <4>1. f + 1 \in 0..c + 1 /\ f + 1 > c - m /\ m \in Nat
        BY <1>1, <2>5, <3>2
      <4>2. rd[f + 1] = z[f + 1]
        BY <2>1, <2>2, <4>1
      <4>3. ReadFrom(z, f) = ReadFrom(rd, f)
        BY <4>2 DEF ReadFrom
      <4> QED
        BY <2>2, <4>3
    <3> QED
      BY <1>1, <3>1, <3>2
  <2>6. m + 1 \in Nat
    OBVIOUS
  <2> QED
    BY <2>4, <2>5, <2>6
<1>4. T \subseteq Nat
  OBVIOUS
<1> HIDE DEF T
<1>5. \A m \in T : m + 1 \in T
  BY <1>3
<1>6. T = Nat
  BY <1>2, <1>4, <1>5, Induction
<1>7. c + 1 \in T
  BY <1>1, <1>6
<1>8. PICK rd \in [0..c + 1 -> V] : \A f \in 0..c + 1 :
        f > c - (c + 1) => rd[f] = ReadFrom(rd, f)
  BY <1>7 DEF T
<1>9. \A f \in 0..c + 1 : rd[f] = ReadFrom(rd, f)
  BY <1>1, <1>8
<1>10. rd = [f \in 0..c + 1 |-> ReadFrom(rd, f)]
  <2> DEFINE z == [f \in 0..c + 1 |-> ReadFrom(rd, f)]
  <2>1. z = [f \in 0..c + 1 |-> z[f]] /\ \A f \in 0..c + 1 : z[f] = ReadFrom(rd, f)
    OBVIOUS
  <2> HIDE DEF z
  <2>2. rd = z
    BY <1>8, <1>9, <2>1
  <2> QED
    BY <2>2 DEF z
<1> QED
  BY <1>10 DEF Reads

LEMMA XmlErrorsTyped ==
  ASSUME ErrorTypeOK
  PROVE  XmlErrors \in Seq(Error)
<1> DEFINE c == slaves
           V == Seq(Error)
           rd == CHOOSE r : Reads(r)
           T == {m \in Nat : \A f \in 0..c + 1 : f > c - m => rd[f] \in V}
<1>1. c \in Nat
  BY ErrorSamplesAssumption DEF ErrorTypeOK
<1>2. Reads(rd)
  BY ReadsExist, Zenon
<1> HIDE DEF rd
<1>3. \A f \in 0..c + 1 : rd[f] = ReadFrom(rd, f)
  <2> DEFINE z == [f \in 0..c + 1 |-> ReadFrom(rd, f)]
  <2>1. rd = z /\ \A f \in 0..c + 1 : z[f] = ReadFrom(rd, f)
    BY <1>2 DEF Reads
  <2> HIDE DEF z
  <2> QED
    BY <2>1
<1>4. 0 \in T
  <2>1. ASSUME NEW f \in 0..c + 1, f > c - 0 PROVE rd[f] \in V
    <3>1. ~(f <= c)
      BY <1>1, <2>1
    <3>2. ReadFrom(rd, f) \in V
      BY <3>1, ReadTyped
    <3> QED
      BY <1>3, <3>2
  <2> QED
    BY <2>1
<1>5. ASSUME NEW m \in T PROVE m + 1 \in T
  <2>1. ASSUME NEW f \in 0..c + 1, f > c - (m + 1) PROVE rd[f] \in V
    <3>1. f <= c => f + 1 \in 0..c + 1 /\ f + 1 > c - m
      BY <1>1, <2>1
    <3>2. f <= slaves => rd[f + 1] \in Seq(Error)
      BY <3>1
    <3>3. ReadFrom(rd, f) \in V
      BY <3>2, ReadTyped
    <3> QED
      BY <1>3, <3>3
  <2>2. m + 1 \in Nat
    OBVIOUS
  <2> QED
    BY <2>1, <2>2
<1>6. T \subseteq Nat
  OBVIOUS
<1> HIDE DEF T
<1>7. \A m \in T : m + 1 \in T
  BY <1>5
<1>8. T = Nat
  BY <1>4, <1>6, <1>7, Induction
<1>9. c + 1 \in T /\ 0 \in 0..c + 1 /\ 0 > c - (c + 1)
  BY <1>1, <1>8
<1>10. rd[0] \in V
  BY <1>9 DEF T
<1> QED
  BY <1>10, XmlErrorsAre DEF rd

-----------------------------------------------------------------------------
(* Error samples: what is kept *)

KeysApart(had) == \A s, t \in had : s.key = t.key => s = t

\* What is kept beside the listeners' samples stays within the limits.
Showable(had, heard, limit) ==
  /\ had \subseteq Error /\ IsFiniteSet(had) /\ heard \subseteq had
  /\ KeysApart(had)
  /\ \A type \in ErrorType : \/ Cardinality(OfType(had, type)) <= PerType
                             \/ OfType(had, type) \subseteq heard
  /\ Cardinality(had) <= limit \/ had = heard

\* An error is shown, or there is no room for it.
Represented(had, s, limit) ==
  \/ s.key \in KeysOf(had)
  \/ Cardinality(OfType(had, s.type)) >= PerType
  \/ Cardinality(had) >= limit

LEMMA OfTypeWith ==
  ASSUME NEW had, IsFiniteSet(had), NEW s, NEW type
  PROVE  /\ Cardinality(OfType(had, type)) \in Nat
         /\ Cardinality(OfType(had \cup {s}, type)) \in Nat
         /\ Cardinality(OfType(had, type)) <= Cardinality(OfType(had \cup {s}, type))
         /\ s.type = type => Cardinality(OfType(had \cup {s}, type))
                               <= Cardinality(OfType(had, type)) + 1
         /\ s.type # type => OfType(had \cup {s}, type) = OfType(had, type)
<1>1. IsFiniteSet(OfType(had, type))
  BY FS_Subset DEF OfType
<1>2. CASE s.type = type
  <2>1. OfType(had \cup {s}, type) = OfType(had, type) \cup {s}
    BY <1>2 DEF OfType
  <2> QED
    BY <1>1, <1>2, <2>1, OneMore
<1>3. CASE s.type # type
  <2>1. OfType(had \cup {s}, type) = OfType(had, type)
    BY <1>3 DEF OfType
  <2>2. Cardinality(OfType(had, type)) \in Nat
    BY <1>1, FS_CardinalityType
  <2> QED
    BY <1>3, <2>1, <2>2
<1> QED
  BY <1>2, <1>3

LEMMA KeptStep ==
  ASSUME NEW limit \in Nat, NEW heard, NEW had, Showable(had, heard, limit), NEW s \in Error
  PROVE  LET more == AppendIfAllowed(had, s, limit) IN
         /\ Showable(more, heard, limit)
         /\ more = had \/ more = had \cup {s}
         /\ Represented(more, s, limit)
<1> DEFINE more == AppendIfAllowed(had, s, limit)
           full == \/ Cardinality(OfType(had, s.type)) >= PerType
                   \/ Cardinality(had) >= limit
                   \/ s.key \in KeysOf(had)
<1>1. more = IF full THEN had ELSE had \cup {s}
  BY DEF AppendIfAllowed
<1>2. /\ had \subseteq Error /\ IsFiniteSet(had) /\ heard \subseteq had /\ KeysApart(had)
      /\ PerType \in Nat
  BY ErrorSamplesAssumption DEF Showable
<1> HIDE DEF more
<1>3. CASE full
  <2>1. more = had
    BY <1>1, <1>3
  <2>2. Represented(more, s, limit)
    BY <1>3, <2>1 DEF Represented
  <2> QED
    BY <2>1, <2>2 DEF more
<1>4. CASE ~full
  <2>1. more = had \cup {s} /\ s.key \notin KeysOf(had)
    BY <1>1, <1>4
  <2>2. more \subseteq Error /\ heard \subseteq more
    BY <1>2, <2>1
  <2>3. /\ IsFiniteSet(more) /\ Cardinality(more) <= Cardinality(had) + 1
        /\ Cardinality(more) \in Nat /\ Cardinality(had) \in Nat
    BY <1>2, <2>1, OneMore
  <2>4. Cardinality(more) <= limit
    BY <1>4, <2>3
  <2>5. KeysApart(more)
    BY <1>2, <2>1 DEF KeysApart, KeysOf
  <2>6. ASSUME NEW type \in ErrorType
        PROVE  \/ Cardinality(OfType(more, type)) <= PerType
               \/ OfType(more, type) \subseteq heard
    <3> DEFINE a == Cardinality(OfType(had, type))
               b == Cardinality(OfType(more, type))
    <3>1. /\ a \in Nat /\ b \in Nat
          /\ s.type = type => b <= a + 1
          /\ s.type # type => OfType(more, type) = OfType(had, type)
      BY <1>2, <2>1, OfTypeWith
    <3>2. CASE s.type = type
      <4>1. ~(a >= PerType)
        BY <1>4, <3>2
      <4> HIDE DEF a, b
      <4>2. b <= PerType
        BY <1>2, <3>1, <3>2, <4>1
      <4> QED
        BY <4>2 DEF b
    <3>3. CASE s.type # type
      BY <3>1, <3>3 DEF Showable
    <3> QED
      BY <3>2, <3>3
  <2>7. Showable(more, heard, limit)
    BY <2>2, <2>3, <2>4, <2>5, <2>6 DEF Showable
  <2>8. Represented(more, s, limit)
    BY <2>1 DEF Represented, KeysOf
  <2> QED
    BY <2>1, <2>7, <2>8 DEF more
<1> QED
  BY <1>3, <1>4

LEMMA StaysRepresented ==
  ASSUME NEW limit \in Nat, NEW had, IsFiniteSet(had), NEW s, NEW t,
         Represented(had, t, limit)
  PROVE  Represented(had \cup {s}, t, limit)
<1> DEFINE a == Cardinality(OfType(had, t.type))
           b == Cardinality(OfType(had \cup {s}, t.type))
           m == Cardinality(had)
           n == Cardinality(had \cup {s})
<1>1. a \in Nat /\ b \in Nat /\ a <= b
  BY OfTypeWith
<1>2. m \in Nat /\ n \in Nat /\ m <= n
  BY OneMore
<1>3. PerType \in Nat
  BY ErrorSamplesAssumption
<1>4. t.key \in KeysOf(had) \/ a >= PerType \/ m >= limit
  BY DEF Represented
<1>5. KeysOf(had) \subseteq KeysOf(had \cup {s})
  BY DEF KeysOf
<1> HIDE DEF a, b, m, n
<1>6. t.key \in KeysOf(had \cup {s}) \/ b >= PerType \/ n >= limit
  BY <1>1, <1>2, <1>3, <1>4, <1>5
<1> QED
  BY <1>6 DEF Represented, b, n

\* A file that is merged leaves what may be shown, and represents its errors.
LEMMA MergeKeeps ==
  ASSUME NEW limit \in Nat, NEW heard, NEW base, Showable(base, heard, limit),
         NEW seq \in Seq(Error)
  PROVE  /\ Showable(Merge(base, seq, limit), heard, limit)
         /\ \A j \in 1..Len(seq) : Represented(Merge(base, seq, limit), seq[j], limit)
<1>1. PICK F : Merging(F, base, seq, limit) /\ Merge(base, seq, limit) = F[Len(seq)]
  <2>1. base \in SUBSET Error
    BY DEF Showable
  <2> QED
    BY <2>1, MergeFolds
<1> DEFINE n == Len(seq)
           Fine(i) == /\ Showable(F[i], heard, limit)
                      /\ \A j \in 1..i : Represented(F[i], seq[j], limit)
           T == {i \in Nat : i <= n => Fine(i)}
<1>2. n \in Nat /\ \A i \in 1..n : seq[i] \in Error
  OBVIOUS
<1>3. 0 \in T
  BY <1>1 DEF Merging
<1>4. ASSUME NEW i \in T PROVE i + 1 \in T
  <2> SUFFICES ASSUME i + 1 <= n PROVE Fine(i + 1)
    OBVIOUS
  <2>1. i \in Nat /\ i \in 0..n - 1 /\ i + 1 \in 1..n /\ Fine(i)
    BY <1>2
  <2>2. F[i + 1] = AppendIfAllowed(F[i], seq[i + 1], limit)
    BY <1>1, <2>1 DEF Merging
  <2>3. seq[i + 1] \in Error
    BY <1>2, <2>1
  <2>4. /\ Showable(F[i + 1], heard, limit)
        /\ F[i + 1] = F[i] \/ F[i + 1] = F[i] \cup {seq[i + 1]}
        /\ Represented(F[i + 1], seq[i + 1], limit)
    BY <2>1, <2>2, <2>3, KeptStep
  <2>5. ASSUME NEW j \in 1..i PROVE Represented(F[i + 1], seq[j], limit)
    <3>1. Represented(F[i], seq[j], limit) /\ IsFiniteSet(F[i])
      BY <2>1 DEF Showable
    <3>2. Represented(F[i] \cup {seq[i + 1]}, seq[j], limit)
      BY <3>1, StaysRepresented
    <3> QED
      BY <2>4, <3>1, <3>2
  <2>6. \A j \in 1..i + 1 : j \in 1..i \/ j = i + 1
    BY <2>1
  <2> QED
    BY <2>4, <2>5, <2>6
<1>5. T \subseteq Nat
  OBVIOUS
<1> HIDE DEF T
<1>6. \A i \in T : i + 1 \in T
  BY <1>4
<1>7. T = Nat
  BY <1>3, <1>5, <1>6, Induction
<1>8. Fine(n)
  BY <1>2, <1>7 DEF T
<1> QED
  BY <1>1, <1>8

-----------------------------------------------------------------------------
(* Error samples: what the listeners write *)

\* A file of so many listeners has so many shares at most.
Within(q, shares) ==
  /\ \A type \in ErrorType : Cardinality(RowsOfType(q, type)) <= PerType * shares
  /\ Len(q) <= InAll * shares

LEMMA SharesGrow ==
  ASSUME NEW a \in Nat, NEW m \in Nat, NEW n \in Nat, m <= n
  PROVE  a * m <= a * n /\ a * m \in Nat /\ a * n \in Nat /\ a * (m + 1) = a * m + a
<1> DEFINE d == n - m
<1>1. d \in Nat /\ n = m + d
  OBVIOUS
<1> HIDE DEF d
<1>2. a * (m + d) = a * m + a * d
  BY <1>1
<1>3. a * d \in Nat /\ a * m \in Nat
  BY <1>1
<1>4. a * (m + 1) = a * m + a
  OBVIOUS
<1> QED
  BY <1>1, <1>2, <1>3, <1>4

LEMMA RowsFinite ==
  ASSUME NEW q \in Seq(Error), NEW type
  PROVE  IsFiniteSet(RowsOfType(q, type)) /\ Cardinality(RowsOfType(q, type)) \in Nat
<1>1. DOMAIN q = 1..Len(q) /\ Len(q) \in Nat
  OBVIOUS
<1>2. IsFiniteSet(1..Len(q))
  BY <1>1, FS_Interval
<1>3. RowsOfType(q, type) \subseteq 1..Len(q)
  BY <1>1 DEF RowsOfType
<1> QED
  BY <1>2, <1>3, SmallerSet

LEMMA WithinMore ==
  ASSUME NEW q \in Seq(Error), NEW m \in Nat, NEW n \in Nat, m <= n, Within(q, m)
  PROVE  Within(q, n)
<1>1. PerType \in Nat /\ InAll \in Nat
  BY ErrorSamplesAssumption
<1>2. /\ PerType * m <= PerType * n /\ PerType * m \in Nat /\ PerType * n \in Nat
      /\ InAll * m <= InAll * n /\ InAll * m \in Nat /\ InAll * n \in Nat
  BY <1>1, SharesGrow
<1> DEFINE a == PerType * m
           b == PerType * n
           c == InAll * m
           d == InAll * n
<1>3. Len(q) <= c /\ Len(q) \in Nat
  BY DEF Within
<1>4. \A type \in ErrorType : Cardinality(RowsOfType(q, type)) <= a
  BY DEF Within
<1>5. \A type : Cardinality(RowsOfType(q, type)) \in Nat
  BY RowsFinite
<1>6. a \in Nat /\ b \in Nat /\ a <= b /\ c \in Nat /\ d \in Nat /\ c <= d
  BY <1>2
<1> HIDE DEF a, b, c, d
<1>7. \A type \in ErrorType : Cardinality(RowsOfType(q, type)) <= b
  BY <1>4, <1>5, <1>6
<1>8. Len(q) <= d
  BY <1>3, <1>6
<1> QED
  BY <1>7, <1>8 DEF Within, b, d

LEMMA WithinAppend ==
  ASSUME NEW q \in Seq(Error), NEW s \in Error, Within(q, 1),
         Cardinality(RowsOfType(q, s.type)) < PerType, Len(q) < InAll
  PROVE  Within(Append(q, s), 1)
<1>1. PerType \in Nat /\ InAll \in Nat /\ PerType * 1 = PerType /\ InAll * 1 = InAll
  BY ErrorSamplesAssumption
<1> DEFINE p == Append(q, s)
           n == Len(q)
<1>2. /\ n \in Nat /\ p \in Seq(Error) /\ Len(p) = n + 1 /\ DOMAIN p = 1..n + 1
      /\ DOMAIN q = 1..n /\ p[n + 1] = s /\ \A i \in 1..n : p[i] = q[i]
  OBVIOUS
<1>3. \A i \in 1..n + 1 : i \in 1..n \/ i = n + 1
  BY <1>2
<1>4. 1..n \subseteq 1..n + 1 /\ n + 1 \in 1..n + 1
  BY <1>2
<1> HIDE DEF p
<1>5. ASSUME NEW type \in ErrorType
      PROVE  Cardinality(RowsOfType(p, type)) <= PerType
  <2> DEFINE a == Cardinality(RowsOfType(q, type))
             b == Cardinality(RowsOfType(p, type))
  <2>1. /\ IsFiniteSet(RowsOfType(q, type)) /\ a \in Nat /\ a <= PerType
    BY <1>1, RowsFinite DEF Within
  <2>2. CASE s.type = type
    <3>1. RowsOfType(p, type) = RowsOfType(q, type) \cup {n + 1}
      BY <1>2, <1>3, <1>4, <2>2 DEF RowsOfType
    <3>2. b <= a + 1 /\ b \in Nat
      BY <2>1, <3>1, OneMore
    <3>3. a < PerType
      BY <2>2
    <3> HIDE DEF a, b
    <3>4. b <= PerType
      BY <1>1, <2>1, <3>2, <3>3
    <3> QED
      BY <3>4 DEF b
  <2>3. CASE s.type # type
    <3>1. RowsOfType(p, type) = RowsOfType(q, type)
      BY <1>2, <1>3, <1>4, <2>3 DEF RowsOfType
    <3> QED
      BY <2>1, <3>1
  <2> QED
    BY <2>2, <2>3
<1>6. Len(p) <= InAll
  BY <1>1, <1>2
<1> QED
  BY <1>1, <1>5, <1>6 DEF Within, p

LEMMA WithinJoined ==
  ASSUME NEW q \in Seq(Error), NEW r \in Seq(Error), NEW m \in Nat,
         Within(q, m), Within(r, 1)
  PROVE  Within(q \o r, m + 1)
<1>1. /\ PerType \in Nat /\ InAll \in Nat /\ PerType * 1 = PerType /\ InAll * 1 = InAll
      /\ PerType * (m + 1) = PerType * m + PerType /\ PerType * m \in Nat
      /\ InAll * (m + 1) = InAll * m + InAll /\ InAll * m \in Nat
  <2>1. PerType \in Nat /\ InAll \in Nat
    BY ErrorSamplesAssumption
  <2> QED
    BY <2>1, SharesGrow
<1> DEFINE p == q \o r
           n == Len(q)
           w == PerType * m
           v == InAll * m
<1>2. /\ n \in Nat /\ Len(r) \in Nat /\ Len(p) = n + Len(r) /\ p \in Seq(Error)
      /\ DOMAIN p = 1..n + Len(r) /\ DOMAIN q = 1..n /\ DOMAIN r = 1..Len(r)
      /\ \A i \in 1..n : p[i] = q[i]
      /\ \A i \in 1..n + Len(r) : i \notin 1..n => i - n \in 1..Len(r) /\ p[i] = r[i - n]
  OBVIOUS
<1>3. Len(q) <= v /\ Len(r) <= InAll
  BY <1>1 DEF Within
<1>4. v \in Nat /\ w \in Nat /\ InAll * (m + 1) = v + InAll /\ PerType * (m + 1) = w + PerType
  BY <1>1
<1> HIDE DEF p
<1>5. ASSUME NEW type \in ErrorType
      PROVE  Cardinality(RowsOfType(p, type)) <= w + PerType
  <2> DEFINE shift == [i \in RowsOfType(r, type) |-> n + i]
             A == RowsOfType(q, type)
             B == ImageOf(RowsOfType(r, type), shift)
             a == Cardinality(A)
             b == Cardinality(B)
             c == Cardinality(RowsOfType(p, type))
  <2>1. IsFiniteSet(A) /\ a \in Nat /\ a <= w
    BY RowsFinite DEF Within
  <2>2. /\ IsFiniteSet(RowsOfType(r, type)) /\ Cardinality(RowsOfType(r, type)) \in Nat
        /\ Cardinality(RowsOfType(r, type)) <= PerType
    BY <1>1, RowsFinite DEF Within
  <2>3. IsFiniteSet(B) /\ b \in Nat /\ b <= Cardinality(RowsOfType(r, type))
    <3> HIDE DEF shift
    <3> QED
      BY <2>2, ImageNoLarger
  <2>4. RowsOfType(p, type) \subseteq A \cup B
    <3>1. ASSUME NEW i \in RowsOfType(p, type) PROVE i \in A \cup B
      <4>1. i \in 1..n + Len(r) /\ p[i].type = type
        BY <1>2 DEF RowsOfType
      <4>2. CASE i \in 1..n
        BY <1>2, <4>1, <4>2 DEF RowsOfType
      <4>3. CASE i \notin 1..n
        <5>1. i - n \in RowsOfType(r, type) /\ n + (i - n) = i
          BY <1>2, <4>1, <4>3 DEF RowsOfType
        <5>2. shift[i - n] = i
          BY <5>1
        <5> QED
          BY <5>1, <5>2 DEF ImageOf
      <4> QED
        BY <4>2, <4>3
    <3> QED
      BY <3>1
  <2> HIDE DEF A, B
  <2>5. IsFiniteSet(A \cup B) /\ Cardinality(A \cup B) <= a + b /\ Cardinality(A \cup B) \in Nat
    <3>1. /\ IsFiniteSet(A \cup B)
          /\ Cardinality(A \cup B) = Cardinality(A) + Cardinality(B) - Cardinality(A \cap B)
      BY <2>1, <2>3, FS_Union
    <3>2. Cardinality(A \cap B) \in Nat
      BY <2>1, SmallerSet
    <3>3. Cardinality(A \cup B) \in Nat
      BY <3>1, FS_CardinalityType
    <3> QED
      BY <2>1, <2>3, <3>1, <3>2, <3>3
  <2>6. c \in Nat /\ c <= Cardinality(A \cup B)
    BY <2>4, <2>5, SmallerSet
  <2> HIDE DEF a, b, c, w
  <2>7. c <= w + PerType
    BY <1>1, <1>4, <2>1, <2>2, <2>3, <2>5, <2>6
  <2> QED
    BY <2>7 DEF c
<1>6. Len(p) <= v + InAll
  BY <1>1, <1>2, <1>3, <1>4
<1> QED
  BY <1>4, <1>5, <1>6 DEF Within, p

\* The listeners' samples are no more than their rows.
LEMMA HeardIs ==
  ASSUME ErrorTypeOK
  PROVE  /\ Heard \subseteq Error /\ IsFiniteSet(Heard) /\ KeysApart(Heard)
         /\ Cardinality(Heard) \in Nat /\ Cardinality(Heard) <= Len(listened[0])
         /\ \A type : /\ Cardinality(OfType(Heard, type)) \in Nat
                      /\ Cardinality(OfType(Heard, type))
                           <= Cardinality(RowsOfType(listened[0], type))
<1> DEFINE q == listened[0]
           first == {i \in DOMAIN q : \A j \in 1..i - 1 : q[j].key # q[i].key}
<1>1. q \in Seq(Error) /\ DOMAIN q = 1..Len(q) /\ Len(q) \in Nat
  <2>1. slaves \in Nat
    BY ErrorSamplesAssumption DEF ErrorTypeOK
  <2>2. 0 \in 0..slaves
    BY <2>1
  <2>3. q \in Seq(Error)
    BY <2>2 DEF ErrorTypeOK
  <2> QED
    BY <2>3
<1>2. Heard = ImageOf(first, q)
  BY DEF Heard, ImageOf
<1>3. first \subseteq 1..Len(q) /\ \A i \in first : q[i] \in Error
  BY <1>1
<1>4. IsFiniteSet(1..Len(q)) /\ Cardinality(1..Len(q)) = Len(q)
  <2> DEFINE n == Len(q)
  <2>1. n \in Int /\ 1 \in Int /\ n >= 0
    BY <1>1
  <2> HIDE DEF n
  <2>2. IsFiniteSet(1..n) /\ Cardinality(1..n) = (IF 1 > n THEN 0 ELSE n - 1 + 1)
    BY <2>1, FS_Interval
  <2>3. IsFiniteSet(1..n) /\ Cardinality(1..n) = n
    BY <2>1, <2>2
  <2> QED
    BY <2>3 DEF n
<1>5. IsFiniteSet(first) /\ Cardinality(first) <= Len(q) /\ Cardinality(first) \in Nat
  BY <1>3, <1>4, SmallerSet
<1>6. KeysApart(Heard)
  <2>1. ASSUME NEW i \in first, NEW j \in first, q[i].key = q[j].key PROVE q[i] = q[j]
    <3>1. i \in Nat /\ j \in Nat /\ i >= 1 /\ j >= 1
      BY <1>1, <1>3
    <3>2. ~(i < j) /\ ~(j < i)
      BY <2>1, <3>1
    <3>3. i = j
      BY <3>1, <3>2
    <3> QED
      BY <3>3
  <2> QED
    BY <1>2, <2>1 DEF KeysApart, ImageOf
<1> HIDE DEF first, q
<1>7. Heard \subseteq Error
  BY <1>2, <1>3 DEF ImageOf
<1>8. /\ IsFiniteSet(Heard) /\ Cardinality(Heard) \in Nat
      /\ Cardinality(Heard) <= Len(q)
  <2>1. /\ IsFiniteSet(Heard) /\ Cardinality(Heard) \in Nat
        /\ Cardinality(Heard) <= Cardinality(first)
    BY <1>2, <1>5, ImageNoLarger
  <2> QED
    BY <1>1, <1>5, <2>1
<1>9. ASSUME NEW type
      PROVE  /\ Cardinality(OfType(Heard, type)) \in Nat
             /\ Cardinality(OfType(Heard, type)) <= Cardinality(RowsOfType(q, type))
  <2> DEFINE some == ImageOf(RowsOfType(q, type), q)
  <2>1. OfType(Heard, type) \subseteq some
    BY <1>1, <1>2, <1>3 DEF OfType, ImageOf, RowsOfType
  <2>2. IsFiniteSet(RowsOfType(q, type))
    BY <1>1, RowsFinite
  <2>3. /\ IsFiniteSet(some) /\ Cardinality(some) \in Nat
        /\ Cardinality(some) <= Cardinality(RowsOfType(q, type))
        /\ Cardinality(RowsOfType(q, type)) \in Nat
    BY <2>2, ImageNoLarger
  <2> HIDE DEF some
  <2>4. /\ Cardinality(OfType(Heard, type)) \in Nat
        /\ Cardinality(OfType(Heard, type)) <= Cardinality(some)
    BY <2>1, <2>3, SmallerSet
  <2> QED
    BY <2>3, <2>4
<1> QED
  BY <1>6, <1>7, <1>8, <1>9 DEF q

\* Each listener keeps to one share, and the master's file has those of the
\* slaves that were asked for theirs.
ErrorInv ==
  /\ ErrorTypeOK
  /\ \A e \in Engines : Within(listened[e], 1)
  /\ slaves # 0 => Within(listened[0], fetched)

Shares == IF slaves = 0 THEN 1 ELSE slaves

LEMMA HeardWithin ==
  ASSUME ErrorInv
  PROVE  Within(listened[0], Shares) /\ Shares \in Nat /\ Shares >= 1
<1>1. slaves \in Nat /\ fetched \in 0..slaves /\ 0 \in 0..slaves
  BY ErrorSamplesAssumption DEF ErrorInv, ErrorTypeOK
<1>2. listened[0] \in Seq(Error)
  BY <1>1 DEF ErrorInv, ErrorTypeOK
<1>3. CASE slaves = 0
  BY <1>3 DEF ErrorInv, Engines, Shares
<1>4. CASE slaves # 0
  <2>1. Within(listened[0], fetched) /\ fetched \in Nat /\ fetched <= slaves
    BY <1>1, <1>4 DEF ErrorInv
  <2>2. Within(listened[0], slaves)
    BY <1>1, <1>2, <2>1, WithinMore
  <2> QED
    BY <1>1, <1>4, <2>2 DEF Shares
<1> QED
  BY <1>3, <1>4

LEMMA ErrorsRepresented == ErrorInv => TypesRepresented
<1> SUFFICES ASSUME ErrorInv PROVE TypesRepresented
  OBVIOUS
<1> DEFINE limit == IF InAll < InAll THEN InAll ELSE InAll
           withXml == Merge(Heard, XmlErrors, InAll)
           shown == Merge(withXml, JtlErrors, InAll)
<1>0. /\ limit = InAll /\ InAll \in Nat /\ JtlScan \in Nat /\ PerType \in Nat
      /\ ErrorTypeOK
  BY ErrorSamplesAssumption DEF ErrorInv
<1>1. CollectErrorSamples(InAll, TRUE) = shown
  BY <1>0 DEF CollectErrorSamples, Merge
<1>2. /\ Heard \subseteq Error /\ IsFiniteSet(Heard) /\ KeysApart(Heard)
      /\ Cardinality(Heard) \in Nat /\ Cardinality(Heard) <= Len(listened[0])
      /\ \A type : /\ Cardinality(OfType(Heard, type)) \in Nat
                   /\ Cardinality(OfType(Heard, type))
                        <= Cardinality(RowsOfType(listened[0], type))
  BY <1>0, HeardIs
<1>3. Showable(Heard, Heard, InAll)
  <2>1. \A type : OfType(Heard, type) \subseteq Heard
    BY DEF OfType
  <2> QED
    BY <1>2, <2>1 DEF Showable
<1>4. XmlErrors \in Seq(Error)
  BY <1>0, XmlErrorsTyped
<1>5. Showable(withXml, Heard, InAll)
  BY <1>0, <1>3, <1>4, MergeKeeps
<1> HIDE DEF withXml
<1>6. /\ JtlErrors \in Seq(Error)
      /\ \A k \in 1..Len(JtlErrors) : JtlErrors[k] = logged[k]
  <2>1. logged \in Seq(Error)
    BY <1>0 DEF ErrorTypeOK
  <2> QED
    BY <1>0, <2>1, PrefixIs DEF JtlErrors
<1>7. /\ Showable(shown, Heard, InAll)
      /\ \A j \in 1..Len(JtlErrors) : Represented(shown, JtlErrors[j], InAll)
  BY <1>0, <1>5, <1>6, MergeKeeps
<1> HIDE DEF shown
<1>8. /\ Within(listened[0], Shares) /\ Shares \in Nat /\ Shares >= 1
      /\ listened[0] \in Seq(Error)
  <2>1. slaves \in Nat
    BY ErrorSamplesAssumption DEF ErrorInv, ErrorTypeOK
  <2>2. 0 \in 0..slaves
    BY <2>1
  <2>3. listened[0] \in Seq(Error)
    BY <2>2 DEF ErrorInv, ErrorTypeOK
  <2> QED
    BY <2>3, HeardWithin
<1>9. /\ PerType * Shares \in Nat /\ PerType <= PerType * Shares
      /\ InAll * Shares \in Nat /\ InAll <= InAll * Shares
  <2>1. PerType * 1 = PerType /\ InAll * 1 = InAll
    BY <1>0
  <2> QED
    BY <1>0, <1>8, <2>1, SharesGrow
<1> DEFINE w == PerType * Shares
           v == InAll * Shares
<1>10. w \in Nat /\ PerType <= w /\ v \in Nat /\ InAll <= v
  BY <1>9
<1>11. /\ Len(listened[0]) <= v /\ Len(listened[0]) \in Nat
       /\ \A type \in ErrorType : /\ Cardinality(RowsOfType(listened[0], type)) <= w
                                  /\ Cardinality(RowsOfType(listened[0], type)) \in Nat
  BY <1>8, RowsFinite DEF Within
<1> HIDE DEF w, v
<1>12. IsFiniteSet(shown) /\ Cardinality(shown) \in Nat /\ KeysApart(shown) /\ Heard \subseteq shown
  BY <1>7, FS_CardinalityType DEF Showable
<1>13. ASSUME NEW type \in ErrorType
       PROVE  LET count == Cardinality(OfType(shown, type)) IN
              count <= w /\ (count > PerType => OfType(shown, type) \subseteq Heard)
  <2> DEFINE count == Cardinality(OfType(shown, type))
             h == Cardinality(OfType(Heard, type))
             r == Cardinality(RowsOfType(listened[0], type))
  <2>1. count \in Nat /\ h \in Nat /\ h <= r /\ r <= w /\ r \in Nat
    <3>1. OfType(shown, type) \subseteq shown
      BY DEF OfType
    <3> QED
      BY <1>2, <1>11, <1>12, <3>1, SmallerSet
  <2>2. CASE count <= PerType
    BY <1>0, <1>10, <2>1, <2>2
  <2>3. CASE OfType(shown, type) \subseteq Heard
    <3>1. OfType(shown, type) = OfType(Heard, type)
      BY <1>12, <2>3 DEF OfType
    <3>2. count = h
      BY <3>1
    <3> HIDE DEF count, h, r
    <3>3. count <= w
      BY <1>10, <2>1, <3>2
    <3> QED
      BY <2>3, <3>3 DEF count
  <2> QED
    BY <1>7, <2>2, <2>3 DEF Showable
<1>14. /\ Cardinality(shown) <= v
       /\ Cardinality(shown) > InAll => shown = Heard
  <2>1. CASE Cardinality(shown) <= InAll
    BY <1>0, <1>10, <1>12, <2>1
  <2>2. CASE shown = Heard
    <3>1. Cardinality(shown) <= v
      BY <1>2, <1>10, <1>11, <2>2
    <3> QED
      BY <2>2, <3>1
  <2> QED
    BY <1>7, <2>1, <2>2 DEF Showable
<1>15. ASSUME Cardinality(shown) < InAll, NEW i \in 1..Len(JtlErrors)
       PROVE  \/ logged[i].key \in KeysOf(shown)
              \/ Cardinality(OfType(shown, logged[i].type)) >= PerType
  <2>1. Represented(shown, logged[i], InAll)
    BY <1>6, <1>7
  <2>2. ~(Cardinality(shown) >= InAll)
    BY <1>0, <1>12, <1>15
  <2> QED
    BY <2>1, <2>2 DEF Represented
<1>16. KeysApart(shown)
  BY <1>12
<1> QED
  BY <1>1, <1>13, <1>14, <1>15, <1>16, Zenon DEF TypesRepresented, KeysApart, w, v, Shares

LEMMA ErrorInitInv == ErrorInit => ErrorInv
<1> SUFFICES ASSUME ErrorInit PROVE ErrorInv
  OBVIOUS
<1>1. slaves \in RunSlaves /\ slaves \in Nat /\ PerType \in Nat /\ InAll \in Nat /\ MaxError \in Nat
  BY ErrorSamplesAssumption DEF ErrorInit
<1>2. <<>> \in Seq(Error) /\ Len(<<>>) = 0 /\ 0 \in 0..slaves
  BY <1>1
<1>3. ErrorTypeOK
  BY <1>1, <1>2 DEF ErrorInit, ErrorTypeOK
<1>4. \A type : Cardinality(RowsOfType(<<>>, type)) = 0
  <2>1. \A type : RowsOfType(<<>>, type) = {}
    BY DEF RowsOfType
  <2> QED
    BY <2>1, FS_EmptySet
<1>5. PerType * 1 = PerType /\ PerType * 0 = 0 /\ InAll * 1 = InAll /\ InAll * 0 = 0
  BY <1>1
<1>6. Within(<<>>, 1) /\ Within(<<>>, 0)
  BY <1>1, <1>2, <1>4, <1>5 DEF Within
<1>7. \A m \in 0..slaves : listened[m] = <<>>
  BY DEF ErrorInit
<1>8. Engines \subseteq 0..slaves /\ fetched = 0
  BY <1>1 DEF Engines, ErrorInit
<1> QED
  BY <1>2, <1>3, <1>6, <1>7, <1>8 DEF ErrorInv

LEMMA ErrorStep == ErrorInv /\ [ErrorNext]_errorVars => ErrorInv'
<1> SUFFICES ASSUME ErrorInv, [ErrorNext]_errorVars PROVE ErrorInv'
  OBVIOUS
<1> USE DEF ErrorInv
<1>1. /\ slaves \in Nat /\ slaves \in RunSlaves
      /\ listened \in [0..slaves -> Seq(Error)] /\ inXml \in [0..slaves -> Seq(Error)]
      /\ logged \in Seq(Error) /\ Len(logged) \in Nat /\ Len(logged) <= MaxError
      /\ fetched \in 0..slaves /\ present \subseteq 0..slaves
      /\ PerType \in Nat /\ InAll \in Nat /\ MaxError \in Nat
  BY ErrorSamplesAssumption DEF ErrorTypeOK
<1>2. 0 \in 0..slaves /\ Engines \subseteq 0..slaves /\ (slaves # 0 => 0 \notin Engines)
  BY <1>1 DEF Engines
<1>3. CASE UNCHANGED errorVars
  BY <1>3 DEF errorVars, ErrorTypeOK, Engines, Within, RowsOfType
<1>4. CASE RecordError
  <2>1. PICK e \in Engines, f \in Failures, heard \in BOOLEAN :
          /\ fetched = 0 /\ Len(logged) < MaxError
          /\ heard => /\ Cardinality(RowsOfType(listened[e], f.own.type)) < PerType
                      /\ Len(listened[e]) < InAll
          /\ listened' = IF heard THEN [listened EXCEPT ![e] = Append(@, f.own)] ELSE listened
          /\ \E files \in SUBSET {0, e} :
               inXml' = [m \in 0..slaves |->
                           IF m \in files THEN Append(inXml[m], f.row) ELSE inXml[m]]
          /\ logged' = Append(logged, f.row)
          /\ UNCHANGED <<slaves, fetched, present>>
    BY <1>4 DEF RecordError
  <2>2. f.own \in Error /\ f.row \in Error
    BY ErrorSamplesAssumption
  <2>3. listened' \in [0..slaves -> Seq(Error)]
    <3>1. Append(listened[e], f.own) \in Seq(Error)
      BY <1>1, <1>2, <2>2
    <3> QED
      BY <1>1, <2>1, <3>1
  <2>4. inXml' \in [0..slaves -> Seq(Error)]
    <3>1. \A m \in 0..slaves : Append(inXml[m], f.row) \in Seq(Error) /\ inXml[m] \in Seq(Error)
      BY <1>1, <2>2
    <3> QED
      BY <2>1, <3>1
  <2>5. logged' \in Seq(Error) /\ Len(logged') <= MaxError
    BY <1>1, <2>1, <2>2
  <2>6. ErrorTypeOK'
    BY <1>1, <2>1, <2>3, <2>4, <2>5 DEF ErrorTypeOK
  <2>7. Engines' = Engines
    BY <2>1 DEF Engines
  <2>8. ASSUME NEW g \in Engines PROVE Within(listened'[g], 1)
    <3>1. CASE heard /\ g = e
      <4> DEFINE q == listened[e]
      <4>1. listened'[g] = Append(q, f.own)
        BY <1>1, <1>2, <2>1, <3>1
      <4>2. /\ q \in Seq(Error) /\ Within(q, 1)
            /\ Cardinality(RowsOfType(q, f.own.type)) < PerType /\ Len(q) < InAll
        BY <1>1, <1>2, <2>1, <3>1
      <4> HIDE DEF q
      <4>3. Within(Append(q, f.own), 1)
        BY <2>2, <4>2, WithinAppend
      <4> QED
        BY <4>1, <4>3
    <3>2. CASE ~(heard /\ g = e)
      <4>1. listened'[g] = listened[g]
        BY <1>1, <1>2, <2>1, <3>2
      <4>2. Within(listened[g], 1)
        OBVIOUS
      <4> QED
        BY <4>1, <4>2
    <3> QED
      BY <3>1, <3>2
  <2>9. slaves # 0 => listened'[0] = listened[0]
    BY <1>1, <1>2, <2>1
  <2>10. slaves # 0 => Within(listened'[0], fetched)
    BY <2>9
  <2>11. \A g \in Engines' : Within(listened'[g], 1)
    BY <2>7, <2>8
  <2>12. slaves' # 0 => Within(listened'[0], fetched')
    BY <2>1, <2>10
  <2> QED
    BY <2>6, <2>11, <2>12 DEF Within, RowsOfType
<1>5. CASE FetchErrors
  <2> DEFINE next == fetched + 1
  <2>1. PICK got \in BOOLEAN, xml \in BOOLEAN, last \in {next, slaves} :
          /\ fetched < slaves
          /\ listened' = IF got THEN [listened EXCEPT ![0] = @ \o listened[next]] ELSE listened
          /\ present' = IF xml THEN present \cup {next} ELSE present
          /\ fetched' = last
          /\ UNCHANGED <<slaves, inXml, logged>>
    BY <1>5 DEF FetchErrors
  <2>2. /\ next \in 1..slaves /\ next \in 0..slaves /\ next \in Nat /\ fetched \in Nat
        /\ last \in 0..slaves /\ next <= last /\ slaves # 0 /\ next \in Engines
        /\ last \in Nat
    BY <1>1, <2>1 DEF Engines
  <2> DEFINE p == listened[0]
             q == listened[next]
  <2>3. /\ p \in Seq(Error) /\ q \in Seq(Error) /\ p \o q \in Seq(Error)
        /\ Within(p, fetched) /\ Within(q, 1)
    BY <1>1, <1>2, <2>2
  <2>4. listened' \in [0..slaves -> Seq(Error)]
    BY <1>1, <1>2, <2>1, <2>3
  <2>5. ErrorTypeOK'
    BY <1>1, <2>1, <2>2, <2>4 DEF ErrorTypeOK
  <2>6. listened'[0] = (IF got THEN p \o q ELSE p)
    BY <1>1, <1>2, <2>1
  <2>7. \A g \in Engines : listened'[g] = listened[g]
    BY <1>1, <1>2, <2>1, <2>2
  <2> HIDE DEF p, q, next
  <2>8. Within(p \o q, last) /\ Within(p, last)
    <3>1. Within(p \o q, next)
      BY <2>2, <2>3, WithinJoined DEF next
    <3>2. fetched <= last
      BY <2>2 DEF next
    <3> QED
      BY <2>2, <2>3, <3>1, <3>2, WithinMore
  <2>9. Within(listened'[0], fetched')
    BY <2>1, <2>6, <2>8
  <2>10. \A g \in Engines : Within(listened'[g], 1)
    BY <2>7
  <2>11. Engines' = Engines
    BY <2>1 DEF Engines
  <2> QED
    BY <2>5, <2>9, <2>10, <2>11 DEF Within, RowsOfType
<1> QED
  BY <1>3, <1>4, <1>5 DEF ErrorNext

\* For any number of slaves, whatever their listeners heard and the master got:
\* no key twice, a share for each slave at most, past one share nothing but what
\* the listeners wrote, and each error that is read shown as long as there is
\* room.
THEOREM ErrorTypesShown == ErrorSpec => []TypesRepresented
BY ErrorsRepresented, ErrorInitInv, ErrorStep, PTL DEF ErrorSpec

-----------------------------------------------------------------------------
(* Sums over the parts of a set *)

LEMMA SumIs ==
  ASSUME NEW S, IsFiniteSet(S), NEW f, \A x \in S : f[x] \in Nat
  PROVE  Sum(f, S) \in Nat
<1>1. PICK it \in [SUBSET S -> Nat] : Sums(it, f, S) /\ Sum(f, S) = it[S]
  BY SumFolds
<1> QED
  BY <1>1

LEMMA SumSame ==
  ASSUME NEW S, IsFiniteSet(S), NEW f, NEW g, \A x \in S : f[x] \in Nat /\ g[x] = f[x]
  PROVE  Sum(g, S) = Sum(f, S)
<1>1. \A x \in S : f[x] \in Nat /\ g[x] = f[x] * 1
  OBVIOUS
<1>2. Sum(f, S) \in Nat /\ Sum(g, S) = Sum(f, S) * 1
  BY <1>1, SumTimes
<1> QED
  BY <1>2

LEMMA SumJoined ==
  ASSUME NEW A, IsFiniteSet(A), NEW B, IsFiniteSet(B), A \cap B = {}, NEW f,
         \A x \in A \cup B : f[x] \in Nat
  PROVE  Sum(f, A \cup B) = Sum(f, A) + Sum(f, B)
<1> DEFINE P == {s \in SUBSET B : Sum(f, A \cup s) = Sum(f, A) + Sum(f, s)}
<1>0. Sum(f, A) \in Nat
  BY SumIs
<1>1. {} \in P
  <2>1. A \cup {} = A /\ Sum(f, {}) = 0
    BY SumOfNone
  <2> QED
    BY <1>0, <2>1
<1>2. ASSUME NEW s \in P, NEW x \in B \ s PROVE s \cup {x} \in P
  <2> DEFINE T == A \cup s
  <2>1. s \subseteq B /\ IsFiniteSet(s)
    BY FS_Subset
  <2>2. IsFiniteSet(T)
    BY <2>1, FS_Union
  <2>3. x \notin T /\ (\A y \in T \cup {x} : f[y] \in Nat) /\ A \cup (s \cup {x}) = T \cup {x}
    BY <2>1
  <2>4. Sum(f, T) = Sum(f, A) + Sum(f, s)
    OBVIOUS
  <2> HIDE DEF T
  <2>5. Sum(f, T \cup {x}) = f[x] + Sum(f, T)
    BY <2>2, <2>3, SumWith
  <2>6. \A y \in s \cup {x} : f[y] \in Nat
    BY <2>1
  <2>7. Sum(f, s) \in Nat /\ Sum(f, s \cup {x}) = f[x] + Sum(f, s)
    BY <2>1, <2>6, SumWith
  <2>8. Sum(f, A \cup (s \cup {x})) = Sum(f, A) + Sum(f, s \cup {x})
    <3> DEFINE a == Sum(f, A)
               b == Sum(f, s)
               c == f[x]
    <3>1. c \in Nat /\ a \in Nat /\ b \in Nat /\ Sum(f, T) = a + b
      BY <1>0, <2>4, <2>7
    <3>2. Sum(f, A \cup (s \cup {x})) = Sum(f, T \cup {x})
      BY <2>3, Zenon
    <3>3. Sum(f, s \cup {x}) = c + b /\ Sum(f, T \cup {x}) = c + Sum(f, T)
      BY <2>5, <2>7
    <3> HIDE DEF a, b, c
    <3>4. Sum(f, A \cup (s \cup {x})) = a + Sum(f, s \cup {x})
      BY <3>1, <3>2, <3>3
    <3> QED
      BY <3>4 DEF a
  <2> QED
    BY <2>1, <2>8
<1>3. P \subseteq SUBSET B
  OBVIOUS
<1> HIDE DEF P
<1>4. B \in P
  BY <1>1, <1>2, <1>3, FiniteInduction
<1> QED
  BY <1>4 DEF P

LEMMA SumOfOnes ==
  ASSUME NEW S, IsFiniteSet(S), NEW f, \A x \in S : f[x] = 1
  PROVE  Sum(f, S) = Cardinality(S)
<1> DEFINE P == {s \in SUBSET S : Sum(f, s) = Cardinality(s)}
<1>1. {} \in P
  BY SumOfNone, FS_EmptySet
<1>2. ASSUME NEW s \in P, NEW x \in S \ s PROVE s \cup {x} \in P
  <2>1. IsFiniteSet(s) /\ \A y \in s \cup {x} : f[y] \in Nat
    BY FS_Subset
  <2>2. Sum(f, s \cup {x}) = f[x] + Sum(f, s)
    BY <2>1, SumWith
  <2>3. Cardinality(s \cup {x}) = Cardinality(s) + 1 /\ Cardinality(s) \in Nat
    BY <2>1, FS_AddElement, FS_CardinalityType
  <2>4. f[x] = 1 /\ Sum(f, s) = Cardinality(s)
    OBVIOUS
  <2>5. Sum(f, s \cup {x}) = Cardinality(s \cup {x})
    BY <2>2, <2>3, <2>4
  <2> QED
    BY <2>5
<1>3. P \subseteq SUBSET S
  OBVIOUS
<1> HIDE DEF P
<1>4. S \in P
  BY <1>1, <1>2, <1>3, FiniteInduction
<1> QED
  BY <1>4 DEF P

Keys(C, key) == {key[i] : i \in C}
With(C, key, k) == {i \in C : key[i] = k}

LEMMA FiniteImage ==
  ASSUME NEW C, IsFiniteSet(C), NEW key
  PROVE  IsFiniteSet(Keys(C, key))
<1> DEFINE P == {s \in SUBSET C : IsFiniteSet(Keys(s, key))}
<1>1. {} \in P
  <2>1. Keys({}, key) = {}
    BY DEF Keys
  <2> QED
    BY <2>1, FS_EmptySet
<1>2. ASSUME NEW s \in P, NEW x \in C \ s PROVE s \cup {x} \in P
  <2>1. Keys(s \cup {x}, key) = Keys(s, key) \cup {key[x]}
    BY DEF Keys
  <2>2. IsFiniteSet(Keys(s, key))
    OBVIOUS
  <2>3. IsFiniteSet(Keys(s, key) \cup {key[x]})
    BY <2>2, FS_AddElement
  <2> QED
    BY <2>1, <2>3
<1>3. P \subseteq SUBSET C
  OBVIOUS
<1> HIDE DEF P
<1>4. C \in P
  BY <1>1, <1>2, <1>3, FiniteInduction
<1> QED
  BY <1>4 DEF P

\* What is counted for each key adds up to what is counted of all.
SumsOfKeys(g, f, C, key, K) == \A k \in K : g[k] = Sum(f, With(C, key, k))

LEMMA SumByKey ==
  ASSUME NEW C, IsFiniteSet(C), NEW f, \A i \in C : f[i] \in Nat,
         NEW key, NEW K, K = Keys(C, key),
         NEW g, SumsOfKeys(g, f, C, key, K)
  PROVE  /\ IsFiniteSet(K) /\ \A k \in K : g[k] \in Nat
         /\ Sum(g, K) = Sum(f, C)
<1> DEFINE Of(s) == {i \in C : key[i] \in s}
           P == {s \in SUBSET K : Sum(g, s) = Sum(f, Of(s))}
<1>1. IsFiniteSet(K)
  BY FiniteImage
<1>2. ASSUME NEW k \in K PROVE g[k] = Sum(f, With(C, key, k)) /\ g[k] \in Nat
  <2> DEFINE A == With(C, key, k)
  <2>1. IsFiniteSet(A)
    BY FS_Subset DEF With
  <2>2. \A i \in A : f[i] \in Nat
    BY DEF With
  <2>3. g[k] = Sum(f, A)
    BY DEF SumsOfKeys
  <2> HIDE DEF A
  <2>4. Sum(f, A) \in Nat
    BY <2>1, <2>2, SumIs
  <2> QED
    BY <2>3, <2>4 DEF A
<1>3. {} \in P
  <2>1. Of({}) = {}
    OBVIOUS
  <2>2. Sum(g, {}) = 0 /\ Sum(f, {}) = 0
    BY SumOfNone
  <2> QED
    BY <2>1, <2>2
<1>4. ASSUME NEW s \in P, NEW k \in K \ s PROVE s \cup {k} \in P
  <2> DEFINE A == Of(s)
             B == With(C, key, k)
  <2>1. s \subseteq K /\ IsFiniteSet(s) /\ Sum(g, s) = Sum(f, A)
    BY <1>1, FS_Subset
  <2>2. IsFiniteSet(A) /\ IsFiniteSet(B)
    BY FS_Subset DEF With
  <2>3. A \cap B = {} /\ Of(s \cup {k}) = A \cup B /\ \A i \in A \cup B : f[i] \in Nat
    BY DEF With
  <2>4. g[k] = Sum(f, B)
    BY <1>2
  <2>5. \A j \in s \cup {k} : g[j] \in Nat
    BY <1>2, <2>1
  <2> HIDE DEF A, B, Of
  <2>6. Sum(f, A \cup B) = Sum(f, A) + Sum(f, B)
    BY <2>2, <2>3, SumJoined
  <2>7. Sum(g, s \cup {k}) = g[k] + Sum(g, s)
    BY <2>1, <2>5, SumWith
  <2>8. Sum(f, A) \in Nat /\ Sum(f, B) \in Nat
    <3>1. (\A i \in A : f[i] \in Nat) /\ \A i \in B : f[i] \in Nat
      BY <2>3
    <3> QED
      BY <2>2, <3>1, SumIs
  <2>9. Sum(g, s \cup {k}) = Sum(f, Of(s \cup {k}))
    <3>1. Sum(f, Of(s \cup {k})) = Sum(f, A \cup B)
      BY <2>3, Zenon
    <3>2. Sum(g, s \cup {k}) = Sum(f, B) + Sum(f, A)
      BY <2>1, <2>4, <2>7
    <3> QED
      BY <2>6, <2>8, <3>1, <3>2
  <2>10. s \cup {k} \in SUBSET K
    BY <2>1
  <2> QED
    BY <2>9, <2>10
<1>5. P \subseteq SUBSET K
  OBVIOUS
<1>6. Of(K) = C
  BY DEF Keys
<1> HIDE DEF P, Of
<1>7. \A s \in P : \A k \in K \ s : s \cup {k} \in P
  BY <1>4
<1>8. K \in P
  BY <1>1, <1>3, <1>5, <1>7, FiniteInduction
<1>9. Sum(g, K) = Sum(f, Of(K))
  BY <1>8 DEF P
<1> QED
  BY <1>1, <1>2, <1>6, <1>9

-----------------------------------------------------------------------------
(* The largest and the smallest *)

\* The same, in the form the counts of a window need it.
Measured(f, C) == \A i \in C : f[i] \in Nat
AddsUp(g, f, C, K) == Sum(g, K) = Sum(f, C)

LEMMA AddsUpByKey ==
  ASSUME NEW C, IsFiniteSet(C), NEW f, Measured(f, C), NEW key, NEW K,
         K = Keys(C, key), NEW g, SumsOfKeys(g, f, C, key, K)
  PROVE  AddsUp(g, f, C, K)
<1>1. \A i \in C : f[i] \in Nat
  BY DEF Measured
<1>2. Sum(g, K) = Sum(f, C)
  BY <1>1, SumByKey
<1> QED
  BY <1>2 DEF AddsUp

Highest(m, S) == m \in S /\ \A v \in S : v <= m
Lowest(m, S) == m \in S /\ \A v \in S : m <= v

LEMMA MaxIsHighest ==
  ASSUME NEW S, S \subseteq Nat, NEW m, Highest(m, S)
  PROVE  Max(S) = m
<1>1. \E x \in S : \A y \in S : x >= y
  BY DEF Highest
<1>2. Max(S) \in S /\ \A y \in S : Max(S) >= y
  BY <1>1 DEF Max
<1>3. Max(S) \in Nat /\ m \in Nat /\ Max(S) >= m /\ m >= Max(S)
  BY <1>2 DEF Highest
<1> QED
  BY <1>3

LEMMA MinIsLowest ==
  ASSUME NEW S, S \subseteq Nat, NEW m, Lowest(m, S)
  PROVE  Min(S) = m
<1>1. \E x \in S : \A y \in S : x <= y
  BY DEF Lowest
<1>2. Min(S) \in S /\ \A y \in S : Min(S) <= y
  BY <1>1 DEF Min
<1>3. Min(S) \in Nat /\ m \in Nat /\ Min(S) <= m /\ m <= Min(S)
  BY <1>2 DEF Lowest
<1> QED
  BY <1>3

-----------------------------------------------------------------------------
(* The pass over the rows *)

LEMMA SampleFields ==
  ASSUME NEW s \in Sample
  PROVE  s.elapsed \in Nat /\ s.at \in Nat /\ s.threads \in Int
<1> DEFINE Whole == [label: Label, at: Instant, elapsed: Elapsed, success: {"true", "false"},
                     threads: GroupSize \cup {0, Unreadable}]
           Cut == [label: Label, at: Instant, elapsed: Elapsed, success: {"none"},
                   threads: {0}]
<1>1. Unreadable \in Int
  BY DEF Unreadable
<1>2. Instant \subseteq Nat /\ Elapsed \subseteq Nat /\ GroupSize \subseteq Nat
  BY ReportMathAssumption
<1>3. s \in Whole \cup Cut
  BY Zenon DEF Sample
<1>4. /\ s.elapsed \in Elapsed /\ s.at \in Instant
      /\ s.threads \in GroupSize \cup {0, Unreadable}
  <2>1. CASE s \in Whole
    BY <2>1, Zenon
  <2>2. CASE s \in Cut
    BY <2>2
  <2> HIDE DEF Whole, Cut
  <2> QED
    BY <1>3, <2>1, <2>2, Zenon
<1>5. \A n \in GroupSize \cup {0, Unreadable} : n \in Int
  BY <1>1, <1>2
<1>6. s.elapsed \in Nat /\ s.at \in Nat
  BY <1>2, <1>4, Zenon
<1> QED
  BY <1>4, <1>5, <1>6, Zenon

LEMMA SamplesAre ==
  ASSUME MathTypeOK
  PROVE  /\ Len(samples) \in Nat /\ DOMAIN samples = 1..Len(samples)
         /\ IsFiniteSet(DOMAIN samples)
         /\ TransactionRows \subseteq DOMAIN samples
         /\ \A i \in DOMAIN samples : samples[i] \in Sample
         /\ \A i \in DOMAIN samples :
              /\ samples[i].elapsed \in Nat /\ samples[i].at \in Nat
              /\ samples[i].threads \in Int
<1>1. samples \in Seq(Sample)
  BY DEF MathTypeOK
<1>2. Len(samples) \in Nat /\ DOMAIN samples = 1..Len(samples)
  BY <1>1
<1>3. IsFiniteSet(1..Len(samples))
  BY <1>2, FS_Interval
<1>4. \A i \in DOMAIN samples : samples[i] \in Sample
  BY <1>1
<1> QED
  BY <1>2, <1>3, <1>4, SampleFields DEF TransactionRows

\* The metric curve is made of the rows of the transactions but the damaged.
LEMMA RowsDivide ==
  /\ MetricRows \cup Damaged = TransactionRows
  /\ MetricRows \cap Damaged = {}
BY DEF MetricRows, Damaged, TransactionRows

Failure == [i \in DOMAIN samples |-> IF samples[i].success = "true" THEN 0 ELSE 1]
Duration == [i \in DOMAIN samples |-> samples[i].elapsed]

StatType == [count: Nat, failed: Nat, sum: Nat, max: Nat, min: Nat]

\* What the figures of a set of rows are.
IsStat(stat, is) ==
  /\ stat \in StatType
  /\ stat.count = Cardinality(is)
  /\ stat.failed = Sum(Failure, is)
  /\ stat.sum = Sum(Duration, is)
  /\ is = {} => stat.max = 0 /\ stat.min = 0
  /\ is # {} => Highest(stat.max, Times(is)) /\ Lowest(stat.min, Times(is))

LEMMA AddIsStat ==
  ASSUME MathTypeOK, NEW is \in SUBSET DOMAIN samples, NEW i \in DOMAIN samples, i \notin is,
         NEW stat, IsStat(stat, is)
  PROVE  IsStat(Add(stat, samples[i]), is \cup {i})
<1> DEFINE s == samples[i]
           next == Add(stat, s)
<1>1. IsFiniteSet(is) /\ s.elapsed \in Nat
  BY SamplesAre, FS_Subset
<1>2. /\ stat.count \in Nat /\ stat.failed \in Nat /\ stat.sum \in Nat
      /\ stat.max \in Nat /\ stat.min \in Nat
  BY DEF IsStat, StatType
<1>3. next \in StatType
  BY <1>1, <1>2 DEF Add, StatType
<1>4. next.count = Cardinality(is \cup {i})
  <2>1. Cardinality(is \cup {i}) = Cardinality(is) + 1
    BY <1>1, FS_AddElement
  <2> QED
    BY <2>1 DEF Add, IsStat
<1>5. /\ \A j \in is \cup {i} : Failure[j] \in Nat /\ Duration[j] \in Nat
      /\ Failure[i] = (IF s.success = "true" THEN 0 ELSE 1) /\ Duration[i] = s.elapsed
  BY SamplesAre DEF Failure, Duration
<1>6. next.failed = Sum(Failure, is \cup {i})
  <2>1. Sum(Failure, is \cup {i}) = Failure[i] + Sum(Failure, is)
    BY <1>1, <1>5, SumWith
  <2>2. stat.failed = Sum(Failure, is)
    BY DEF IsStat
  <2>3. next.failed = stat.failed + Failure[i]
    BY <1>5 DEF Add
  <2> QED
    BY <1>2, <1>5, <2>1, <2>2, <2>3
<1>7. next.sum = Sum(Duration, is \cup {i})
  <2>1. Sum(Duration, is \cup {i}) = Duration[i] + Sum(Duration, is)
    BY <1>1, <1>5, SumWith
  <2>2. stat.sum = Sum(Duration, is)
    BY DEF IsStat
  <2>3. next.sum = stat.sum + Duration[i]
    BY <1>5 DEF Add
  <2> QED
    BY <1>2, <1>5, <2>1, <2>2, <2>3
<1>8. Times(is \cup {i}) = Times(is) \cup {s.elapsed} /\ Times(is) \subseteq Nat
  BY SamplesAre DEF Times
<1>9. next.max = (IF s.elapsed > stat.max THEN s.elapsed ELSE stat.max)
  BY DEF Add
<1>10. next.min = (IF stat.count = 0 \/ s.elapsed < stat.min THEN s.elapsed ELSE stat.min)
  BY DEF Add
<1>11. CASE is = {}
  <2>1. stat.count = 0 /\ stat.max = 0 /\ Times(is) = {}
    BY <1>11, FS_EmptySet DEF IsStat, Times
  <2>2. next.max = s.elapsed /\ next.min = s.elapsed
    BY <1>1, <1>9, <1>10, <2>1
  <2>3. Highest(next.max, Times(is \cup {i})) /\ Lowest(next.min, Times(is \cup {i}))
    BY <1>1, <1>8, <2>1, <2>2 DEF Highest, Lowest
  <2> QED
    BY <1>3, <1>4, <1>6, <1>7, <2>3 DEF IsStat
<1>12. CASE is # {}
  <2>1. stat.count # 0
    BY <1>1, <1>12, FS_EmptySet DEF IsStat
  <2>2. Highest(stat.max, Times(is)) /\ Lowest(stat.min, Times(is))
    BY <1>12 DEF IsStat
  <2>3. Highest(next.max, Times(is \cup {i}))
    BY <1>1, <1>2, <1>8, <1>9, <2>2 DEF Highest
  <2>4. Lowest(next.min, Times(is \cup {i}))
    BY <1>1, <1>2, <1>8, <1>10, <2>1, <2>2 DEF Lowest
  <2> QED
    BY <1>3, <1>4, <1>6, <1>7, <2>3, <2>4 DEF IsStat
<1> QED
  BY <1>11, <1>12

Passes(pass, is) ==
  pass = [i \in 0..Len(samples) |->
            IF i = 0 THEN NoStat
            ELSE IF i \in is THEN Add(pass[i - 1], samples[i]) ELSE pass[i - 1]]

LEMMA StatOfPass ==
  ASSUME NEW is
  PROVE  StatOf(is) = (CHOOSE pass : Passes(pass, is))[Len(samples)]
BY DEF StatOf, Passes

LEMMA NoStatIs == NoStat \in StatType /\ IsStat(NoStat, {})
<1>1. NoStat \in StatType
  BY DEF NoStat, StatType
<1>2. Cardinality({}) = 0 /\ Sum(Failure, {}) = 0 /\ Sum(Duration, {}) = 0
  BY FS_EmptySet, SumOfNone
<1> QED
  BY <1>1, <1>2 DEF NoStat, IsStat

LEMMA PassExists ==
  ASSUME MathTypeOK, NEW is
  PROVE  \E pass : Passes(pass, is)
<1> DEFINE n == Len(samples)
           step == [c \in (1..n) \X StatType |->
                      IF c[1] \in is THEN Add(c[2], samples[c[1]]) ELSE c[2]]
<1>1. n \in Nat /\ DOMAIN samples = 1..n
  BY SamplesAre
<1>2. ASSUME NEW i \in 1..n, NEW stat \in StatType PROVE Add(stat, samples[i]) \in StatType
  <2>1. samples[i].elapsed \in Nat
    BY <1>1, SamplesAre
  <2> QED
    BY <2>1 DEF Add, StatType
<1>3. step \in [(1..n) \X StatType -> StatType]
  <2>1. \A c \in (1..n) \X StatType : c[1] \in 1..n /\ c[2] \in StatType
    OBVIOUS
  <2>2. \A c \in (1..n) \X StatType :
          (IF c[1] \in is THEN Add(c[2], samples[c[1]]) ELSE c[2]) \in StatType
    BY <1>2, <2>1
  <2> QED
    BY <2>2
<1>4. \A i \in 1..n, stat \in StatType :
        step[<<i, stat>>] = IF i \in is THEN Add(stat, samples[i]) ELSE stat
  OBVIOUS
<1> HIDE DEF step
<1>5. FoldedUpTo(n, StatType, NoStat, step)
  BY <1>1, <1>3, NoStatIs, FoldExists
<1> HIDE DEF n
<1>6. PICK it \in [SUBSET (1..n) -> StatType] : \A s \in SUBSET (1..n) :
        it[s] = IF s = {} THEN NoStat ELSE step[<<Max(s), it[s \ {Max(s)}]>>]
  BY <1>5 DEF FoldedUpTo
<1> DEFINE pass == [i \in 0..n |-> it[1..i]]
<1>7. pass[0] = NoStat
  <2>1. 1..0 = {} /\ 1..0 \in SUBSET (1..n) /\ 0 \in 0..n
    BY <1>1
  <2> QED
    BY <1>6, <2>1
<1>8. ASSUME NEW i \in 1..n
      PROVE  pass[i] = IF i \in is THEN Add(pass[i - 1], samples[i]) ELSE pass[i - 1]
  <2>1. i - 1 \in Nat /\ i - 1 \in 0..n /\ i \in 0..n /\ i - 1 + 1 = i
    BY <1>1
  <2>2. Max(1..i) = i /\ (1..i) \ {i} = 1..i - 1 /\ 1..i # {}
    BY <2>1, MaxOfFirst
  <2>3. 1..i \in SUBSET (1..n) /\ 1..i - 1 \in SUBSET (1..n)
    BY <1>1, <2>1
  <2>4. it[1..i] = step[<<i, it[1..i - 1]>>]
    BY <1>6, <2>2, <2>3
  <2>5. it[1..i - 1] \in StatType
    BY <2>3
  <2>6. it[1..i] = IF i \in is THEN Add(it[1..i - 1], samples[i]) ELSE it[1..i - 1]
    BY <1>4, <2>4, <2>5
  <2>7. pass[i] = it[1..i] /\ pass[i - 1] = it[1..i - 1]
    BY <2>1
  <2> QED
    BY <2>6, <2>7
<1>9. pass = [i \in 0..n |-> pass[i]]
  OBVIOUS
<1> HIDE DEF pass
<1> DEFINE z == [i \in 0..n |-> IF i = 0 THEN NoStat
                                ELSE IF i \in is THEN Add(pass[i - 1], samples[i])
                                ELSE pass[i - 1]]
<1>10. \A i \in 0..n : z[i] = pass[i]
  <2>1. \A i \in 0..n : i = 0 \/ i \in 1..n
    BY <1>1
  <2> QED
    BY <1>7, <1>8, <2>1
<1>11. z = [i \in 0..n |-> z[i]]
  OBVIOUS
<1> HIDE DEF z
<1>12. pass = z
  BY <1>9, <1>10, <1>11
<1> QED
  BY <1>12 DEF Passes, n, z

\* The pass finds the figures of the rows it is asked for.
LEMMA StatIs ==
  ASSUME MathTypeOK, NEW is \in SUBSET DOMAIN samples
  PROVE  IsStat(StatOf(is), is)
<1> DEFINE n == Len(samples)
           pass == CHOOSE p : Passes(p, is)
<1>1. n \in Nat /\ DOMAIN samples = 1..n
  BY SamplesAre
<1>2. Passes(pass, is)
  BY PassExists
<1>3. StatOf(is) = pass[n]
  BY StatOfPass
<1> HIDE DEF pass
<1>4. /\ pass[0] = NoStat
      /\ \A i \in 1..n : pass[i] = IF i \in is THEN Add(pass[i - 1], samples[i])
                                   ELSE pass[i - 1]
  <2> DEFINE z == [i \in 0..n |-> IF i = 0 THEN NoStat
                                  ELSE IF i \in is THEN Add(pass[i - 1], samples[i])
                                  ELSE pass[i - 1]]
  <2>1. z[0] = NoStat /\ \A i \in 1..n : z[i] = IF i \in is THEN Add(pass[i - 1], samples[i])
                                                 ELSE pass[i - 1]
    BY <1>1
  <2>2. pass = z
    BY <1>2 DEF Passes
  <2> HIDE DEF z
  <2> QED
    BY <2>1, <2>2
<1> DEFINE First(i) == {j \in is : j <= i}
           T == {i \in Nat : i <= n => IsStat(pass[i], First(i))}
<1>5. 0 \in T
  <2>1. First(0) = {}
    BY <1>1
  <2> QED
    BY <1>4, <2>1, NoStatIs
<1>6. ASSUME NEW i \in T PROVE i + 1 \in T
  <2> SUFFICES ASSUME i + 1 <= n PROVE IsStat(pass[i + 1], First(i + 1))
    OBVIOUS
  <2>1. i \in Nat /\ i + 1 \in 1..n /\ i + 1 - 1 = i /\ IsStat(pass[i], First(i))
    BY <1>1
  <2>2. pass[i + 1] = IF i + 1 \in is THEN Add(pass[i], samples[i + 1]) ELSE pass[i]
    BY <1>4, <2>1
  <2>3. First(i + 1) = IF i + 1 \in is THEN First(i) \cup {i + 1} ELSE First(i)
    <3>1. \A j \in is : j \in Nat /\ (j <= i + 1 <=> j <= i \/ j = i + 1)
      BY <1>1, <2>1
    <3> QED
      BY <2>1, <3>1
  <2>4. First(i) \in SUBSET DOMAIN samples /\ i + 1 \notin First(i) /\ i + 1 \in DOMAIN samples
    BY <1>1, <2>1
  <2> HIDE DEF First
  <2>5. IsStat(Add(pass[i], samples[i + 1]), First(i) \cup {i + 1})
    BY <2>1, <2>4, AddIsStat
  <2> QED
    BY <2>1, <2>2, <2>3, <2>5
<1>7. T \subseteq Nat
  OBVIOUS
<1> HIDE DEF T
<1>8. \A i \in T : i + 1 \in T
  BY <1>6
<1>9. T = Nat
  BY <1>5, <1>7, <1>8, Induction
<1>10. IsStat(pass[n], First(n))
  BY <1>1, <1>9 DEF T
<1>11. First(n) = is
  BY <1>1
<1> QED
  BY <1>3, <1>10, <1>11

-----------------------------------------------------------------------------
(* The transaction table *)

\* Rounded down, the shares of a whole are hundred in all but one for each.
LEMMA SharesAddUp ==
  ASSUME NEW L, IsFiniteSet(L), L # {}, NEW c, \A l \in L : c[l] \in Nat,
         NEW n \in Nat \ {0}, n = Sum(c, L),
         NEW q, \A l \in L : q[l] = (c[l] * 100) \div n
  PROVE  Sum(q, L) \in 100 - Cardinality(L) .. 100
<1> DEFINE Bounds(a, b, k) == a * n <= b * 100 /\ b * 100 <= a * n + k * n
           P == {s \in SUBSET L : Bounds(Sum(q, s), Sum(c, s), Cardinality(s))}
<1>1. ASSUME NEW l \in L
      PROVE  /\ q[l] \in Nat /\ c[l] \in Nat
             /\ q[l] * n <= c[l] * 100 /\ c[l] * 100 <= q[l] * n + n
  <2> DEFINE m == c[l] * 100
  <2>1. m \in Nat /\ q[l] = m \div n /\ c[l] \in Nat
    OBVIOUS
  <2> HIDE DEF m
  <2>2. m \div n \in Nat /\ m % n \in 0..n - 1 /\ m = (m \div n) * n + (m % n)
    BY <2>1, Divided
  <2> DEFINE w == (m \div n) * n
             r == m % n
  <2>3. w \in Nat
    BY <2>2, Product
  <2>4. r \in 0..n - 1 /\ m = w + r
    BY <2>2
  <2> HIDE DEF w, r
  <2>5. w <= m /\ m <= w + n
    BY <2>3, <2>4
  <2> QED
    BY <2>1, <2>2, <2>5 DEF m, w
<1>2. {} \in P
  BY SumOfNone, FS_EmptySet
<1>3. ASSUME NEW s \in P, NEW x \in L \ s PROVE s \cup {x} \in P
  <2>1. /\ s \cup {x} \in SUBSET L /\ IsFiniteSet(s)
        /\ \A l \in s \cup {x} : q[l] \in Nat /\ c[l] \in Nat
    BY <1>1, FS_Subset
  <2>2. Sum(q, s) \in Nat /\ Sum(q, s \cup {x}) = q[x] + Sum(q, s)
    BY <2>1, SumWith
  <2>3. Sum(c, s) \in Nat /\ Sum(c, s \cup {x}) = c[x] + Sum(c, s)
    BY <2>1, SumWith
  <2>4. Cardinality(s) \in Nat /\ Cardinality(s \cup {x}) = Cardinality(s) + 1
    BY <2>1, FS_AddElement, FS_CardinalityType
  <2> DEFINE a == Sum(q, s)
             b == Sum(c, s)
             k == Cardinality(s)
             d == q[x]
             e == c[x]
  <2>5. a \in Nat /\ b \in Nat /\ k \in Nat /\ d \in Nat /\ e \in Nat
    BY <2>1, <2>2, <2>3, <2>4
  <2>6. Bounds(a, b, k) /\ d * n <= e * 100 /\ e * 100 <= d * n + n
    BY <1>1
  <2> HIDE DEF a, b, k, d, e
  <2>7. (d + a) * n = d * n + a * n /\ (k + 1) * n = k * n + n
    BY <2>5
  <2>8. a * n \in Nat /\ d * n \in Nat /\ k * n \in Nat
    BY <2>5, Product
  <2> DEFINE an == a * n
             dn == d * n
             kn == k * n
  <2>9. /\ an \in Nat /\ dn \in Nat /\ kn \in Nat
        /\ an <= b * 100 /\ b * 100 <= an + kn
        /\ dn <= e * 100 /\ e * 100 <= dn + n
    BY <2>6, <2>8
  <2>10. (d + a) * n = dn + an /\ (k + 1) * n = kn + n
    BY <2>7
  <2> HIDE DEF an, dn, kn
  <2>11. dn + an <= (e + b) * 100 /\ (e + b) * 100 <= dn + an + (kn + n)
    BY <2>5, <2>9
  <2>12. Bounds(d + a, e + b, k + 1)
    BY <2>10, <2>11
  <2> HIDE DEF Bounds
  <2>13. Bounds(Sum(q, s \cup {x}), Sum(c, s \cup {x}), Cardinality(s \cup {x}))
    BY <2>2, <2>3, <2>4, <2>12 DEF a, b, k, d, e
  <2> QED
    BY <2>1, <2>13
<1>4. P \subseteq SUBSET L
  OBVIOUS
<1> HIDE DEF P
<1>5. L \in P
  BY <1>2, <1>3, <1>4, FiniteInduction
<1>6. Bounds(Sum(q, L), n, Cardinality(L))
  BY <1>5 DEF P
<1>7. Sum(q, L) \in Nat /\ Cardinality(L) \in Nat
  BY <1>1, SumIs, FS_CardinalityType
<1> DEFINE t == Sum(q, L)
           k == Cardinality(L)
<1>8. t \in Nat /\ k \in Nat /\ t * n <= n * 100 /\ n * 100 <= t * n + k * n
  BY <1>6, <1>7
<1> HIDE DEF t, k
<1>9. t <= 100
  <2> SUFFICES ASSUME 100 < t PROVE FALSE
    BY <1>8
  <2>1. 100 * n + n <= t * n
    BY <1>8, Product
  <2> DEFINE tn == t * n
  <2>2. 100 * n + n <= tn /\ tn <= n * 100
    BY <1>8, <2>1
  <2> HIDE DEF tn
  <2>3. tn \in Nat
    BY <1>8, Product DEF tn
  <2> QED
    BY <2>2, <2>3
<1>10. 100 <= t + k
  <2> SUFFICES ASSUME t + k < 100 PROVE FALSE
    BY <1>8
  <2>1. t + k \in Nat /\ (t + k) * n = t * n + k * n
    BY <1>8
  <2>2. (t + k) * n + n <= 100 * n
    BY <2>1, Product
  <2> DEFINE u == (t + k) * n
  <2>3. u + n <= 100 * n /\ n * 100 <= u
    BY <1>8, <2>1, <2>2
  <2>4. u \in Nat
    BY <2>1, Product
  <2> HIDE DEF u
  <2> QED
    BY <2>3, <2>4
<1>11. t \in 100 - k .. 100
  BY <1>8, <1>9, <1>10
<1> QED
  BY <1>11 DEF t, k

Each == [i \in DOMAIN samples |-> 1]
LabelOf == [i \in DOMAIN samples |-> samples[i].label]
Labels == Keys(TransactionRows, LabelOf)
RowsWith(l) == With(TransactionRows, LabelOf, l)

LEMMA StatsAre ==
  ASSUME MathTypeOK
  PROVE  /\ DOMAIN TransactionStats = Labels
         /\ \A l \in Labels :
              /\ IsStat(TransactionStats[l], RowsWith(l))
              /\ RowsWith(l) # {} /\ RowsWith(l) \subseteq TransactionRows
         /\ IsStat(TotalStat, TransactionRows)
         /\ Times(TransactionRows) \subseteq Nat
<1>1. \A i \in TransactionRows : LabelOf[i] = samples[i].label
  BY SamplesAre DEF LabelOf
<1>2. {samples[i].label : i \in TransactionRows} = Labels
  BY <1>1 DEF Labels, Keys
<1>3. \A l : {i \in TransactionRows : samples[i].label = l} = RowsWith(l)
  BY <1>1 DEF RowsWith, With
<1>4. TransactionStats = [l \in Labels |-> StatOf(RowsWith(l))]
  BY <1>2, <1>3, Zenon DEF TransactionStats
<1>5. ASSUME NEW l \in Labels
      PROVE  /\ IsStat(TransactionStats[l], RowsWith(l))
             /\ RowsWith(l) # {} /\ RowsWith(l) \subseteq TransactionRows
  <2>1. RowsWith(l) \in SUBSET DOMAIN samples
    BY SamplesAre DEF RowsWith, With
  <2>2. IsStat(StatOf(RowsWith(l)), RowsWith(l))
    BY <2>1, StatIs
  <2>3. TransactionStats[l] = StatOf(RowsWith(l))
    BY <1>4
  <2>4. RowsWith(l) # {} /\ RowsWith(l) \subseteq TransactionRows
    BY DEF RowsWith, Labels, Keys, With
  <2> QED
    BY <2>2, <2>3, <2>4
<1>6. IsStat(TotalStat, TransactionRows)
  BY SamplesAre, StatIs DEF TotalStat
<1>7. Times(TransactionRows) \subseteq Nat
  BY SamplesAre DEF Times
<1> QED
  BY <1>4, <1>5, <1>6, <1>7

\* What is summed over the rows of each label is summed over all.
LEMMA LabelsAddUp ==
  ASSUME MathTypeOK, NEW f, \A i \in TransactionRows : f[i] \in Nat,
         NEW g, DOMAIN g = Labels, \A l \in Labels : g[l] = Sum(f, RowsWith(l))
  PROVE  /\ IsFiniteSet(Labels) /\ \A l \in Labels : g[l] \in Nat
         /\ Total(g) = Sum(f, TransactionRows)
<1>1. IsFiniteSet(TransactionRows)
  BY SamplesAre, FS_Subset
<1>2. Labels = Keys(TransactionRows, LabelOf)
  BY DEF Labels
<1>3. SumsOfKeys(g, f, TransactionRows, LabelOf, Labels)
  BY DEF RowsWith, SumsOfKeys
<1>4. /\ IsFiniteSet(Labels) /\ \A l \in Labels : g[l] \in Nat
      /\ Sum(g, Labels) = Sum(f, TransactionRows)
  BY <1>1, <1>2, <1>3, SumByKey
<1>5. Total(g) = Sum(g, Labels)
  BY DEF Total, Sum
<1> QED
  BY <1>4, <1>5

LEMMA TableAddsUp == MathTypeOK => TransactionsAddUp
<1> SUFFICES ASSUME MathTypeOK PROVE TransactionsAddUp
  OBVIOUS
<1> DEFINE stats == TransactionStats
<1>1. /\ DOMAIN stats = Labels
      /\ \A l \in Labels : /\ IsStat(stats[l], RowsWith(l))
                           /\ RowsWith(l) # {} /\ RowsWith(l) \subseteq TransactionRows
      /\ IsStat(TotalStat, TransactionRows) /\ Times(TransactionRows) \subseteq Nat
  BY StatsAre
<1>2. /\ \A i \in TransactionRows : Each[i] = 1 /\ Failure[i] \in Nat /\ Duration[i] \in Nat
      /\ IsFiniteSet(TransactionRows) /\ \A l : IsFiniteSet(RowsWith(l)) /\ RowsWith(l) \subseteq TransactionRows
  <2>1. IsFiniteSet(TransactionRows)
    BY SamplesAre, FS_Subset
  <2>2. \A l : RowsWith(l) \subseteq TransactionRows
    BY DEF RowsWith, With
  <2>3. \A l : IsFiniteSet(RowsWith(l))
    BY <2>1, <2>2, FS_Subset
  <2> QED
    BY <2>1, <2>2, <2>3, SamplesAre DEF Each, Failure, Duration
<1> HIDE DEF stats
<1> DEFINE counts == [l \in Labels |-> stats[l].count]
           fails == [l \in Labels |-> stats[l].failed]
           sums == [l \in Labels |-> stats[l].sum]
           ratios == [l \in Labels |-> Ratio(stats[l])]
<1>3. /\ IsFiniteSet(Labels) /\ \A l \in Labels : counts[l] \in Nat
      /\ Total(counts) = TotalStat.count
  <2>1. ASSUME NEW l \in Labels PROVE counts[l] = Sum(Each, RowsWith(l))
    <3>1. Sum(Each, RowsWith(l)) = Cardinality(RowsWith(l))
      BY <1>2, SumOfOnes
    <3> QED
      BY <1>1, <3>1 DEF IsStat
  <2>2. Sum(Each, TransactionRows) = TotalStat.count
    <3>1. Sum(Each, TransactionRows) = Cardinality(TransactionRows)
      BY <1>2, SumOfOnes
    <3> QED
      BY <1>1, <3>1 DEF IsStat
  <2>3. DOMAIN counts = Labels /\ \A i \in TransactionRows : Each[i] \in Nat
    BY <1>2
  <2> HIDE DEF counts
  <2> QED
    BY <2>1, <2>2, <2>3, LabelsAddUp
<1>4. Total(fails) = TotalStat.failed
  <2>1. \A l \in Labels : fails[l] = Sum(Failure, RowsWith(l))
    BY <1>1 DEF IsStat
  <2>2. DOMAIN fails = Labels /\ \A i \in TransactionRows : Failure[i] \in Nat
    BY <1>2
  <2> HIDE DEF fails
  <2>3. Total(fails) = Sum(Failure, TransactionRows)
    BY <2>1, <2>2, LabelsAddUp
  <2> QED
    BY <1>1, <2>3 DEF IsStat
<1>5. Total(sums) = TotalStat.sum
  <2>1. \A l \in Labels : sums[l] = Sum(Duration, RowsWith(l))
    BY <1>1 DEF IsStat
  <2>2. DOMAIN sums = Labels /\ \A i \in TransactionRows : Duration[i] \in Nat
    BY <1>2
  <2> HIDE DEF sums
  <2>3. Total(sums) = Sum(Duration, TransactionRows)
    BY <2>1, <2>2, LabelsAddUp
  <2> QED
    BY <1>1, <2>3 DEF IsStat
<1>6. ASSUME Labels # {}
      PROVE  /\ TotalStat.max = Max({stats[l].max : l \in Labels})
             /\ TotalStat.min = Min({stats[l].min : l \in Labels})
  <2>1. TransactionRows # {}
    BY <1>6 DEF Labels, Keys
  <2>2. Highest(TotalStat.max, Times(TransactionRows)) /\ Lowest(TotalStat.min, Times(TransactionRows))
    BY <1>1, <2>1 DEF IsStat
  <2>3. ASSUME NEW l \in Labels
        PROVE  /\ Highest(stats[l].max, Times(RowsWith(l)))
               /\ Lowest(stats[l].min, Times(RowsWith(l)))
               /\ Times(RowsWith(l)) \subseteq Times(TransactionRows)
    BY <1>1, <1>2 DEF IsStat, Times
  <2>4. ASSUME NEW v \in Times(TransactionRows) PROVE \E l \in Labels : v \in Times(RowsWith(l))
    <3>1. PICK i \in TransactionRows : v = samples[i].elapsed
      BY DEF Times
    <3>2. LabelOf[i] \in Labels /\ i \in RowsWith(LabelOf[i])
      BY DEF Labels, RowsWith, Keys, With
    <3>3. v \in Times(RowsWith(LabelOf[i]))
      BY <3>1, <3>2 DEF Times
    <3> QED
      BY <3>2, <3>3
  <2> DEFINE tops == {stats[l].max : l \in Labels}
             ends == {stats[l].min : l \in Labels}
  <2>5. tops \subseteq Times(TransactionRows) /\ ends \subseteq Times(TransactionRows)
    BY <2>3 DEF Highest, Lowest
  <2>6. Highest(TotalStat.max, tops)
    <3>1. PICK l \in Labels : TotalStat.max \in Times(RowsWith(l))
      BY <2>2, <2>4 DEF Highest
    <3>2. TotalStat.max <= stats[l].max /\ stats[l].max <= TotalStat.max
      BY <2>2, <2>3, <3>1 DEF Highest
    <3>3. stats[l].max \in Nat /\ TotalStat.max \in Nat
      BY <1>1, <2>2, <2>5 DEF Highest
    <3>4. TotalStat.max = stats[l].max
      BY <3>2, <3>3
    <3>5. TotalStat.max \in tops
      BY <3>4
    <3> QED
      BY <2>2, <2>5, <3>5 DEF Highest
  <2>7. Lowest(TotalStat.min, ends)
    <3>1. PICK l \in Labels : TotalStat.min \in Times(RowsWith(l))
      BY <2>2, <2>4 DEF Lowest
    <3>2. stats[l].min <= TotalStat.min /\ TotalStat.min <= stats[l].min
      BY <2>2, <2>3, <3>1 DEF Lowest
    <3>3. stats[l].min \in Nat /\ TotalStat.min \in Nat
      BY <1>1, <2>2, <2>5 DEF Lowest
    <3>4. TotalStat.min = stats[l].min
      BY <3>2, <3>3
    <3>5. TotalStat.min \in ends
      BY <3>4
    <3> QED
      BY <2>2, <2>5, <3>5 DEF Lowest
  <2> HIDE DEF tops, ends
  <2>8. TotalStat.max = Max(tops) /\ TotalStat.min = Min(ends)
    BY <1>1, <2>5, <2>6, <2>7, MaxIsHighest, MinIsLowest
  <2> QED
    BY <2>8 DEF tops, ends
<1>7. Total(ratios) \in (IF Labels = {} THEN {0} ELSE 100 - Cardinality(Labels) .. 100)
  <2>1. DOMAIN ratios = Labels /\ DOMAIN counts = Labels
    OBVIOUS
  <2>2. Total(ratios) = Sum(ratios, Labels) /\ Total(counts) = Sum(counts, Labels)
    BY <2>1, Zenon DEF Total, Sum
  <2>3. CASE Labels = {}
    <3>1. Total(ratios) = 0
      BY <2>2, <2>3, SumOfNone
    <3> QED
      BY <2>3, <3>1
  <2>4. CASE Labels # {}
    <3> DEFINE n == TotalStat.count
    <3>1. n \in Nat \ {0}
      <4>1. TransactionRows # {}
        BY <2>4 DEF Labels, Keys
      <4>2. Cardinality(TransactionRows) \in Nat /\ Cardinality(TransactionRows) # 0
        BY <1>2, <4>1, FS_EmptySet, FS_CardinalityType
      <4> QED
        BY <1>1, <4>2 DEF IsStat
    <3>2. \A l \in Labels : ratios[l] = (counts[l] * 100) \div n
      BY <3>1 DEF Ratio
    <3>3. n = Sum(counts, Labels)
      BY <1>3, <2>2
    <3> HIDE DEF n, ratios, counts
    <3>4. Sum(ratios, Labels) \in 100 - Cardinality(Labels) .. 100
      BY <1>3, <2>4, <3>1, <3>2, <3>3, SharesAddUp
    <3> QED
      BY <2>2, <2>4, <3>4
  <2> QED
    BY <2>3, <2>4
<1> QED
  BY <1>1, <1>3, <1>4, <1>5, <1>6, <1>7, Zenon DEF TransactionsAddUp, stats

-----------------------------------------------------------------------------
(* Percentiles *)

Ascends(q, n) == \A i \in 1..n - 1 : q[i] <= q[i + 1]
PlacesOf(q, n, v) == {j \in 1..n : q[j] = v}
Having(is, v) == {i \in is : samples[i].elapsed = v}

Arranges(q, is, n) ==
  /\ q \in [1..n -> Times(is)]
  /\ Ascends(q, n)
  /\ \A v \in Nat : Cardinality(PlacesOf(q, n, v)) = Cardinality(Having(is, v))

\* The largest of the times is put after the others in their order.
LEMMA ArrangesMore ==
  ASSUME MathTypeOK, NEW is \in SUBSET DOMAIN samples, NEW i \in is, NEW n \in Nat,
         Highest(samples[i].elapsed, Times(is)),
         NEW q, Arranges(q, is \ {i}, n)
  PROVE  Arranges([j \in 1..n + 1 |-> IF j = n + 1 THEN samples[i].elapsed ELSE q[j]], is, n + 1)
<1> DEFINE m == samples[i].elapsed
           rest == is \ {i}
           z == [j \in 1..n + 1 |-> IF j = n + 1 THEN m ELSE q[j]]
<1>1. /\ m \in Nat /\ m \in Times(is) /\ Times(rest) \subseteq Times(is)
      /\ Times(is) \subseteq Nat /\ \A v \in Times(is) : v <= m
  BY SamplesAre DEF Times, Highest
<1>2. q \in [1..n -> Times(rest)] /\ Ascends(q, n)
  BY DEF Arranges
<1>3. /\ z[n + 1] = m /\ \A j \in 1..n : z[j] = q[j]
      /\ \A j \in 1..n + 1 : j \in 1..n \/ j = n + 1
      /\ 1..n \subseteq 1..n + 1 /\ n + 1 \notin 1..n /\ n + 1 \in 1..n + 1
  OBVIOUS
<1>4. z \in [1..n + 1 -> Times(is)]
  <2>1. \A j \in 1..n + 1 : (IF j = n + 1 THEN m ELSE q[j]) \in Times(is)
    BY <1>1, <1>2, <1>3
  <2> QED
    BY <2>1
<1> HIDE DEF z
<1>5. Ascends(z, n + 1)
  <2> SUFFICES ASSUME NEW j \in 1..n PROVE z[j] <= z[j + 1]
    BY DEF Ascends
  <2>1. CASE j = n
    <3>1. z[j] \in Times(is) /\ z[j + 1] = m
      BY <1>3, <1>4, <2>1
    <3> QED
      BY <1>1, <3>1
  <2>2. CASE j # n
    <3>1. j \in 1..n - 1 /\ j + 1 \in 1..n
      BY <2>2
    <3>2. q[j] <= q[j + 1]
      BY <1>2, <3>1 DEF Ascends
    <3> QED
      BY <1>3, <3>1, <3>2
  <2> QED
    BY <2>1, <2>2
<1>6. ASSUME NEW v \in Nat
      PROVE  Cardinality(PlacesOf(z, n + 1, v)) = Cardinality(Having(is, v))
  <2> DEFINE a == PlacesOf(q, n, v)
             b == Having(rest, v)
  <2>1. Cardinality(a) = Cardinality(b)
    BY DEF Arranges
  <2>2. IsFiniteSet(a) /\ IsFiniteSet(b) /\ n + 1 \notin a /\ i \notin b
    <3>1. IsFiniteSet(1..n) /\ IsFiniteSet(rest)
      <4>1. IsFiniteSet(1..n)
        BY FS_Interval
      <4>2. rest \subseteq DOMAIN samples
        OBVIOUS
      <4> QED
        BY <4>1, <4>2, SamplesAre, FS_Subset
    <3>2. a \subseteq 1..n /\ b \subseteq rest
      BY DEF PlacesOf, Having
    <3>3. IsFiniteSet(a) /\ IsFiniteSet(b)
      BY <3>1, <3>2, FS_Subset
    <3> QED
      BY <1>3, <3>2, <3>3
  <2>3. CASE v = m
    <3>1. PlacesOf(z, n + 1, v) = a \cup {n + 1} /\ Having(is, v) = b \cup {i}
      BY <1>3, <2>3 DEF PlacesOf, Having
    <3> HIDE DEF a, b
    <3>2. /\ Cardinality(a \cup {n + 1}) = Cardinality(a) + 1
          /\ Cardinality(b \cup {i}) = Cardinality(b) + 1
      BY <2>2, FS_AddElement
    <3> QED
      BY <2>1, <3>1, <3>2
  <2>4. CASE v # m
    <3>1. PlacesOf(z, n + 1, v) = a /\ Having(is, v) = b
      BY <1>3, <2>4 DEF PlacesOf, Having
    <3> QED
      BY <2>1, <3>1
  <2> QED
    BY <2>3, <2>4
<1> QED
  BY <1>4, <1>5, <1>6 DEF Arranges, z

LEMMA ArrangementExists ==
  ASSUME MathTypeOK, NEW is \in SUBSET DOMAIN samples
  PROVE  Cardinality(is) \in Nat /\ \E q : Arranges(q, is, Cardinality(is))
<1> DEFINE T == {n \in Nat : \A s \in SUBSET DOMAIN samples :
                   Cardinality(s) = n => \E q : Arranges(q, s, n)}
<1>0. \A s \in SUBSET DOMAIN samples : IsFiniteSet(s) /\ Cardinality(s) \in Nat
  BY SamplesAre, FS_Subset, FS_CardinalityType
<1>1. 0 \in T
  <2> SUFFICES ASSUME NEW s \in SUBSET DOMAIN samples, Cardinality(s) = 0
               PROVE  \E q : Arranges(q, s, 0)
    OBVIOUS
  <2>1. s = {} /\ Cardinality({}) = 0
    BY <1>0, FS_EmptySet
  <2> DEFINE q == [j \in 1..0 |-> 0]
  <2>2. q \in [1..0 -> Times(s)] /\ Ascends(q, 0)
    BY DEF Ascends
  <2>3. \A v : PlacesOf(q, 0, v) = {} /\ Having(s, v) = {}
    BY <2>1 DEF PlacesOf, Having
  <2> HIDE DEF q
  <2>4. Arranges(q, s, 0)
    BY <2>1, <2>2, <2>3 DEF Arranges
  <2> QED
    BY <2>4
<1>2. ASSUME NEW n \in T PROVE n + 1 \in T
  <2> SUFFICES ASSUME NEW s \in SUBSET DOMAIN samples, Cardinality(s) = n + 1
               PROVE  \E q : Arranges(q, s, n + 1)
    OBVIOUS
  <2>1. n \in Nat /\ IsFiniteSet(s) /\ s # {}
    BY <1>0, FS_EmptySet
  <2>2. Highest(StatOf(s).max, Times(s))
    BY <2>1, StatIs DEF IsStat
  <2>3. PICK i \in s : Highest(samples[i].elapsed, Times(s))
    BY <2>2 DEF Highest, Times
  <2>4. s \ {i} \in SUBSET DOMAIN samples /\ Cardinality(s \ {i}) = n
    <3>1. Cardinality(s \ {i}) = Cardinality(s) - 1
      BY <2>1, FS_RemoveElement
    <3> QED
      BY <2>1, <3>1
  <2>5. PICK q : Arranges(q, s \ {i}, n)
    BY <2>4
  <2> QED
    BY <2>1, <2>3, <2>5, ArrangesMore
<1>3. T \subseteq Nat
  OBVIOUS
<1> HIDE DEF T
<1>4. \A n \in T : n + 1 \in T
  BY <1>2
<1>5. T = Nat
  BY <1>1, <1>3, <1>4, Induction
<1> QED
  BY <1>0, <1>5 DEF T

LEMMA SortedIs ==
  ASSUME MathTypeOK, NEW is \in SUBSET DOMAIN samples
  PROVE  LET n == Cardinality(is) IN
         Sorted(is) \in [1..n -> Times(is)] /\ Ascends(Sorted(is), n)
<1> DEFINE n == Cardinality(is)
           Sorts(q) == /\ \A i \in 1..n - 1 : q[i] <= q[i + 1]
                       /\ \A v \in Times(is) : Cardinality({i \in DOMAIN q : q[i] = v})
                                = Cardinality({i \in is : samples[i].elapsed = v})
<1>1. PICK q : Arranges(q, is, n)
  BY ArrangementExists
<1>2. q \in [1..n -> Times(is)] /\ Sorts(q)
  <2>1. q \in [1..n -> Times(is)] /\ DOMAIN q = 1..n /\ Ascends(q, n)
    BY <1>1 DEF Arranges
  <2>2. ASSUME NEW v \in Times(is)
        PROVE  Cardinality({i \in DOMAIN q : q[i] = v})
                 = Cardinality({i \in is : samples[i].elapsed = v})
    <3>1. v \in Nat
      BY SamplesAre DEF Times
    <3>2. {i \in DOMAIN q : q[i] = v} = PlacesOf(q, n, v)
      BY <2>1 DEF PlacesOf
    <3>3. {i \in is : samples[i].elapsed = v} = Having(is, v)
      BY DEF Having
    <3>4. Cardinality(PlacesOf(q, n, v)) = Cardinality(Having(is, v))
      BY <1>1, <3>1 DEF Arranges
    <3> QED
      BY <3>2, <3>3, <3>4
  <2> QED
    BY <2>1, <2>2 DEF Ascends
<1>3. Sorted(is) = CHOOSE f \in [1..n -> Times(is)] : Sorts(f)
  BY DEF Sorted
<1> HIDE DEF Sorts
<1>4. Sorted(is) \in [1..n -> Times(is)] /\ Sorts(Sorted(is))
  BY <1>2, <1>3
<1> QED
  BY <1>4 DEF Sorts, Ascends

LEMMA AscendsAll ==
  ASSUME NEW n \in Nat, NEW q \in [1..n -> Nat], Ascends(q, n),
         NEW i \in 1..n, NEW j \in 1..n, i <= j
  PROVE  q[i] <= q[j]
<1> DEFINE T == {d \in Nat : i + d \in 1..n => q[i] <= q[i + d]}
<1>1. 0 \in T
  OBVIOUS
<1>2. ASSUME NEW d \in T PROVE d + 1 \in T
  <2> SUFFICES ASSUME i + (d + 1) \in 1..n PROVE q[i] <= q[i + (d + 1)]
    OBVIOUS
  <2>1. d \in Nat /\ i + d \in 1..n /\ i + d \in 1..n - 1 /\ i + (d + 1) = i + d + 1
    OBVIOUS
  <2>2. q[i] <= q[i + d] /\ q[i + d] <= q[i + d + 1]
    BY <2>1 DEF Ascends
  <2>3. q[i] \in Nat /\ q[i + d] \in Nat /\ q[i + d + 1] \in Nat
    BY <2>1
  <2> QED
    BY <2>1, <2>2, <2>3
<1>3. T \subseteq Nat
  OBVIOUS
<1> HIDE DEF T
<1>4. \A d \in T : d + 1 \in T
  BY <1>2
<1>5. T = Nat
  BY <1>1, <1>3, <1>4, Induction
<1>6. j - i \in T /\ i + (j - i) = j
  BY <1>5
<1> QED
  BY <1>6 DEF T

\* The value k hundredths of a step along a sorted list.
FloorOf(k) == k \div 100 + 1
At(q, n, k) ==
  IF FloorOf(k) = n THEN 100 * q[FloorOf(k)]
  ELSE 100 * q[FloorOf(k)] + (k % 100) * (q[FloorOf(k) + 1] - q[FloorOf(k)])

LEMMA FloorIs ==
  ASSUME NEW n \in Nat \ {0}, NEW k \in Nat, k <= 100 * (n - 1)
  PROVE  /\ FloorOf(k) \in 1..n /\ k % 100 \in 0..99
         /\ k = 100 * (FloorOf(k) - 1) + (k % 100)
<1> DEFINE d == k \div 100
           r == k % 100
<1>1. d \in Nat /\ r \in 0..99 /\ k = 100 * d + r
  OBVIOUS
<1> HIDE DEF d, r
<1>2. d + 1 \in 1..n
  BY <1>1
<1> QED
  BY <1>1, <1>2 DEF FloorOf, d, r

Between(q, n, f, v) ==
  /\ v \in Nat /\ 100 * q[f] <= v
  /\ f < n => f + 1 \in 1..n /\ v <= 100 * q[f + 1]
  /\ f = n => v = 100 * q[f]

LEMMA AtIs ==
  ASSUME NEW n \in Nat \ {0}, NEW q \in [1..n -> Nat], Ascends(q, n),
         NEW k \in Nat, k <= 100 * (n - 1)
  PROVE  Between(q, n, FloorOf(k), At(q, n, k))
<1> DEFINE f == FloorOf(k)
           r == k % 100
           a == q[f]
           b == q[f + 1]
<1>1. f \in 1..n /\ r \in 0..99 /\ a \in Nat
  BY FloorIs
<1>2. CASE f = n
  <2>1. At(q, n, k) = 100 * a
    BY <1>2 DEF At
  <2> HIDE DEF a, f
  <2> QED
    BY <1>1, <1>2, <2>1 DEF a, f, Between
<1>3. CASE f # n
  <2>1. f < n /\ f + 1 \in 1..n /\ f \in 1..n - 1
    BY <1>1, <1>3
  <2>2. b \in Nat /\ a <= b
    BY <2>1 DEF Ascends
  <2>3. At(q, n, k) = 100 * a + r * (b - a)
    BY <1>3 DEF At
  <2> HIDE DEF r, a, b, f
  <2> DEFINE d == b - a
             w == r * d
  <2>4. d \in Nat /\ b = a + d
    BY <1>1, <2>2
  <2> HIDE DEF d
  <2>5. r * d \in Nat /\ r * d <= 100 * d
    BY <1>1, <2>4, Product
  <2>6. w \in Nat /\ w <= 100 * d
    BY <2>5
  <2>7. At(q, n, k) = 100 * a + w
    BY <2>3 DEF d
  <2> HIDE DEF w
  <2>8. At(q, n, k) \in Nat /\ 100 * a <= At(q, n, k) /\ At(q, n, k) <= 100 * b
    BY <1>1, <2>4, <2>6, <2>7
  <2> QED
    BY <1>3, <2>1, <2>8 DEF a, b, f, Between
<1> QED
  BY <1>2, <1>3

LEMMA AtAscends ==
  ASSUME NEW n \in Nat \ {0}, NEW q \in [1..n -> Nat], Ascends(q, n),
         NEW k \in Nat, NEW m \in Nat, k <= m, m <= 100 * (n - 1)
  PROVE  At(q, n, k) <= At(q, n, m)
<1> DEFINE f == FloorOf(k)
           g == FloorOf(m)
           r == k % 100
           t == m % 100
<1>1. k <= 100 * (n - 1)
  OBVIOUS
<1>2. f \in 1..n /\ r \in 0..99 /\ k = 100 * (f - 1) + r
  BY <1>1, FloorIs
<1>3. g \in 1..n /\ t \in 0..99 /\ m = 100 * (g - 1) + t
  BY FloorIs
<1>4. /\ At(q, n, k) \in Nat
      /\ f < n => f + 1 \in 1..n /\ At(q, n, k) <= 100 * q[f + 1]
      /\ f = n => At(q, n, k) = 100 * q[f]
  <2>1. Between(q, n, f, At(q, n, k))
    BY <1>1, AtIs
  <2> QED
    BY <2>1 DEF Between
<1>5. At(q, n, m) \in Nat /\ 100 * q[g] <= At(q, n, m)
  <2>1. Between(q, n, g, At(q, n, m))
    BY AtIs
  <2> QED
    BY <2>1 DEF Between
<1>6. f # n => At(q, n, k) = 100 * q[f] + r * (q[f + 1] - q[f])
  BY DEF At
<1>7. g # n => At(q, n, m) = 100 * q[g] + t * (q[g + 1] - q[g])
  BY DEF At
<1> HIDE DEF f, g, r, t
<1>8. f <= g
  BY <1>2, <1>3
<1>9. CASE f = g /\ f = n
  <2>1. q[f] \in Nat
    BY <1>2
  <2> QED
    BY <1>4, <1>5, <1>9, <2>1
<1>10. CASE f = g /\ f # n
  <2> DEFINE a == q[f]
             d == q[f + 1] - a
  <2>1. f + 1 \in 1..n /\ f \in 1..n - 1
    BY <1>2, <1>10
  <2>2. q[f] \in Nat /\ q[f + 1] \in Nat /\ q[f] <= q[f + 1]
    BY <1>2, <2>1 DEF Ascends
  <2>3. d \in Nat /\ a \in Nat
    BY <2>2
  <2>4. r \in Nat /\ t \in Nat /\ r <= t
    BY <1>2, <1>3, <1>10
  <2>5. At(q, n, k) = 100 * a + r * d /\ At(q, n, m) = 100 * a + t * d
    BY <1>6, <1>7, <1>10
  <2> HIDE DEF a, d
  <2>6. r * d \in Nat /\ t * d \in Nat /\ r * d <= t * d
    BY <2>3, <2>4, Product
  <2> DEFINE rd == r * d
             td == t * d
  <2>7. rd \in Nat /\ td \in Nat /\ rd <= td
    BY <2>6
  <2>8. At(q, n, k) = 100 * a + rd /\ At(q, n, m) = 100 * a + td
    BY <2>5
  <2> HIDE DEF rd, td
  <2> QED
    BY <2>3, <2>7, <2>8
<1>11. CASE f # g
  <2>1. f < n /\ f + 1 \in 1..n /\ f + 1 <= g
    BY <1>2, <1>3, <1>8, <1>11
  <2>2. q[f + 1] <= q[g]
    BY <1>3, <2>1, AscendsAll
  <2>3. q[f + 1] \in Nat /\ q[g] \in Nat
    BY <1>3, <2>1
  <2> QED
    BY <1>4, <1>5, <2>1, <2>2, <2>3
<1> QED
  BY <1>9, <1>10, <1>11

LEMMA PercentileAt ==
  ASSUME NEW n \in Nat \ {0}, NEW q \in [1..n -> Nat], NEW p \in Nat
  PROVE  Percentile(q, p) = At(q, n, (n - 1) * p)
<1>1. Len(q) = n /\ q # <<>>
  <2>1. q \in Seq(Nat) /\ Len(q) = n
    OBVIOUS
  <2> QED
    BY <2>1
<1> QED
  BY <1>1, Zenon DEF Percentile, At, FloorOf

\* Percentiles ascend, between the shortest and the longest time.
LEMMA PercentilesInOrder ==
  ASSUME MathTypeOK, NEW is \in SUBSET DOMAIN samples, is # {}
  PROVE  /\ 100 * Min(Times(is)) <= Percentile(Sorted(is), 95)
         /\ Percentile(Sorted(is), 95) <= Percentile(Sorted(is), 99)
         /\ Percentile(Sorted(is), 99) <= 100 * Max(Times(is))
         /\ Percentile(Sorted(is), 95) \in Nat /\ Percentile(Sorted(is), 99) \in Nat
<1> DEFINE n == Cardinality(is)
           q == Sorted(is)
           lo == Min(Times(is))
           hi == Max(Times(is))
<1>1. n \in Nat \ {0}
  BY SamplesAre, FS_Subset, FS_EmptySet, FS_CardinalityType
<1>2. Times(is) \subseteq Nat
  BY SamplesAre DEF Times
<1>3. Highest(hi, Times(is)) /\ Lowest(lo, Times(is))
  <2>1. Highest(StatOf(is).max, Times(is)) /\ Lowest(StatOf(is).min, Times(is))
    BY StatIs DEF IsStat
  <2> QED
    BY <1>2, <2>1, MaxIsHighest, MinIsLowest
<1>4. q \in [1..n -> Times(is)] /\ Ascends(q, n)
  BY SortedIs
<1>5. /\ q \in [1..n -> Nat] /\ lo \in Nat /\ hi \in Nat
      /\ \A j \in 1..n : lo <= q[j] /\ q[j] <= hi
  BY <1>2, <1>3, <1>4 DEF Highest, Lowest
<1> HIDE DEF n, q, lo, hi
<1> DEFINE k == (n - 1) * 95
           m == (n - 1) * 99
<1>6. k \in Nat /\ m \in Nat /\ k <= m /\ m <= 100 * (n - 1) /\ k <= 100 * (n - 1)
  BY <1>1
<1>7. Percentile(q, 95) = At(q, n, k) /\ Percentile(q, 99) = At(q, n, m)
  BY <1>1, <1>5, PercentileAt
<1> HIDE DEF k, m
<1>8. At(q, n, k) <= At(q, n, m)
  BY <1>1, <1>4, <1>5, <1>6, AtAscends
<1>9. 100 * lo <= At(q, n, k) /\ At(q, n, k) \in Nat
  <2>1. /\ At(q, n, k) \in Nat /\ 100 * q[FloorOf(k)] <= At(q, n, k)
        /\ FloorOf(k) \in 1..n
    <3>1. Between(q, n, FloorOf(k), At(q, n, k))
      BY <1>1, <1>4, <1>5, <1>6, AtIs
    <3>2. FloorOf(k) \in 1..n
      BY <1>1, <1>6, FloorIs
    <3> QED
      BY <3>1, <3>2 DEF Between
  <2>2. lo <= q[FloorOf(k)] /\ q[FloorOf(k)] \in Nat
    BY <1>5, <2>1
  <2> QED
    BY <1>5, <2>1, <2>2
<1>10. At(q, n, m) <= 100 * hi /\ At(q, n, m) \in Nat
  <2> DEFINE f == FloorOf(m)
  <2>1. /\ At(q, n, m) \in Nat /\ f \in 1..n
        /\ f < n => f + 1 \in 1..n /\ At(q, n, m) <= 100 * q[f + 1]
        /\ f = n => At(q, n, m) = 100 * q[f]
    <3>1. f \in 1..n
      BY <1>1, <1>6, FloorIs
    <3>2. Between(q, n, f, At(q, n, m))
      BY <1>1, <1>4, <1>5, <1>6, AtIs
    <3> QED
      BY <3>1, <3>2 DEF Between
  <2> HIDE DEF f
  <2>2. PICK j \in 1..n : At(q, n, m) <= 100 * q[j]
    <3>1. CASE f = n
      <4>1. q[f] \in Nat
        BY <1>5, <2>1
      <4> QED
        BY <2>1, <3>1, <4>1
    <3>2. CASE f # n
      <4>1. f < n
        BY <1>1, <2>1, <3>2
      <4> QED
        BY <2>1, <4>1
    <3> QED
      BY <3>1, <3>2
  <2>3. q[j] <= hi /\ q[j] \in Nat
    BY <1>5
  <2> QED
    BY <1>5, <2>1, <2>2, <2>3
<1> QED
  BY <1>7, <1>8, <1>9, <1>10 DEF q, lo, hi

-----------------------------------------------------------------------------
(* The curves *)

LEMMA HighestExists ==
  ASSUME NEW S, IsFiniteSet(S), S \subseteq Nat, S # {}
  PROVE  \E m : Highest(m, S)
<1> DEFINE P == {s \in SUBSET S : s = {} \/ \E m : Highest(m, s)}
<1>1. {} \in P
  OBVIOUS
<1>2. ASSUME NEW s \in P, NEW x \in S \ s PROVE s \cup {x} \in P
  <2>1. s \subseteq Nat /\ x \in Nat
    OBVIOUS
  <2>2. CASE s = {}
    <3>1. Highest(x, s \cup {x})
      BY <2>1, <2>2 DEF Highest
    <3> QED
      BY <3>1
  <2>3. CASE s # {}
    <3>1. PICK m : Highest(m, s)
      BY <2>3
    <3>2. Highest(IF x > m THEN x ELSE m, s \cup {x})
      BY <2>1, <3>1 DEF Highest
    <3> QED
      BY <3>2
  <2> QED
    BY <2>2, <2>3
<1>3. P \subseteq SUBSET S
  OBVIOUS
<1> HIDE DEF P
<1>4. S \in P
  BY <1>1, <1>2, <1>3, FiniteInduction
<1> QED
  BY <1>4 DEF P

\* No more threads are shown than the run has.
LEMMA ThreadsBounded ==
  ASSUME MathTypeOK, NEW is \in SUBSET DOMAIN samples, NEW raw,
         \A i \in is : raw[i] \in Nat, meta.total > 0
  PROVE  ActiveThreads(is, raw) <= meta.total
<1>1. meta \in [slaves: Nat, perSlave: Nat, total: Nat]
  BY ReportMathAssumption DEF MathTypeOK
<1>2. IsFiniteSet(is)
  BY SamplesAre, FS_Subset
<1> DEFINE told == {j \in is : samples[j].success # "none"}
           name == [i \in told |-> <<samples[i].label, samples[i].threads>>]
           scaled == [i \in is |-> NormalizeThreads(raw[i])]
           names == {<<samples[i].label, samples[i].threads>> : i \in told}
           counts == {Cardinality(names)} \cup {NormalizeThreads(raw[i]) : i \in is}
<1>3. names = Keys(told, name) /\ {NormalizeThreads(raw[i]) : i \in is} = Keys(is, scaled)
  BY DEF Keys
<1>4. ASSUME NEW n \in Nat PROVE NormalizeThreads(n) \in Nat
  BY <1>1 DEF NormalizeThreads
<1>5. Cardinality(names) \in Nat
  <2>1. IsFiniteSet(told)
    BY <1>2, FS_Subset
  <2> HIDE DEF told
  <2>2. IsFiniteSet(Keys(told, name))
    BY <2>1, FiniteImage
  <2> QED
    BY <1>3, <2>2, FS_CardinalityType
<1>6. IsFiniteSet(counts) /\ counts \subseteq Nat /\ counts # {}
  <2>1. IsFiniteSet(Keys(is, scaled))
    BY <1>2, FiniteImage
  <2>2. IsFiniteSet({NormalizeThreads(raw[i]) : i \in is} \cup {Cardinality(names)})
    BY <1>3, <2>1, FS_AddElement
  <2>3. counts = {NormalizeThreads(raw[i]) : i \in is} \cup {Cardinality(names)}
    OBVIOUS
  <2>4. {NormalizeThreads(raw[i]) : i \in is} \subseteq Nat
    BY <1>4
  <2> QED
    BY <1>5, <2>2, <2>3, <2>4
<1> DEFINE threads == Max(counts)
<1>7. ActiveThreads(is, raw) =
        IF meta.total > 0 /\ threads > meta.total THEN meta.total ELSE threads
  BY DEF ActiveThreads
<1> HIDE DEF counts
<1>8. threads \in Nat
  <2>1. PICK m : Highest(m, counts)
    BY <1>6, HighestExists
  <2>2. threads = m
    BY <1>6, <2>1, MaxIsHighest
  <2> QED
    BY <1>6, <2>1, <2>2 DEF Highest
<1> HIDE DEF threads
<1> QED
  BY <1>1, <1>7, <1>8

LEMMA SumOfZeros ==
  ASSUME NEW S, IsFiniteSet(S), NEW f, \A x \in S : f[x] = 0
  PROVE  Sum(f, S) = 0
<1> DEFINE P == {s \in SUBSET S : Sum(f, s) = 0}
<1>1. {} \in P
  BY SumOfNone
<1>2. ASSUME NEW s \in P, NEW x \in S \ s PROVE s \cup {x} \in P
  <2>1. IsFiniteSet(s) /\ \A y \in s \cup {x} : f[y] \in Nat
    BY FS_Subset
  <2>2. Sum(f, s \cup {x}) = f[x] + Sum(f, s)
    BY <2>1, SumWith
  <2>3. f[x] = 0 /\ Sum(f, s) = 0
    OBVIOUS
  <2>4. Sum(f, s \cup {x}) = 0
    BY <2>2, <2>3
  <2> QED
    BY <2>4
<1>3. P \subseteq SUBSET S
  OBVIOUS
<1> HIDE DEF P
<1>4. S \in P
  BY <1>1, <1>2, <1>3, FiniteInduction
<1> QED
  BY <1>4 DEF P

LEMMA SumOfFailures ==
  ASSUME MathTypeOK, NEW is \in SUBSET DOMAIN samples
  PROVE  Sum(Failure, is) = Cardinality(Failed(is))
<1> DEFINE A == Failed(is)
           B == is \ Failed(is)
<1>1. IsFiniteSet(A) /\ IsFiniteSet(B) /\ A \cap B = {} /\ A \cup B = is
  <2>1. IsFiniteSet(is) /\ A \subseteq is /\ B \subseteq is
    BY SamplesAre, FS_Subset DEF Failed
  <2> QED
    BY <2>1, FS_Subset
<1>2. /\ \A i \in A : Failure[i] = 1
      /\ \A i \in B : Failure[i] = 0
      /\ \A i \in A \cup B : Failure[i] \in Nat
  BY DEF Failed, Failure
<1> HIDE DEF A, B
<1>3. Sum(Failure, A) = Cardinality(A)
  BY <1>1, <1>2, SumOfOnes
<1>4. Sum(Failure, B) = 0
  BY <1>1, <1>2, SumOfZeros
<1>5. Sum(Failure, A \cup B) = Sum(Failure, A) + Sum(Failure, B)
  BY <1>1, <1>2, SumJoined
<1>6. Cardinality(A) \in Nat
  BY <1>1, FS_CardinalityType
<1>7. Sum(Failure, A \cup B) = Sum(Failure, is)
  BY <1>1, Zenon
<1>8. Sum(Failure, is) = Cardinality(A)
  BY <1>3, <1>4, <1>5, <1>6, <1>7
<1> QED
  BY <1>8 DEF A

WindowOf == [i \in DOMAIN samples |-> BucketStart(samples[i])]
PointOf == [i \in DOMAIN samples |-> <<samples[i].label, BucketStart(samples[i])>>]

\* The rows of a point of either curve, by their keys.
LEMMA CurvesAre ==
  ASSUME MathTypeOK
  PROVE  /\ MetricCurve = [b \in Keys(MetricRows, WindowOf) |->
                             Point(With(MetricRows, WindowOf, b), AllThreads)]
         /\ TransactionCurve = [k \in Keys(TransactionRows, PointOf) |->
                                  Point(With(TransactionRows, PointOf, k), GroupThreads)]
<1>1. /\ \A i \in MetricRows : WindowOf[i] = BucketStart(samples[i])
      /\ \A i \in TransactionRows : PointOf[i] = <<samples[i].label, BucketStart(samples[i])>>
  BY SamplesAre, RowsDivide DEF WindowOf, PointOf
<1>2. /\ {BucketStart(samples[i]) : i \in MetricRows} = Keys(MetricRows, WindowOf)
      /\ {<<samples[i].label, BucketStart(samples[i])>> : i \in TransactionRows} = Keys(TransactionRows, PointOf)
  BY <1>1 DEF Keys
<1>3. \A b : {i \in MetricRows : BucketStart(samples[i]) = b} = With(MetricRows, WindowOf, b)
  BY <1>1 DEF With
<1>4. ASSUME NEW k \in Keys(TransactionRows, PointOf)
      PROVE  {i \in TransactionRows : samples[i].label = k[1] /\ BucketStart(samples[i]) = k[2]}
               = With(TransactionRows, PointOf, k)
  <2>1. PICK j \in TransactionRows : k = <<samples[j].label, BucketStart(samples[j])>>
    BY <1>1 DEF Keys
  <2>2. \A i \in TransactionRows : PointOf[i] = k <=> samples[i].label = k[1] /\ BucketStart(samples[i]) = k[2]
    BY <1>1, <2>1
  <2> QED
    BY <2>2 DEF With
<1>5. MetricCurve = [b \in Keys(MetricRows, WindowOf) |->
                       Point(With(MetricRows, WindowOf, b), AllThreads)]
  BY <1>2, <1>3, Zenon DEF MetricCurve
<1>6. TransactionCurve = [k \in Keys(TransactionRows, PointOf) |->
                            Point(With(TransactionRows, PointOf, k), GroupThreads)]
  <2> DEFINE z == [k \in Keys(TransactionRows, PointOf) |->
                    Point({i \in TransactionRows : samples[i].label = k[1] /\ BucketStart(samples[i]) = k[2]},
                          GroupThreads)]
             y == [k \in Keys(TransactionRows, PointOf) |->
                     Point(With(TransactionRows, PointOf, k), GroupThreads)]
  <2>1. TransactionCurve = z
    BY <1>2, Zenon DEF TransactionCurve
  <2>2. ASSUME NEW k \in Keys(TransactionRows, PointOf) PROVE z[k] = y[k]
    BY <1>4, Zenon
  <2>3. z = [k \in Keys(TransactionRows, PointOf) |-> z[k]] /\ y = [k \in Keys(TransactionRows, PointOf) |-> y[k]]
    OBVIOUS
  <2> HIDE DEF z, y
  <2>4. z = y
    BY <2>2, <2>3
  <2> QED
    BY <2>1, <2>4 DEF y
<1> QED
  BY <1>5, <1>6

LEMMA PointIs ==
  ASSUME NEW is, NEW raw
  PROVE  /\ Point(is, raw).count = Cardinality(is)
         /\ Point(is, raw).failed = Cardinality(Failed(is))
         /\ Point(is, raw).p95 = Percentile(Sorted(is), 95)
         /\ Point(is, raw).p99 = Percentile(Sorted(is), 99)
         /\ Point(is, raw).threads = ActiveThreads(is, raw)
BY DEF Point

\* A set of rows that has all rows of the points it touches.
Closed(is) == \A k \in Keys(is, PointOf) : With(is, PointOf, k) = With(TransactionRows, PointOf, k)

LEMMA CurveOf ==
  ASSUME MathTypeOK
  PROVE  /\ DOMAIN TransactionCurve = Keys(TransactionRows, PointOf)
         /\ \A k \in DOMAIN TransactionCurve :
              /\ TransactionCurve[k] = Point(With(TransactionRows, PointOf, k), GroupThreads)
              /\ TransactionCurve[k].count = Cardinality(With(TransactionRows, PointOf, k))
              /\ TransactionCurve[k].failed
                   = Cardinality(Failed(With(TransactionRows, PointOf, k)))
<1>1. TransactionCurve = [k \in Keys(TransactionRows, PointOf) |->
                            Point(With(TransactionRows, PointOf, k), GroupThreads)]
  BY CurvesAre
<1>2. DOMAIN TransactionCurve = Keys(TransactionRows, PointOf)
  BY <1>1
<1>3. ASSUME NEW k \in DOMAIN TransactionCurve
      PROVE  TransactionCurve[k] = Point(With(TransactionRows, PointOf, k), GroupThreads)
  BY <1>1, <1>2
<1> QED
  BY <1>2, <1>3, PointIs

\* The points of the transactions add up over such rows.
LEMMA PointsAddUp ==
  ASSUME MathTypeOK, NEW is, is \subseteq TransactionRows, Closed(is),
         NEW keys, keys = Keys(is, PointOf)
  PROVE  /\ Total([k \in keys |-> TransactionCurve[k].count]) = Cardinality(is)
         /\ Total([k \in keys |-> TransactionCurve[k].failed]) = Cardinality(Failed(is))
<1> DEFINE counts == [k \in keys |-> TransactionCurve[k].count]
           fails == [k \in keys |-> TransactionCurve[k].failed]
<1>1. /\ is \in SUBSET DOMAIN samples /\ IsFiniteSet(is)
      /\ \A i \in is : Each[i] = 1 /\ Failure[i] \in Nat
  <2>1. is \subseteq DOMAIN samples
    BY SamplesAre
  <2>2. IsFiniteSet(is)
    BY <2>1, SamplesAre, FS_Subset
  <2> QED
    BY <2>1, <2>2, SamplesAre DEF Each, Failure
<1>2. \A k \in keys : With(is, PointOf, k) = With(TransactionRows, PointOf, k)
  BY DEF Closed
<1>3. \A k \in keys : /\ With(is, PointOf, k) \subseteq is
                      /\ IsFiniteSet(With(is, PointOf, k))
                      /\ With(is, PointOf, k) \in SUBSET DOMAIN samples
  <2>1. \A k \in keys : With(is, PointOf, k) \subseteq is
    BY DEF With
  <2> QED
    BY <1>1, <2>1, FS_Subset
<1>4. \A k \in keys : k \in DOMAIN TransactionCurve
  BY CurveOf DEF Keys
<1>5. Total(counts) = Cardinality(is)
  <2>1. ASSUME NEW k \in keys PROVE counts[k] = Sum(Each, With(is, PointOf, k))
    <3>1. Sum(Each, With(is, PointOf, k)) = Cardinality(With(is, PointOf, k))
      <4>1. \A i \in With(is, PointOf, k) : Each[i] = 1
        BY <1>1, <1>3
      <4> QED
        BY <1>3, <4>1, SumOfOnes
    <3>2. TransactionCurve[k].count = Cardinality(With(is, PointOf, k))
      BY <1>2, <1>4, CurveOf
    <3> QED
      BY <3>1, <3>2
  <2>2. DOMAIN counts = keys
    OBVIOUS
  <2> HIDE DEF counts
  <2>3. SumsOfKeys(counts, Each, is, PointOf, keys)
    BY <2>1 DEF SumsOfKeys
  <2>4. Measured(Each, is)
    BY <1>1 DEF Measured
  <2>5. AddsUp(counts, Each, is, keys)
    BY <1>1, <2>3, <2>4, AddsUpByKey
  <2>6. Sum(Each, is) = Cardinality(is)
    BY <1>1, SumOfOnes
  <2>7. Total(counts) = Sum(counts, keys)
    BY <2>2, Zenon DEF Total, Sum
  <2> QED
    BY <2>5, <2>6, <2>7 DEF AddsUp
<1>6. Total(fails) = Cardinality(Failed(is))
  <2>1. ASSUME NEW k \in keys PROVE fails[k] = Sum(Failure, With(is, PointOf, k))
    <3>1. Sum(Failure, With(is, PointOf, k)) = Cardinality(Failed(With(is, PointOf, k)))
      BY <1>3, SumOfFailures
    <3>2. TransactionCurve[k].failed = Cardinality(Failed(With(is, PointOf, k)))
      BY <1>2, <1>4, CurveOf
    <3> QED
      BY <3>1, <3>2
  <2>2. DOMAIN fails = keys
    OBVIOUS
  <2> HIDE DEF fails
  <2>3. SumsOfKeys(fails, Failure, is, PointOf, keys)
    BY <2>1 DEF SumsOfKeys
  <2>4. Measured(Failure, is)
    BY <1>1 DEF Measured
  <2>5. AddsUp(fails, Failure, is, keys)
    BY <1>1, <2>3, <2>4, AddsUpByKey
  <2>6. Sum(Failure, is) = Cardinality(Failed(is))
    BY <1>1, SumOfFailures
  <2>7. Total(fails) = Sum(fails, keys)
    BY <2>2, Zenon DEF Total, Sum
  <2> QED
    BY <2>5, <2>6, <2>7 DEF AddsUp
<1> QED
  BY <1>5, <1>6

\* Rows of one window, and rows of one label, are such rows.
LEMMA WindowsClosed ==
  ASSUME MathTypeOK, NEW b
  PROVE  /\ Closed(With(TransactionRows, WindowOf, b))
         /\ Keys(With(TransactionRows, WindowOf, b), PointOf)
              = {k \in Keys(TransactionRows, PointOf) : k[2] = b}
<1>1. \A i \in TransactionRows : PointOf[i][2] = WindowOf[i]
  BY SamplesAre DEF WindowOf, PointOf
<1> QED
  BY <1>1 DEF Closed, Keys, With

LEMMA LabelsClosed ==
  ASSUME MathTypeOK, NEW l
  PROVE  /\ Closed(With(TransactionRows, LabelOf, l))
         /\ Keys(With(TransactionRows, LabelOf, l), PointOf)
              = {k \in Keys(TransactionRows, PointOf) : k[1] = l}
<1>1. \A i \in TransactionRows : PointOf[i][1] = LabelOf[i]
  BY SamplesAre DEF LabelOf, PointOf
<1> QED
  BY <1>1 DEF Closed, Keys, With

LEMMA CardinalitiesJoined ==
  ASSUME NEW A, NEW B, IsFiniteSet(A), IsFiniteSet(B), A \cap B = {}
  PROVE  /\ Cardinality(A \cup B) = Cardinality(A) + Cardinality(B)
         /\ Cardinality(A) \in Nat /\ Cardinality(B) \in Nat
<1>1. Cardinality(A \cup B) = Cardinality(A) + Cardinality(B) - Cardinality(A \cap B)
  BY FS_Union
<1>2. Cardinality(A \cap B) = 0
  BY FS_EmptySet
<1>3. Cardinality(A) \in Nat /\ Cardinality(B) \in Nat
  BY FS_CardinalityType
<1> QED
  BY <1>1, <1>2, <1>3

\* The rows of a window are those of the metric curve and the damaged.
LEMMA WindowDivides ==
  ASSUME MathTypeOK, NEW b,
         NEW shown, shown = With(MetricRows, WindowOf, b),
         NEW refused, refused = {i \in Damaged : BucketStart(samples[i]) = b},
         NEW is, is = With(TransactionRows, WindowOf, b)
  PROVE  /\ Cardinality(is) = Cardinality(shown) + Cardinality(refused)
         /\ Cardinality(Failed(is)) = Cardinality(Failed(shown)) + Cardinality(Failed(refused))
         /\ Cardinality(refused) \in Nat /\ Cardinality(Failed(refused)) \in Nat
<1>1. \A i \in TransactionRows : WindowOf[i] = BucketStart(samples[i])
  BY SamplesAre DEF WindowOf
<1>2. is = shown \cup refused /\ shown \cap refused = {}
  BY <1>1, RowsDivide DEF With
<1>3. /\ Failed(is) = Failed(shown) \cup Failed(refused)
      /\ Failed(shown) \cap Failed(refused) = {}
  BY <1>2 DEF Failed
<1>4. IsFiniteSet(shown) /\ IsFiniteSet(refused)
  <2>1. shown \subseteq DOMAIN samples /\ refused \subseteq DOMAIN samples
    BY SamplesAre, RowsDivide DEF With
  <2> QED
    BY <2>1, SamplesAre, FS_Subset
<1>5. IsFiniteSet(Failed(shown)) /\ IsFiniteSet(Failed(refused))
  <2>1. Failed(shown) \subseteq shown /\ Failed(refused) \subseteq refused
    BY DEF Failed
  <2> QED
    BY <1>4, <2>1, FS_Subset
<1>6. /\ Cardinality(shown \cup refused) = Cardinality(shown) + Cardinality(refused)
      /\ Cardinality(refused) \in Nat
  BY <1>2, <1>4, CardinalitiesJoined
<1>7. /\ Cardinality(Failed(shown) \cup Failed(refused))
           = Cardinality(Failed(shown)) + Cardinality(Failed(refused))
      /\ Cardinality(Failed(refused)) \in Nat
  BY <1>3, <1>5, CardinalitiesJoined
<1> QED
  BY <1>2, <1>3, <1>6, <1>7, Zenon

LEMMA CurvesAddUp == MathTypeOK => CurvesAgree
<1> SUFFICES ASSUME MathTypeOK PROVE CurvesAgree
  OBVIOUS
<1> DEFINE metric == MetricCurve
           curve == TransactionCurve
           windows == {k[2] : k \in DOMAIN curve}
<1>1. /\ DOMAIN metric = Keys(MetricRows, WindowOf)
      /\ \A b \in DOMAIN metric :
           /\ metric[b].count = Cardinality(With(MetricRows, WindowOf, b))
           /\ metric[b].failed = Cardinality(Failed(With(MetricRows, WindowOf, b)))
  <2>1. metric = [b \in Keys(MetricRows, WindowOf) |->
                    Point(With(MetricRows, WindowOf, b), AllThreads)]
    BY CurvesAre
  <2> HIDE DEF metric
  <2>2. \A b \in DOMAIN metric : metric[b] = Point(With(MetricRows, WindowOf, b), AllThreads)
    BY <2>1
  <2> QED
    BY <2>1, <2>2, PointIs
<1>2. DOMAIN metric \subseteq windows
  <2>1. ASSUME NEW i \in MetricRows PROVE WindowOf[i] \in windows
    <3>1. i \in TransactionRows /\ PointOf[i][2] = WindowOf[i]
      BY SamplesAre, RowsDivide DEF WindowOf, PointOf
    <3>2. PointOf[i] \in DOMAIN curve
      BY <3>1, CurveOf DEF Keys
    <3> QED
      BY <3>1, <3>2
  <2> QED
    BY <1>1, <2>1 DEF Keys
<1>3. ASSUME NEW b \in windows
      PROVE  LET keys == {k \in DOMAIN curve : k[2] = b}
                 refused == {i \in Damaged : BucketStart(samples[i]) = b}
                 shown == b \in DOMAIN metric IN
             /\ Total([k \in keys |-> curve[k].count])
                  = (IF shown THEN metric[b].count ELSE 0) + Cardinality(refused)
             /\ Total([k \in keys |-> curve[k].failed])
                  = (IF shown THEN metric[b].failed ELSE 0) + Cardinality(Failed(refused))
  <2> DEFINE keys == {k \in DOMAIN curve : k[2] = b}
             refused == {i \in Damaged : BucketStart(samples[i]) = b}
             good == With(MetricRows, WindowOf, b)
             is == With(TransactionRows, WindowOf, b)
  <2>1. keys = Keys(is, PointOf) /\ Closed(is) /\ is \subseteq TransactionRows
    <3>1. keys = {k \in Keys(TransactionRows, PointOf) : k[2] = b}
      BY CurveOf
    <3>2. is \subseteq TransactionRows
      BY DEF With
    <3> QED
      BY <3>1, <3>2, WindowsClosed
  <2>2. /\ Cardinality(is) = Cardinality(good) + Cardinality(refused)
        /\ Cardinality(Failed(is)) = Cardinality(Failed(good)) + Cardinality(Failed(refused))
        /\ Cardinality(refused) \in Nat /\ Cardinality(Failed(refused)) \in Nat
    BY WindowDivides
  <2>3. /\ Cardinality(good) = (IF b \in DOMAIN metric THEN metric[b].count ELSE 0)
        /\ Cardinality(Failed(good)) = (IF b \in DOMAIN metric THEN metric[b].failed ELSE 0)
    <3>1. CASE b \in DOMAIN metric
      BY <1>1, <3>1
    <3>2. CASE b \notin DOMAIN metric
      <4>1. good = {} /\ Failed(good) = {}
        BY <1>1, <3>2 DEF With, Keys, Failed
      <4> QED
        BY <3>2, <4>1, FS_EmptySet
    <3> QED
      BY <3>1, <3>2
  <2> HIDE DEF is, keys, refused, good, metric
  <2>4. /\ Total([k \in keys |-> curve[k].count]) = Cardinality(is)
        /\ Total([k \in keys |-> curve[k].failed]) = Cardinality(Failed(is))
    BY <2>1, PointsAddUp
  <2>5. /\ Total([k \in keys |-> curve[k].count])
             = (IF b \in DOMAIN metric THEN metric[b].count ELSE 0) + Cardinality(refused)
        /\ Total([k \in keys |-> curve[k].failed])
             = (IF b \in DOMAIN metric THEN metric[b].failed ELSE 0)
                 + Cardinality(Failed(refused))
    BY <2>2, <2>3, <2>4, Zenon
  <2> QED
    BY <2>5, Zenon DEF keys, refused, metric
<1> QED
  BY <1>2, <1>3, Zenon DEF CurvesAgree

\* Percentiles of some rows of a table row lie between its times.
Lies(point, stat) ==
  /\ 100 * stat.min <= point.p95
  /\ point.p95 <= point.p99
  /\ point.p99 <= 100 * stat.max

LEMMA PointLies ==
  ASSUME MathTypeOK, NEW of \in SUBSET DOMAIN samples, NEW is \in SUBSET of, is # {},
         NEW stat, IsStat(stat, of), NEW raw
  PROVE  Lies(Point(is, raw), stat)
<1> DEFINE lo == Min(Times(is))
           hi == Max(Times(is))
           p == Percentile(Sorted(is), 95)
           r == Percentile(Sorted(is), 99)
<1>1. is \in SUBSET DOMAIN samples /\ of # {}
  OBVIOUS
<1>2. 100 * lo <= p /\ p <= r /\ r <= 100 * hi
  BY <1>1, PercentilesInOrder
<1>3. Times(is) \subseteq Times(of) /\ Times(of) \subseteq Nat
  BY SamplesAre DEF Times
<1>4. lo \in Times(is) /\ hi \in Times(is)
  <2>1. Highest(StatOf(is).max, Times(is)) /\ Lowest(StatOf(is).min, Times(is))
    BY <1>1, StatIs DEF IsStat
  <2>2. Max(Times(is)) = StatOf(is).max /\ Min(Times(is)) = StatOf(is).min
    BY <1>3, <2>1, MaxIsHighest, MinIsLowest
  <2> QED
    BY <2>1, <2>2 DEF Highest, Lowest
<1>5. stat.min \in Nat /\ stat.max \in Nat
  BY DEF IsStat, StatType
<1>6. Highest(stat.max, Times(of)) /\ Lowest(stat.min, Times(of))
  BY <1>1 DEF IsStat
<1>7. p \in Int /\ r \in Int
  BY <1>1, PercentilesInOrder
<1>8. lo \in Nat /\ hi \in Nat /\ stat.min <= lo /\ hi <= stat.max
  BY <1>3, <1>4, <1>6 DEF Highest, Lowest
<1>9. Point(is, raw).p95 = p /\ Point(is, raw).p99 = r
  BY PointIs
<1> HIDE DEF lo, hi, p, r
<1>10. 100 * stat.min <= p /\ r <= 100 * stat.max
  BY <1>2, <1>5, <1>7, <1>8
<1> QED
  BY <1>2, <1>9, <1>10 DEF Lies

LEMMA CurvesInTable == MathTypeOK => CurvesFitTable
<1> SUFFICES ASSUME MathTypeOK PROVE CurvesFitTable
  OBVIOUS
<1> DEFINE metric == MetricCurve
           curve == TransactionCurve
           stats == TransactionStats
<1>1. /\ DOMAIN stats = Labels
      /\ \A l \in Labels : IsStat(stats[l], RowsWith(l)) /\ RowsWith(l) \subseteq TransactionRows
      /\ IsStat(TotalStat, TransactionRows)
  BY StatsAre
<1>2. ASSUME NEW l \in DOMAIN stats
      PROVE  LET keys == {k \in DOMAIN curve : k[1] = l} IN
             /\ stats[l].count = Total([k \in keys |-> curve[k].count])
             /\ stats[l].failed = Total([k \in keys |-> curve[k].failed])
  <2> DEFINE keys == {k \in DOMAIN curve : k[1] = l}
             is == RowsWith(l)
  <2>1. keys = Keys(is, PointOf) /\ Closed(is) /\ is \subseteq TransactionRows
    <3>1. keys = {k \in Keys(TransactionRows, PointOf) : k[1] = l}
      BY CurveOf
    <3> QED
      BY <1>1, <3>1, LabelsClosed DEF RowsWith
  <2>2. stats[l].count = Cardinality(is) /\ stats[l].failed = Sum(Failure, is)
    BY <1>1 DEF IsStat
  <2>3. Sum(Failure, is) = Cardinality(Failed(is))
    BY <2>1, SamplesAre, SumOfFailures
  <2> HIDE DEF is, keys, stats
  <2>4. /\ Total([k \in keys |-> curve[k].count]) = Cardinality(is)
        /\ Total([k \in keys |-> curve[k].failed]) = Cardinality(Failed(is))
    BY <2>1, PointsAddUp
  <2> QED
    BY <2>2, <2>3, <2>4, Zenon DEF keys
<1>3. ASSUME NEW k \in DOMAIN curve
      PROVE  k[1] \in DOMAIN stats /\ Lies(curve[k], stats[k[1]])
  <2> DEFINE is == With(TransactionRows, PointOf, k)
  <2>1. PICK i \in TransactionRows : k = PointOf[i]
    BY CurveOf DEF Keys
  <2>2. \A j \in TransactionRows : PointOf[j][1] = LabelOf[j]
    BY SamplesAre DEF LabelOf, PointOf
  <2>3. k[1] \in Labels /\ is \subseteq RowsWith(k[1]) /\ i \in is
    BY <2>1, <2>2 DEF Labels, Keys, RowsWith, With
  <2>4. curve[k] = Point(is, GroupThreads)
    BY CurveOf
  <2>5. RowsWith(k[1]) \in SUBSET DOMAIN samples /\ IsStat(stats[k[1]], RowsWith(k[1]))
    BY <1>1, <2>3, SamplesAre
  <2> HIDE DEF is, stats, curve
  <2>6. Lies(Point(is, GroupThreads), stats[k[1]])
    BY <2>3, <2>5, PointLies
  <2> QED
    BY <1>1, <2>3, <2>4, <2>6
<1>4. ASSUME NEW b \in DOMAIN metric PROVE Lies(metric[b], TotalStat)
  <2> DEFINE is == With(MetricRows, WindowOf, b)
  <2>1. b \in Keys(MetricRows, WindowOf) /\ metric[b] = Point(is, AllThreads)
    BY CurvesAre
  <2>2. is # {} /\ is \subseteq TransactionRows
    BY <2>1, RowsDivide DEF Keys, With
  <2>3. TransactionRows \in SUBSET DOMAIN samples
    BY SamplesAre
  <2> HIDE DEF is, metric
  <2>4. Lies(Point(is, AllThreads), TotalStat)
    BY <1>1, <2>2, <2>3, PointLies
  <2> QED
    BY <2>1, <2>4
<1> QED
  BY <1>2, <1>3, <1>4, Zenon DEF CurvesFitTable, Lies

LEMMA CurvesInLoad == MathTypeOK => ThreadsAsRun
<1> SUFFICES ASSUME MathTypeOK, meta.total > 0
             PROVE  /\ \A b \in DOMAIN MetricCurve : MetricCurve[b].threads <= meta.total
                    /\ \A k \in DOMAIN TransactionCurve :
                         TransactionCurve[k].threads <= meta.total
  BY DEF ThreadsAsRun
<1>1. \A i \in DOMAIN samples : AllThreads[i] \in Nat /\ GroupThreads[i] \in Nat
  BY SamplesAre DEF AllThreads, GroupThreads
<1>2. ASSUME NEW b \in DOMAIN MetricCurve PROVE MetricCurve[b].threads <= meta.total
  <2> DEFINE is == With(MetricRows, WindowOf, b)
  <2>1. MetricCurve[b] = Point(is, AllThreads)
    BY CurvesAre
  <2>2. is \in SUBSET DOMAIN samples
    BY SamplesAre, RowsDivide DEF With
  <2> HIDE DEF is
  <2>3. ActiveThreads(is, AllThreads) <= meta.total
    BY <1>1, <2>2, ThreadsBounded
  <2> QED
    BY <2>1, <2>3, PointIs
<1>3. ASSUME NEW k \in DOMAIN TransactionCurve PROVE TransactionCurve[k].threads <= meta.total
  <2> DEFINE is == With(TransactionRows, PointOf, k)
  <2>1. TransactionCurve[k] = Point(is, GroupThreads)
    BY CurveOf
  <2>2. is \in SUBSET DOMAIN samples
    BY SamplesAre DEF With
  <2> HIDE DEF is
  <2>3. ActiveThreads(is, GroupThreads) <= meta.total
    BY <1>1, <2>2, ThreadsBounded
  <2> QED
    BY <2>1, <2>3, PointIs
<1> QED
  BY <1>2, <1>3

LEMMA MathTypes == MathTypeOK /\ [WriteRow]_mathVars => MathTypeOK'
<1> SUFFICES ASSUME MathTypeOK, [WriteRow]_mathVars PROVE MathTypeOK'
  OBVIOUS
<1>1. CASE UNCHANGED mathVars
  BY <1>1 DEF mathVars, MathTypeOK
<1>2. CASE WriteRow
  <2>1. PICK s \in Sample : samples' = Append(samples, s)
    BY <1>2 DEF WriteRow
  <2>2. samples \in Seq(Sample) /\ Len(samples) \in Nat
    BY DEF MathTypeOK
  <2>3. samples' \in Seq(Sample) /\ Len(samples') = Len(samples) + 1
    BY <2>1, <2>2
  <2>4. Len(samples) < MaxSample /\ meta' = meta /\ MaxSample \in Nat
    BY <1>2, ReportMathAssumption DEF WriteRow
  <2> QED
    BY <2>2, <2>3, <2>4 DEF MathTypeOK
<1> QED
  BY <1>1, <1>2

LEMMA MathInitTypes == MathInit => MathTypeOK
BY ReportMathAssumption DEF MathInit, MathTypeOK

\* For any rows, labels, windows and loads, the table adds up, the two curves
\* differ by the damaged rows alone, a transaction's curve adds up to its row of
\* the table, and no point lies outside the times or the threads of the run.
THEOREM ReportFiguresAgree == MathSpec => []FiguresAgree
<1>1. MathTypeOK => FiguresAgree
  BY TableAddsUp, CurvesAddUp, CurvesInTable, CurvesInLoad DEF FiguresAgree
<1> QED
  BY <1>1, MathInitTypes, MathTypes, PTL DEF MathSpec

-----------------------------------------------------------------------------
(* All parts together *)

ContentInv ==
    part \in Parts /\ ReportInv /\ DocInv /\ DataInv /\ MathTypeOK /\ ErrorInv /\ LoadInv

LEMMA ContentTypes == ContentInv => TypeOK
<1> SUFFICES ASSUME ContentInv PROVE TypeOK
  OBVIOUS
<1>1. ReportTypeOK
  BY DEF ContentInv, ReportInv
<1>2. DocTypeOK
  BY DocTypes DEF ContentInv
<1>3. DataTypeOK
  BY DEF ContentInv, DataInv
<1>4. ErrorTypeOK
  BY DEF ContentInv, ErrorInv
<1>5. LoadTypeOK
  BY LoadTyped DEF ContentInv
<1> QED
  BY <1>1, <1>2, <1>3, <1>4, <1>5 DEF ContentInv, TypeOK

LEMMA ContentInitInv == Init => ContentInv
<1> SUFFICES ASSUME Init PROVE ContentInv
  OBVIOUS
<1>1. MathTypeOK
  BY MathInitTypes DEF Init
<1> QED
  BY <1>1, ReportInitInv, DocInitInv, DataInitInv, ErrorInitInv, LoadInitInv
  DEF Init, ContentInv

\* Each part keeps its own invariant, whether it moves or another does.
LEMMA ContentStep == ContentInv /\ [Next]_vars => ContentInv'
<1> SUFFICES ASSUME ContentInv, [Next]_vars PROVE ContentInv'
  OBVIOUS
<1>1. /\ part \in Parts /\ ReportInv /\ DocInv /\ DataInv /\ MathTypeOK
      /\ ErrorInv /\ LoadInv
  BY DEF ContentInv
<1>2. /\ part' = part
      /\ [ReportNext]_reportVars /\ [DocNext]_docVars /\ [DataNext]_dataVars
      /\ [WriteRow]_mathVars /\ [ErrorNext]_errorVars /\ [PrepareLoad]_loadVars
  <2>1. CASE UNCHANGED vars
    BY <2>1 DEF vars
  <2>2. CASE Next
    BY <2>2 DEF Next
  <2> QED
    BY <2>1, <2>2
<1>3. ReportInv' /\ DocInv'
  BY <1>1, <1>2, ReportStep, DocStep
<1>4. DataInv' /\ MathTypeOK'
  BY <1>1, <1>2, DataStep, MathTypes
<1>5. ErrorInv' /\ LoadInv'
  BY <1>1, <1>2, ErrorStep, LoadStep
<1> QED
  BY <1>1, <1>2, <1>3, <1>4, <1>5 DEF ContentInv, Parts

\* Whatever part of a run or a report is at work, every variable keeps its type:
\* the tables, the files, the tasks' program counters and what the calls bring.
THEOREM ContentTyped == FairSpec => []TypeOK
BY ContentTypes, ContentInitInv, ContentStep, PTL DEF FairSpec
=============================================================================
