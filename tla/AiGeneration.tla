---------------------------- MODULE AiGeneration ----------------------------
(***************************************************************************)
(* AI generation tasks (services/ai_generation.py): a request creates the  *)
(* row and stores its input, a background coroutine runs the Codex CLI,    *)
(* checks what it wrote and stores one artifact row per file, and a task   *)
(* may be deleted at any time.  Every row is committed on its own, so the  *)
(* three kinds of coroutine interleave at each commit.                     *)
(***************************************************************************)
EXTENDS Naturals, FiniteSets

CONSTANTS
    Job,            \* ids of generation tasks
    Output,         \* names of the files Codex may write
    MaxAiRestart    \* bound on restarts of the process

ASSUME AiAssumption == MaxAiRestart \in Nat

VARIABLES
    job,        \* rows of the task table: status, and what was asked for
    artifact,   \* artifact rows, by task: the files they name
    disk,       \* the output files in each task's work directory
    generator,  \* the request, then the background coroutine, of each task
    deletion,   \* the request that deletes a task
    aiRestarts

aiVars == <<job, artifact, disk, generator, deletion, aiRestarts>>

\* "created" is pending without paths, "pending" has them; a row that was
\* deleted is never used again.
JobStatus == {"none", "created", "pending", "running", "success", "failed", "gone"}
Ended == {"success", "failed", "gone"}

\* Split output takes whatever files there are, the others know their names.
Mode == {"named", "split"}

GeneratorPC ==
    {"none", "upload", "save", "queued", "codex", "check", "store", "failing"}
DeletionPC == {"none", "artifacts", "row", "done"}

AiTypeOK ==
    /\ job \in [Job -> [status: JobStatus, mode: Mode, wanted: SUBSET Output]]
    /\ artifact \in [Job -> SUBSET Output]
    /\ disk \in [Job -> SUBSET Output]
    /\ generator \in [Job -> [pc: GeneratorPC, specs: SUBSET Output]]
    /\ deletion \in [Job -> DeletionPC]
    /\ aiRestarts \in 0..MaxAiRestart

NoGenerator == [pc |-> "none", specs |-> {}]

AiInit ==
    /\ job = [j \in Job |-> [status |-> "none", mode |-> "named", wanted |-> {}]]
    /\ artifact = [j \in Job |-> {}]
    /\ disk = [j \in Job |-> {}]
    /\ generator = [j \in Job |-> NoGenerator]
    /\ deletion = [j \in Job |-> "none"]
    /\ aiRestarts = 0

HasRow(j) == job[j].status \notin {"none", "gone"}
SetStatus(j, status) == job' = [job EXCEPT ![j] = [@ EXCEPT !.status = status]]
Goto(j, pc) == generator' = [generator EXCEPT ![j] = [@ EXCEPT !.pc = pc]]
Finish(j) == generator' = [generator EXCEPT ![j] = NoGenerator]

-----------------------------------------------------------------------------
(* create_task: the request *)

\* The row is committed before the input file is read and stored.
CreateTask(j, mode, wanted) ==
    /\ job[j].status = "none"
    /\ mode = "split" \/ wanted # {}
    /\ job' = [job EXCEPT ![j] = [status |-> "created", mode |-> mode, wanted |-> wanted]]
    /\ Goto(j, "upload")
    /\ UNCHANGED <<artifact, disk, deletion, aiRestarts>>

\* The upload is stored in the work directory, or the request fails there and
\* nobody will run the task.
StoreInput(j) ==
    /\ generator[j].pc = "upload"
    /\ Goto(j, "save") \/ Finish(j)
    /\ UNCHANGED <<job, artifact, disk, deletion, aiRestarts>>

\* The paths are committed and the background coroutine is queued; a row that
\* is gone by now raises StaleDataError and nothing is queued.
SavePaths(j) ==
    /\ generator[j].pc = "save"
    /\ IF HasRow(j)
       THEN SetStatus(j, "pending") /\ Goto(j, "queued")
       ELSE Finish(j) /\ UNCHANGED job
    /\ UNCHANGED <<artifact, disk, deletion, aiRestarts>>

-----------------------------------------------------------------------------
(* run_generation_task: the background coroutine *)

BeginGeneration(j) ==
    /\ generator[j].pc = "queued"
    /\ IF HasRow(j)
       THEN SetStatus(j, "running") /\ Goto(j, "codex")
       ELSE Finish(j) /\ UNCHANGED job
    /\ UNCHANGED <<artifact, disk, deletion, aiRestarts>>

\* The CLI writes some files; it may also fail, or be killed at its timeout.
InvokeCodexCli(j) ==
    /\ generator[j].pc = "codex"
    /\ \E files \in SUBSET Output : disk' = [disk EXCEPT ![j] = @ \cup files]
    /\ Goto(j, "check") \/ Goto(j, "failing")
    /\ UNCHANGED <<job, artifact, deletion, aiRestarts>>

\* The list of artifacts to store.  Split output lists the files there are and
\* refuses an empty list; a file that is no JMX document fails the task.
ArtifactSpecs(j) ==
    IF job[j].mode = "split" THEN disk[j] ELSE job[j].wanted

ValidateOutput(j) ==
    /\ generator[j].pc = "check"
    /\ \/ /\ ArtifactSpecs(j) # {}
          /\ generator' = [generator EXCEPT ![j] = [pc |-> "store", specs |-> ArtifactSpecs(j)]]
       \/ Goto(j, "failing")
    /\ UNCHANGED <<job, artifact, disk, deletion, aiRestarts>>

\* Fault: a missing file is skipped.
AddArtifactIfThere(j) ==
    /\ generator[j].pc = "store"
    /\ \E f \in generator[j].specs :
        /\ artifact' = [artifact EXCEPT ![j] = IF f \in disk[j] THEN @ \cup {f} ELSE @]
        /\ generator' = [generator EXCEPT ![j] = [pc |-> "store", specs |-> @.specs \ {f}]]
    /\ UNCHANGED <<job, disk, deletion, aiRestarts>>

\* One artifact per commit; a file that is missing or empty fails the task and
\* the rows stored so far stay.
AddArtifact(j) ==
    /\ generator[j].pc = "store"
    /\ \E f \in generator[j].specs :
        IF f \in disk[j]
        THEN /\ artifact' = [artifact EXCEPT ![j] = @ \cup {f}]
             /\ generator' = [generator EXCEPT ![j] = [pc |-> "store", specs |-> @.specs \ {f}]]
        ELSE Goto(j, "failing") /\ UNCHANGED artifact
    /\ UNCHANGED <<job, disk, deletion, aiRestarts>>

\* All are stored: success, unless the row is gone and the update fails.
GenerationSucceeds(j) ==
    /\ generator[j].pc = "store"
    /\ generator[j].specs = {}
    /\ IF HasRow(j)
       THEN SetStatus(j, "success") /\ Finish(j)
       ELSE Goto(j, "failing") /\ UNCHANGED job
    /\ UNCHANGED <<artifact, disk, deletion, aiRestarts>>

\* Fault: the row is looked for until it can be marked, even if it was deleted.
GenerationFailsOnRow(j) ==
    /\ generator[j].pc = "failing"
    /\ HasRow(j)
    /\ SetStatus(j, "failed")
    /\ Finish(j)
    /\ UNCHANGED <<artifact, disk, deletion, aiRestarts>>

\* The except clause: the row is read again, and marked failed if there is one.
GenerationFails(j) ==
    /\ generator[j].pc = "failing"
    /\ IF HasRow(j) THEN SetStatus(j, "failed") ELSE UNCHANGED job
    /\ Finish(j)
    /\ UNCHANGED <<artifact, disk, deletion, aiRestarts>>

-----------------------------------------------------------------------------
(* delete_task: the directory, then the artifact rows, then the row.  The   *)
(* directory is only removed once the row has its path.                     *)

DeleteWorkDir(j) ==
    /\ HasRow(j)
    /\ deletion[j] \in {"none", "done"}
    /\ deletion' = [deletion EXCEPT ![j] = "artifacts"]
    /\ disk' = [disk EXCEPT ![j] = IF job[j].status = "created" THEN @ ELSE {}]
    /\ UNCHANGED <<job, artifact, generator, aiRestarts>>

DeleteArtifacts(j) ==
    /\ deletion[j] = "artifacts"
    /\ deletion' = [deletion EXCEPT ![j] = "row"]
    /\ artifact' = [artifact EXCEPT ![j] = {}]
    /\ UNCHANGED <<job, disk, generator, aiRestarts>>

DeleteJob(j) ==
    /\ deletion[j] = "row"
    /\ deletion' = [deletion EXCEPT ![j] = "done"]
    /\ SetStatus(j, "gone")
    /\ UNCHANGED <<artifact, disk, generator, aiRestarts>>

\* A restart ends every coroutine; nothing looks at the rows afterwards.
AiRestart ==
    /\ aiRestarts < MaxAiRestart
    /\ aiRestarts' = aiRestarts + 1
    /\ generator' = [j \in Job |-> NoGenerator]
    /\ deletion' = [j \in Job |-> IF deletion[j] = "none" THEN "none" ELSE "done"]
    /\ UNCHANGED <<job, artifact, disk>>

GeneratorStep(j) ==
    \/ StoreInput(j)
    \/ SavePaths(j)
    \/ BeginGeneration(j)
    \/ InvokeCodexCli(j)
    \/ ValidateOutput(j)
    \/ AddArtifact(j)
    \/ GenerationSucceeds(j)
    \/ GenerationFails(j)

AiNext ==
    \/ \E j \in Job :
        \/ \E mode \in Mode, wanted \in SUBSET Output : CreateTask(j, mode, wanted)
        \/ GeneratorStep(j)
        \/ DeleteWorkDir(j)
        \/ DeleteArtifacts(j)
        \/ DeleteJob(j)
    \/ AiRestart

AiSpec == AiInit /\ [][AiNext]_aiVars

-----------------------------------------------------------------------------
(* Properties *)

\* A task that succeeded shows every file it was asked for, and at least one,
\* as long as nobody began to delete it.
SuccessIsComplete ==
    \A j \in Job :
        job[j].status = "success" /\ deletion[j] = "none" =>
            /\ artifact[j] # {}
            /\ job[j].mode = "named" => artifact[j] = job[j].wanted

\* The CLI's timeout bounds every generation: on every error path, and when the
\* task is deleted meanwhile, the coroutine ends and leaves no status behind,
\* unless a restart cuts it.
GenerationEnds ==
    \A j \in Job :
        generator[j].pc = "queued" ~>
            \/ generator[j].pc = "none" /\ job[j].status \in Ended
            \/ aiRestarts > 0
=============================================================================
