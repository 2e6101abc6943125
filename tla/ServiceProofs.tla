--------------------------- MODULE ServiceProofs ---------------------------
(***************************************************************************)
(* The services around the runs, for any tasks, users, databases and       *)
(* interleavings of calls, loops and restarts: scheduled tasks fire once   *)
(* and stay armed, a successful generation is complete, a changed password *)
(* ends the sessions that were opened with the old one, an upgrade ends    *)
(* with a complete database, and a schedule's next instant is the first it *)
(* asks for.                                                               *)
(***************************************************************************)
EXTENDS MCServices, WellFoundedInduction, TLAPS

-----------------------------------------------------------------------------
(* AI generation: what is marked successful is complete. *)

\* What has a part of the artifacts ahead of it: nothing is stored before the
\* coroutine stores, and a success has no coroutine any more.
Early == {"upload", "save", "queued", "codex", "check"}

\* What is stored and what is still to be stored are what was asked for.
StoreInv(j) ==
    /\ job[j].status = "none" => generator[j].pc = "none" /\ artifact[j] = {}
    /\ deletion[j] # "none" => job[j].status # "none"
    /\ generator[j].pc # "none" => job[j].status # "success"
    /\ generator[j].pc \in Early => artifact[j] = {}
    /\ job[j].mode = "named" /\ job[j].status # "none" => job[j].wanted # {}
    /\ generator[j].pc = "store" /\ deletion[j] = "none" =>
        /\ artifact[j] \cup generator[j].specs # {}
        /\ job[j].mode = "named" =>
            artifact[j] \cup generator[j].specs = job[j].wanted
    /\ job[j].status = "success" /\ deletion[j] = "none" =>
        /\ artifact[j] # {}
        /\ job[j].mode = "named" => artifact[j] = job[j].wanted

AiInv == AiTypeOK /\ \A j \in Job : StoreInv(j)

LEMMA AiInitInv == AiInit => AiInv
BY AiAssumption DEF AiInit, AiInv, AiTypeOK, StoreInv, NoGenerator, JobStatus, Mode,
   GeneratorPC, DeletionPC, Early

\* What a step writes to its row and to its coroutine has the type of it.
LEMMA WritesTyped ==
    ASSUME AiTypeOK, NEW j \in Job
    PROVE  /\ \A s \in JobStatus : SetStatus(j, s) =>
                job' \in [Job -> [status: JobStatus, mode: Mode, wanted: SUBSET Output]]
           /\ \A pc \in GeneratorPC : Goto(j, pc) =>
                generator' \in [Job -> [pc: GeneratorPC, specs: SUBSET Output]]
           /\ Finish(j) => generator' \in [Job -> [pc: GeneratorPC, specs: SUBSET Output]]
<1>1. \A s \in JobStatus : [job[j] EXCEPT !.status = s]
            \in [status: JobStatus, mode: Mode, wanted: SUBSET Output]
    BY DEF AiTypeOK
<1>2. \A pc \in GeneratorPC : [generator[j] EXCEPT !.pc = pc]
            \in [pc: GeneratorPC, specs: SUBSET Output]
    BY DEF AiTypeOK
<1>3. NoGenerator \in [pc: GeneratorPC, specs: SUBSET Output]
    BY DEF NoGenerator, GeneratorPC
<1> QED
    BY <1>1, <1>2, <1>3, ZenonT(40) DEF AiTypeOK, SetStatus, Goto, Finish

\* Types are kept by every step.
LEMMA AiTypeStep == AiTypeOK /\ [AiNext]_aiVars => AiTypeOK'
<1> SUFFICES ASSUME AiTypeOK, [AiNext]_aiVars PROVE AiTypeOK'
    OBVIOUS
<1>s. {"pending", "running", "success", "failed", "gone"} \subseteq JobStatus
    BY DEF JobStatus
<1>g. {"upload", "save", "queued", "codex", "check", "store", "failing"} \subseteq GeneratorPC
    BY DEF GeneratorPC
<1>1. ASSUME NEW j \in Job, NEW mode \in Mode, NEW wanted \in SUBSET Output,
             CreateTask(j, mode, wanted)
      PROVE  AiTypeOK'
  <2>1. [status |-> "created", mode |-> mode, wanted |-> wanted]
            \in [status: JobStatus, mode: Mode, wanted: SUBSET Output]
    BY DEF JobStatus
  <2> QED
    BY <1>1, <2>1, <1>g, WritesTyped DEF CreateTask, AiTypeOK
<1>2. ASSUME NEW j \in Job, GeneratorStep(j) PROVE AiTypeOK'
  <2>1. CASE StoreInput(j)
    BY <2>1, <1>g, WritesTyped DEF StoreInput, AiTypeOK
  <2>2. CASE SavePaths(j)
    BY <2>2, <1>s, <1>g, WritesTyped DEF SavePaths, AiTypeOK
  <2>3. CASE BeginGeneration(j)
    BY <2>3, <1>s, <1>g, WritesTyped DEF BeginGeneration, AiTypeOK
  <2>4. CASE InvokeCodexCli(j)
    <3>1. generator' \in [Job -> [pc: GeneratorPC, specs: SUBSET Output]]
      BY <2>4, <1>g, WritesTyped DEF InvokeCodexCli
    <3> QED
      BY <2>4, <3>1 DEF InvokeCodexCli, AiTypeOK
  <2>5. CASE ValidateOutput(j)
    <3>1. ArtifactSpecs(j) \in SUBSET Output
      BY DEF ArtifactSpecs, AiTypeOK
    <3>2. [pc |-> "store", specs |-> ArtifactSpecs(j)] \in [pc: GeneratorPC, specs: SUBSET Output]
      BY <3>1, <1>g
    <3>3. generator' \in [Job -> [pc: GeneratorPC, specs: SUBSET Output]]
      BY <2>5, <3>2, <1>g, WritesTyped DEF ValidateOutput, AiTypeOK
    <3> QED
      BY <2>5, <3>3 DEF ValidateOutput, AiTypeOK
  <2>6. CASE AddArtifact(j)
    <3>1. PICK f \in generator[j].specs :
            IF f \in disk[j]
            THEN /\ artifact' = [artifact EXCEPT ![j] = @ \cup {f}]
                 /\ generator' = [generator EXCEPT ![j] = [pc |-> "store", specs |-> @.specs \ {f}]]
            ELSE Goto(j, "failing") /\ UNCHANGED artifact
      BY <2>6 DEF AddArtifact
    <3>2. [pc |-> "store", specs |-> generator[j].specs \ {f}] \in [pc: GeneratorPC, specs: SUBSET Output]
      BY <1>g DEF AiTypeOK
    <3>3. f \in Output
      BY DEF AiTypeOK
    <3>4. generator' \in [Job -> [pc: GeneratorPC, specs: SUBSET Output]]
      <4>1. CASE f \in disk[j]
        BY <3>1, <3>2, <4>1 DEF AiTypeOK
      <4>2. CASE f \notin disk[j]
        BY <3>1, <1>g, <4>2, WritesTyped
      <4> QED
        BY <4>1, <4>2
    <3>5. artifact' \in [Job -> SUBSET Output]
      BY <3>1, <3>3 DEF AiTypeOK
    <3> QED
      BY <2>6, <3>4, <3>5 DEF AddArtifact, AiTypeOK
  <2>7. CASE GenerationSucceeds(j)
    BY <2>7, <1>s, <1>g, WritesTyped DEF GenerationSucceeds, AiTypeOK
  <2>8. CASE GenerationFails(j)
    BY <2>8, <1>s, WritesTyped DEF GenerationFails, AiTypeOK
  <2> QED
    BY <1>2, <2>1, <2>2, <2>3, <2>4, <2>5, <2>6, <2>7, <2>8 DEF GeneratorStep
<1>3. ASSUME NEW j \in Job, DeleteWorkDir(j) \/ DeleteArtifacts(j) \/ DeleteJob(j)
      PROVE  AiTypeOK'
  <2>1. CASE DeleteWorkDir(j)
    BY <2>1 DEF DeleteWorkDir, AiTypeOK, DeletionPC
  <2>2. CASE DeleteArtifacts(j)
    BY <2>2 DEF DeleteArtifacts, AiTypeOK, DeletionPC
  <2>3. CASE DeleteJob(j)
    BY <2>3, <1>s, WritesTyped DEF DeleteJob, AiTypeOK, DeletionPC
  <2> QED
    BY <1>3, <2>1, <2>2, <2>3
<1>4. CASE AiRestart
    BY <1>4, AiAssumption DEF AiRestart, NoGenerator, AiTypeOK, GeneratorPC, DeletionPC
<1>5. CASE UNCHANGED aiVars
    BY <1>5 DEF aiVars, AiTypeOK
<1> QED
    BY <1>1, <1>2, <1>3, <1>4, <1>5 DEF AiNext

\* A step of one task leaves what StoreInv says of the others.
LEMMA OthersKept ==
    ASSUME NEW i \in Job, StoreInv(i),
           job'[i] = job[i], artifact'[i] = artifact[i],
           generator'[i] = generator[i], deletion'[i] = deletion[i]
    PROVE  StoreInv(i)'
BY DEF StoreInv

\* The coroutine stores what was asked for, nothing else, and all of it.
LEMMA GeneratorKeeps ==
    ASSUME AiInv, NEW j \in Job, GeneratorStep(j)
    PROVE  \A i \in Job : StoreInv(i)'
<1> USE DEF AiInv, AiTypeOK
<1>1. StoreInv(j)'
  <2> USE DEF StoreInv, Early
  <2>1. CASE StoreInput(j)
    BY <2>1 DEF StoreInput, Goto, Finish, NoGenerator
  <2>2. CASE SavePaths(j)
    BY <2>2 DEF SavePaths, Goto, Finish, NoGenerator, SetStatus, HasRow
  <2>3. CASE BeginGeneration(j)
    BY <2>3, SMTT(30)
    DEF BeginGeneration, Goto, Finish, NoGenerator, SetStatus, HasRow
  <2>4. CASE InvokeCodexCli(j)
    BY <2>4 DEF InvokeCodexCli, Goto
  <2>5. CASE ValidateOutput(j)
    BY <2>5 DEF ValidateOutput, ArtifactSpecs, Goto
  <2>6. CASE AddArtifact(j)
    <3>1. PICK f \in generator[j].specs :
            IF f \in disk[j]
            THEN /\ artifact' = [artifact EXCEPT ![j] = @ \cup {f}]
                 /\ generator' = [generator EXCEPT ![j] = [pc |-> "store", specs |-> @.specs \ {f}]]
            ELSE Goto(j, "failing") /\ UNCHANGED artifact
      BY <2>6 DEF AddArtifact
    <3>2. CASE f \in disk[j]
      <4>0. /\ artifact'[j] = artifact[j] \cup {f}
            /\ generator'[j] = [pc |-> "store", specs |-> generator[j].specs \ {f}]
        BY <3>1, <3>2
      <4>1. /\ generator'[j].pc = "store"
            /\ artifact'[j] \cup generator'[j].specs = artifact[j] \cup generator[j].specs
        BY <2>6, <4>0 DEF AddArtifact
      <4> QED
        BY <2>6, <4>1 DEF AddArtifact
    <3>3. CASE f \notin disk[j]
      BY <2>6, <3>1, <3>3 DEF AddArtifact, Goto
    <3> QED
      BY <3>2, <3>3
  <2>7. CASE GenerationSucceeds(j)
    <3>1. CASE HasRow(j)
      <4>1. /\ job'[j] = [job[j] EXCEPT !.status = "success"]
            /\ generator'[j] = NoGenerator
        BY <2>7, <3>1 DEF GenerationSucceeds, SetStatus, Finish
      <4>2. artifact[j] \cup generator[j].specs = artifact[j]
        BY <2>7 DEF GenerationSucceeds
      <4>3. /\ job'[j].status = "success" /\ generator'[j].pc = "none"
            /\ job'[j].mode = job[j].mode /\ job'[j].wanted = job[j].wanted
        BY <4>1 DEF NoGenerator
      <4> QED
        BY <2>7, <3>1, <4>2, <4>3 DEF GenerationSucceeds, HasRow
    <3>2. CASE ~HasRow(j)
      BY <2>7, <3>2 DEF GenerationSucceeds, Goto, HasRow
    <3> QED
      BY <3>1, <3>2
  <2>8. CASE GenerationFails(j)
    <3>1. generator'[j] = NoGenerator
      BY <2>8 DEF GenerationFails, Finish
    <3>2. CASE HasRow(j)
      <4>1. job'[j] = [job[j] EXCEPT !.status = "failed"]
        BY <2>8, <3>2 DEF GenerationFails, SetStatus
      <4> QED
        BY <2>8, <3>1, <3>2, <4>1 DEF GenerationFails, HasRow, NoGenerator
    <3>3. CASE ~HasRow(j)
      BY <2>8, <3>1, <3>3 DEF GenerationFails, HasRow, NoGenerator
    <3> QED
      BY <3>2, <3>3
  <2> QED
    BY <2>1, <2>2, <2>3, <2>4, <2>5, <2>6, <2>7, <2>8 DEF GeneratorStep
<1>2. ASSUME NEW i \in Job \ {j} PROVE StoreInv(i)'
  <2>1. job'[i] = job[i] /\ artifact'[i] = artifact[i]
        /\ generator'[i] = generator[i] /\ deletion'[i] = deletion[i]
    BY DEF GeneratorStep, StoreInput, SavePaths, BeginGeneration, InvokeCodexCli,
       ValidateOutput, AddArtifact, GenerationSucceeds, GenerationFails, Goto, Finish, SetStatus
  <2> QED
    BY <2>1, OthersKept
<1> QED
    BY <1>1, <1>2

\* Requests and deletions: a new task has stored nothing, and a task somebody
\* began to delete is not spoken of.
LEMMA RequestsKeep ==
    ASSUME AiInv, NEW j \in Job,
           \/ \E mode \in Mode, wanted \in SUBSET Output : CreateTask(j, mode, wanted)
           \/ DeleteWorkDir(j) \/ DeleteArtifacts(j) \/ DeleteJob(j)
    PROVE  \A i \in Job : StoreInv(i)'
<1> USE DEF AiInv, AiTypeOK
<1>1. StoreInv(j)'
  <2> USE DEF StoreInv, Early
  <2>1. ASSUME NEW mode \in Mode, NEW wanted \in SUBSET Output, CreateTask(j, mode, wanted)
        PROVE  StoreInv(j)'
    BY <2>1 DEF CreateTask, Goto, Mode
  <2>2. CASE DeleteWorkDir(j)
    BY <2>2 DEF DeleteWorkDir, HasRow
  <2>3. CASE DeleteArtifacts(j)
    BY <2>3 DEF DeleteArtifacts
  <2>4. CASE DeleteJob(j)
    BY <2>4 DEF DeleteJob, SetStatus
  <2> QED
    BY <2>1, <2>2, <2>3, <2>4
<1>2. ASSUME NEW i \in Job \ {j} PROVE StoreInv(i)'
  <2>1. job'[i] = job[i] /\ artifact'[i] = artifact[i]
        /\ generator'[i] = generator[i] /\ deletion'[i] = deletion[i]
    BY DEF CreateTask, DeleteWorkDir, DeleteArtifacts, DeleteJob, Goto, SetStatus
  <2> QED
    BY <2>1, OthersKept
<1> QED
    BY <1>1, <1>2

LEMMA AiStep == AiInv /\ [AiNext]_aiVars => AiInv'
<1> SUFFICES ASSUME AiInv, [AiNext]_aiVars PROVE \A i \in Job : StoreInv(i)'
    BY AiTypeStep DEF AiInv
<1>1. CASE AiRestart
    BY <1>1 DEF AiRestart, AiInv, AiTypeOK, StoreInv, NoGenerator, Early
<1>2. CASE UNCHANGED aiVars
    BY <1>2 DEF aiVars, AiInv, StoreInv
<1> QED
    BY <1>1, <1>2, GeneratorKeeps, RequestsKeep DEF AiNext

\* A successful task shows every file it was asked for, as long as nobody began
\* to delete it (run_generation_task, ai_generation.py 374-476).
THEOREM SuccessComplete == AiSpec => []SuccessIsComplete
<1>1. AiInv => SuccessIsComplete
    BY DEF AiInv, StoreInv, SuccessIsComplete
<1> QED
    BY <1>1, AiInitInv, AiStep, PTL DEF AiSpec

-----------------------------------------------------------------------------
(* Accounts: a session does not outlive the password it was opened with,    *)
(* unless its login was under way while the password changed.              *)

\* A call about a user read the row of one, and an update of it leaves the
\* password as it read it.
CallInv(c) ==
    /\ client[c].op \in {"update_user", "delete_user", "login", "update_password"} =>
        client[c].id \in User /\ users[client[c].id] # NoUser
    /\ client[c].op = "update_user" => client[c].new.password = client[c].old.password

\* A session is of a user whose row was added, and rows are never added twice.
SessionInv ==
    \A s \in sessions :
        /\ users[s.user] # NoUser
        /\ Authenticates(s) => s.password = users[s.user].password \/ s.late

AccountsInv ==
    /\ AccountsTypeOK
    /\ \A c \in Client : CallInv(c)
    /\ SessionInv

\* The marks of an unused and of a deleted row are no rows.
LEMMA MarksAreNoRows == NoUser \notin UserRow /\ GoneUser \notin UserRow
                        /\ NoRole \notin RoleRow /\ GoneRole \notin RoleRow
BY AccountsAssumption DEF AccountsAssumption, NoUser, GoneUser, NoRole, GoneRole, UserRow, RoleRow

LEMMA UsersAreRows == AccountsTypeOK => \A u \in Users : users[u] \in UserRow
BY DEF AccountsTypeOK, Users

LEMMA RolesAreRows == AccountsTypeOK => \A r \in Roles : roles[r] \in RoleRow
BY DEF AccountsTypeOK, Roles

\* Merging keeps the type, and every column the call did not change.
LEMMA MergeUser ==
    ASSUME NEW row \in UserRow, NEW old \in UserRow \cup {NoUser}, NEW new \in UserRow
    PROVE  /\ Merge(row, old, new) \in UserRow
           /\ new.password = old.password => Merge(row, old, new).password = row.password
<1>1. DOMAIN new = {"name", "role", "password"}
    BY DEF UserRow
<1>2. Merge(row, old, new) =
        [name |-> IF new.name = old.name THEN row.name ELSE new.name,
         role |-> IF new.role = old.role THEN row.role ELSE new.role,
         password |-> IF new.password = old.password THEN row.password ELSE new.password]
    BY <1>1 DEF Merge
<1> QED
    BY <1>2 DEF UserRow

LEMMA MergeRole ==
    ASSUME NEW row \in RoleRow, NEW old \in RoleRow \cup {NoRole}, NEW new \in RoleRow
    PROVE  Merge(row, old, new) \in RoleRow
<1>1. DOMAIN new = {"code", "builtin", "perms"}
    BY DEF RoleRow
<1>2. Merge(row, old, new) =
        [code |-> IF new.code = old.code THEN row.code ELSE new.code,
         builtin |-> IF new.builtin = old.builtin THEN row.builtin ELSE new.builtin,
         perms |-> IF new.perms = old.perms THEN row.perms ELSE new.perms]
    BY <1>1 DEF Merge
<1> QED
    BY <1>2 DEF RoleRow

\* What kind of call a client's operation makes it.
LEMMA CallKind ==
    ASSUME AccountsTypeOK, NEW c \in Client
    PROVE  /\ client[c].op \in UserOps => client[c] \in UserCall
           /\ client[c].op \in RoleOps => client[c] \in RoleCall
BY DEF AccountsTypeOK, UserCall, RoleCall, UserOps, RoleOps, Resting

LEMMA AccountsInitInv == AccountsInit => AccountsInv
<1> SUFFICES ASSUME AccountsInit PROVE AccountsInv
    OBVIOUS
<1>1. users \in [User -> UserRow \cup {NoUser, GoneUser}]
    BY AccountsAssumption DEF AccountsAssumption, AccountsInit, UserRow
<1>2. roles \in [Role -> RoleRow \cup {NoRole, GoneRole}]
    BY AccountsAssumption DEF AccountsAssumption, AccountsInit, RoleRow
<1>3. /\ sessions = {}
      /\ client \in [Client -> {Resting}]
      /\ accountCalls \in 0..MaxAccountCall
    BY AccountsAssumption DEF AccountsAssumption, AccountsInit
<1>4. \A c \in Client : CallInv(c)
    BY <1>3 DEF CallInv, Resting
<1> QED
    BY <1>1, <1>2, <1>3, <1>4 DEF AccountsInv, AccountsTypeOK, SessionInv

-----------------------------------------------------------------------------
(* The calls that begin *)

\* A call that begins writes no row, so what is said of sessions stays, and
\* its own record must have its type and what CallInv says.
LEMMA CallBegins ==
    ASSUME AccountsInv, NEW c \in Client, NEW call \in UserCall \cup RoleCall,
           Checked(c, call),
           call.op \in {"update_user", "delete_user", "login", "update_password"} =>
                call.id \in User /\ users[call.id] # NoUser,
           call.op = "update_user" => call.new.password = call.old.password
    PROVE  AccountsInv'
<1>1. accountCalls' \in 0..MaxAccountCall
    BY AccountsAssumption DEF AccountsAssumption, Checked, AccountsInv, AccountsTypeOK
<1>2. AccountsTypeOK'
    BY <1>1 DEF Checked, AccountsInv, AccountsTypeOK
<1>3. ASSUME NEW d \in Client PROVE CallInv(d)'
  <2>1. CASE d = c
    BY <2>1 DEF Checked, AccountsInv, AccountsTypeOK, CallInv
  <2>2. CASE d # c
    BY <2>2 DEF Checked, AccountsInv, AccountsTypeOK, CallInv
  <2> QED
    BY <2>1, <2>2
<1>4. SessionInv'
    BY DEF Checked, AccountsInv, SessionInv, Authenticates, Users
<1> QED
    BY <1>2, <1>3, <1>4 DEF AccountsInv

LEMMA CheckUserKeeps ==
    ASSUME AccountsInv, NEW c \in Client, CheckUser(c)
    PROVE  AccountsInv'
<1> USE DEF UserCall, UserOps
<1>0. AccountsTypeOK /\ Roles \subseteq Role /\ 0 \in 0..MaxAccountCall
    BY AccountsAssumption DEF AccountsAssumption, AccountsInv, Roles
<1>1. ASSUME NEW n \in Name, NEW r \in Roles,
             Checked(c, [op |-> "add_user", id |-> NoId, old |-> NoUser,
                         new |-> [name |-> n, role |-> r, password |-> 0]])
      PROVE  AccountsInv'
  <2>1. [name |-> n, role |-> r, password |-> 0] \in UserRow
    BY <1>0 DEF UserRow
  <2> QED
    BY <1>1, <2>1, CallBegins
<1>2. ASSUME NEW u \in Users, NEW n \in Name, NEW r \in Roles \cup {users[u].role},
             Checked(c, [op |-> "update_user", id |-> u, old |-> users[u],
                         new |-> [users[u] EXCEPT !.name = n, !.role = r]])
      PROVE  AccountsInv'
  <2>1. users[u] \in UserRow /\ u \in User /\ users[u] # NoUser
    BY <1>0, UsersAreRows DEF Users
  <2>2. [users[u] EXCEPT !.name = n, !.role = r] \in UserRow
    BY <1>0, <2>1 DEF UserRow
  <2>3. [users[u] EXCEPT !.name = n, !.role = r].password = users[u].password
    BY <2>1 DEF UserRow
  <2> QED
    BY <1>2, <2>1, <2>2, <2>3, CallBegins
<1>3. ASSUME NEW u \in Users, NEW op \in {"delete_user", "login", "update_password"},
             Checked(c, [op |-> op, id |-> u, old |-> users[u], new |-> users[u]])
      PROVE  AccountsInv'
  <2>1. users[u] \in UserRow /\ u \in User /\ users[u] # NoUser
    BY <1>0, UsersAreRows DEF Users
  <2> QED
    BY <1>3, <2>1, CallBegins
<1> QED
    BY <1>1, <1>2, <1>3 DEF CheckUser

LEMMA CheckRoleKeeps ==
    ASSUME AccountsInv, NEW c \in Client, CheckRole(c)
    PROVE  AccountsInv'
<1> USE DEF RoleCall, RoleOps
<1>0. AccountsTypeOK
    BY DEF AccountsInv
<1>1. ASSUME NEW code \in Code, NEW perms \in SUBSET Perm,
             Checked(c, [op |-> "add_role", id |-> NoId, old |-> NoRole,
                         new |-> [code |-> code, builtin |-> FALSE, perms |-> perms]])
      PROVE  AccountsInv'
  <2>1. [code |-> code, builtin |-> FALSE, perms |-> perms] \in RoleRow
    BY DEF RoleRow
  <2> QED
    BY <1>1, <2>1, CallBegins
<1>2. ASSUME NEW r \in Roles, NEW code \in Code, NEW perms \in SUBSET Perm,
             Checked(c, [op |-> "update_role", id |-> r, old |-> roles[r],
                         new |-> [roles[r] EXCEPT !.code = code, !.perms = perms]])
      PROVE  AccountsInv'
  <2>1. roles[r] \in RoleRow /\ r \in Role
    BY <1>0, RolesAreRows DEF Roles
  <2>2. [roles[r] EXCEPT !.code = code, !.perms = perms] \in RoleRow
    BY <2>1 DEF RoleRow
  <2> QED
    BY <1>2, <2>1, <2>2, CallBegins
<1>3. ASSUME NEW r \in Roles,
             Checked(c, [op |-> "delete_role", id |-> r, old |-> roles[r], new |-> roles[r]])
      PROVE  AccountsInv'
  <2>1. roles[r] \in RoleRow /\ r \in Role
    BY <1>0, RolesAreRows DEF Roles
  <2> QED
    BY <1>3, <2>1, CallBegins
<1>4. ASSUME NEW r \in Roles, NEW perms \in SUBSET Perm,
             Checked(c, [op |-> "update_permissions", id |-> r, old |-> roles[r],
                         new |-> [roles[r] EXCEPT !.perms = perms]])
      PROVE  AccountsInv'
  <2>1. roles[r] \in RoleRow /\ r \in Role
    BY <1>0, RolesAreRows DEF Roles
  <2>2. [roles[r] EXCEPT !.perms = perms] \in RoleRow
    BY <2>1 DEF RoleRow
  <2> QED
    BY <1>4, <2>1, <2>2, CallBegins
<1> QED
    BY <1>1, <1>2, <1>3, <1>4 DEF CheckRole

-----------------------------------------------------------------------------
(* The commits *)

\* A commit that ends its call and leaves no row unused again keeps CallInv.
LEMMA CallsKept ==
    ASSUME AccountsInv, NEW c \in Client, Returned(c),
           \A u \in User : users[u] # NoUser => users'[u] # NoUser
    PROVE  /\ client' \in [Client -> UserCall \cup RoleCall \cup {Resting}]
           /\ accountCalls' \in 0..MaxAccountCall
           /\ \A d \in Client : CallInv(d)'
<1>1. client' \in [Client -> UserCall \cup RoleCall \cup {Resting}]
    BY DEF Returned, AccountsInv, AccountsTypeOK
<1>2. ASSUME NEW d \in Client PROVE CallInv(d)'
  <2>1. CASE d = c
    BY <2>1 DEF Returned, AccountsInv, AccountsTypeOK, CallInv, Resting
  <2>2. CASE d # c
    BY <2>2 DEF Returned, AccountsInv, AccountsTypeOK, CallInv
  <2> QED
    BY <2>1, <2>2
<1> QED
    BY <1>1, <1>2 DEF Returned, AccountsInv, AccountsTypeOK

LEMMA UserCommitsKeep ==
    ASSUME AccountsInv, NEW c \in Client,
           AddUser(c) \/ UpdateUser(c) \/ DeleteUser(c) \/ Login(c) \/ UpdatePassword(c)
    PROVE  AccountsInv'
<1> USE MarksAreNoRows
<1>0. AccountsTypeOK /\ SessionInv /\ CallInv(c)
    BY DEF AccountsInv
<1>1. CASE AddUser(c)
  <2>1. client[c].new \in UserRow
    BY <1>0, <1>1, CallKind DEF AddUser, Doing, UserOps, UserCall
  <2>2. PICK u \in User : users[u] = NoUser /\ users' = [users EXCEPT ![u] = client[c].new]
    BY <1>1 DEF AddUser
  <2>3. users' \in [User -> UserRow \cup {NoUser, GoneUser}]
    BY <1>0, <2>1, <2>2 DEF AccountsTypeOK
  <2>4. \A v \in User : users[v] # NoUser => users'[v] = users[v]
    BY <1>0, <2>2 DEF AccountsTypeOK
  <2>5. SessionInv'
    BY <1>0, <1>1, <2>4 DEF SessionInv, Authenticates, Users, AddUser, AccountsTypeOK
  <2> QED
    BY <1>0, <1>1, <2>3, <2>4, <2>5, CallsKept DEF AddUser, AccountsInv, AccountsTypeOK
<1>2. CASE UpdateUser(c)
  <2> DEFINE u == client[c].id
             row == Merge(users[u], client[c].old, client[c].new)
  <2>1. /\ u \in User
        /\ client[c].old \in UserRow \cup {NoUser} /\ client[c].new \in UserRow
        /\ client[c].new.password = client[c].old.password
    BY <1>0, <1>2, CallKind DEF UpdateUser, Doing, UserOps, UserCall, CallInv
  <2>2. CASE u \in Users
    <3>1. row \in UserRow /\ row.password = users[u].password
      BY <1>0, <2>1, <2>2, MergeUser, UsersAreRows
    <3>2. users' = [users EXCEPT ![u] = row]
      BY <1>2, <2>2 DEF UpdateUser
    <3>3. users' \in [User -> UserRow \cup {NoUser, GoneUser}]
      BY <1>0, <3>1, <3>2 DEF AccountsTypeOK
    <3>4. \A v \in User : /\ users[v] # NoUser => users'[v] # NoUser
                          /\ v \in Users' => v \in Users /\ users'[v].password = users[v].password
      BY <1>0, <2>2, <3>1, <3>2 DEF AccountsTypeOK, Users
    <3>5. SessionInv'
      BY <1>0, <1>2, <3>4 DEF SessionInv, Authenticates, UpdateUser, AccountsTypeOK
    <3> QED
      BY <1>0, <1>2, <3>3, <3>4, <3>5, CallsKept DEF UpdateUser, AccountsInv, AccountsTypeOK
  <2>3. CASE u \notin Users
    <3>1. users' = users
      BY <1>2, <2>3 DEF UpdateUser
    <3>2. SessionInv'
      BY <1>0, <1>2, <3>1 DEF SessionInv, Authenticates, Users, UpdateUser
    <3> QED
      BY <1>0, <1>2, <3>1, <3>2, CallsKept DEF UpdateUser, AccountsInv, AccountsTypeOK
  <2> QED
    BY <2>2, <2>3
<1>3. CASE DeleteUser(c)
  <2>1. client[c].id \in User
    BY <1>0, <1>3 DEF DeleteUser, Doing, CallInv
  <2>2. users' \in [User -> UserRow \cup {NoUser, GoneUser}]
    BY <1>0, <1>3 DEF DeleteUser, AccountsTypeOK
  <2>3. GoneUser # NoUser
    BY DEF GoneUser, NoUser
  <2>4. \A v \in User : /\ users[v] # NoUser => users'[v] # NoUser
                        /\ v \in Users' => v \in Users /\ users'[v] = users[v]
    BY <1>0, <1>3, <2>1, <2>3 DEF DeleteUser, AccountsTypeOK, Users
  <2>5. SessionInv'
    BY <1>0, <1>3, <2>4 DEF SessionInv, Authenticates, DeleteUser, AccountsTypeOK
  <2> QED
    BY <1>0, <1>3, <2>2, <2>4, <2>5, CallsKept DEF DeleteUser, AccountsInv, AccountsTypeOK
<1>4. CASE Login(c)
  <2> DEFINE u == client[c].id
             opened == [user |-> u, password |-> client[c].old.password,
                        late |-> users[u].password # client[c].old.password]
  <2>1. u \in User /\ users[u] # NoUser
    BY <1>0, <1>4 DEF Login, Doing, CallInv
  <2>2. sessions' \subseteq sessions \cup {opened}
    BY <1>4 DEF Login
  <2>3. client[c].old.password \in 0..MaxAccountCall
    <3>1. client[c].old \in UserRow \cup {NoUser}
      BY <1>0, <1>4, CallKind DEF Login, Doing, UserOps, UserCall
    <3>2. 0 \in 0..MaxAccountCall
      BY AccountsAssumption DEF AccountsAssumption
    <3> QED
      BY <3>1, <3>2 DEF UserRow, NoUser
  <2>4. opened \in [user: User, password: 0..MaxAccountCall, late: BOOLEAN]
    BY <2>1, <2>3
  <2>5. SessionInv'
    <3>1. users' = users
      BY <1>4 DEF Login
    <3>2. /\ opened.user = u
          /\ opened.password = users[u].password \/ opened.late
      OBVIOUS
    <3>3. ASSUME NEW s \in sessions'
          PROVE  /\ users[s.user] # NoUser
                 /\ Authenticates(s) => s.password = users[s.user].password \/ s.late
      <4>1. s \in sessions \/ s = opened
        BY <2>2
      <4> QED
        BY <1>0, <2>1, <3>2, <4>1 DEF SessionInv
    <3> QED
      BY <3>1, <3>3 DEF SessionInv, Authenticates, Users
  <2> QED
    BY <1>0, <1>4, <2>2, <2>4, <2>5, CallsKept DEF Login, AccountsInv, AccountsTypeOK
<1>5. CASE UpdatePassword(c)
  <2> DEFINE u == client[c].id
  <2>1. CASE u \in Users
    <3>1. /\ users' = [users EXCEPT ![u] = [@ EXCEPT !.password = accountCalls]]
          /\ sessions' = {s \in sessions : s.user # u}
      BY <1>5, <2>1 DEF UpdatePassword
    <3>2. users[u] \in UserRow /\ u \in User
      BY <1>0, <2>1, UsersAreRows DEF Users
    <3>3. [users[u] EXCEPT !.password = accountCalls] \in UserRow
      BY <1>0, <3>2 DEF UserRow, AccountsTypeOK
    <3>4. users' \in [User -> UserRow \cup {NoUser, GoneUser}]
      BY <1>0, <3>1, <3>3 DEF AccountsTypeOK
    <3>5. /\ \A v \in User \ {u} : users'[v] = users[v]
          /\ users'[u] # NoUser
      BY <1>0, <3>1, <3>2, <3>3 DEF AccountsTypeOK
    <3>6. SessionInv'
      BY <1>0, <3>1, <3>5 DEF SessionInv, Authenticates, Users, AccountsTypeOK
    <3> QED
      BY <1>0, <1>5, <3>1, <3>4, <3>5, <3>6, CallsKept DEF UpdatePassword, AccountsInv, AccountsTypeOK
  <2>2. CASE u \notin Users
    <3>1. users' = users /\ sessions' = sessions
      BY <1>5, <2>2 DEF UpdatePassword
    <3>2. SessionInv'
      BY <1>0, <3>1 DEF SessionInv, Authenticates, Users
    <3> QED
      BY <1>0, <1>5, <3>1, <3>2, CallsKept DEF UpdatePassword, AccountsInv, AccountsTypeOK
  <2> QED
    BY <2>1, <2>2
<1> QED
    BY <1>1, <1>2, <1>3, <1>4, <1>5

\* The calls on roles touch neither users nor sessions.
LEMMA RoleCommitsKeep ==
    ASSUME AccountsInv, NEW c \in Client,
           \/ InsertRole(c) \/ GrantNewRole(c) \/ UpdateRole(c)
           \/ UpdatePermissions(c) \/ DeleteRole(c)
    PROVE  AccountsInv'
<1>0. AccountsTypeOK /\ SessionInv /\ \A d \in Client : CallInv(d)
    BY DEF AccountsInv
<1>u. users' = users /\ sessions' = sessions
    BY DEF InsertRole, GrantNewRole, UpdateRole, UpdatePermissions, DeleteRole
<1>s. SessionInv'
    BY <1>0, <1>u DEF SessionInv, Authenticates, Users
<1>t. ASSUME roles' \in [Role -> RoleRow \cup {NoRole, GoneRole}], Returned(c)
      PROVE  AccountsInv'
    BY <1>0, <1>u, <1>s, <1>t, CallsKept DEF AccountsInv, AccountsTypeOK
<1>p. ASSUME NEW r \in Role, NEW row \in RoleRow, roles' = [roles EXCEPT ![r] = row]
      PROVE  roles' \in [Role -> RoleRow \cup {NoRole, GoneRole}]
    BY <1>0, <1>p DEF AccountsTypeOK
<1>k. client[c].op \in RoleOps => client[c].new \in RoleRow
                                  /\ client[c].old \in RoleRow \cup {NoRole}
    BY <1>0, CallKind DEF RoleCall
<1>r. \A r \in Roles : r \in Role /\ roles[r] \in RoleRow
    BY <1>0, RolesAreRows DEF Roles
<1>1. CASE InsertRole(c)
  <2>1. CASE Returned(c) /\ UNCHANGED roles
    BY <1>0, <2>1, <1>t DEF AccountsTypeOK
  <2>2. ASSUME NEW r \in Role,
               roles' = [roles EXCEPT ![r] = [client[c].new EXCEPT !.perms = {}]],
               client' = [client EXCEPT ![c] = [@ EXCEPT !.op = "grant_new", !.id = r]],
               UNCHANGED accountCalls
        PROVE  AccountsInv'
    <3>1. client[c] \in RoleCall
      BY <1>0, <1>1, CallKind DEF InsertRole, Doing, RoleOps
    <3>2. [client[c].new EXCEPT !.perms = {}] \in RoleRow
      BY <3>1 DEF RoleCall, RoleRow
    <3>3. client'[c] = [client[c] EXCEPT !.op = "grant_new", !.id = r]
      BY <1>0, <2>2 DEF AccountsTypeOK
    <3>4. client'[c] \in RoleCall /\ client'[c].op = "grant_new"
      BY <3>1, <3>3 DEF RoleCall, RoleOps
    <3>5. \A d \in Client \ {c} : client'[d] = client[d]
      BY <1>0, <2>2 DEF AccountsTypeOK
    <3>6. client' \in [Client -> UserCall \cup RoleCall \cup {Resting}]
      <4>1. client' = [d \in Client |-> client'[d]]
        BY <1>0, <2>2 DEF AccountsTypeOK
      <4> QED
        BY <1>0, <3>4, <3>5, <4>1 DEF AccountsTypeOK
    <3>7. \A d \in Client : CallInv(d)'
      BY <1>0, <1>u, <3>4, <3>5 DEF CallInv
    <3> QED
      BY <1>0, <1>u, <1>s, <1>p, <2>2, <3>2, <3>6, <3>7 DEF AccountsInv, AccountsTypeOK
  <2> QED
    BY <1>1, <2>1, <2>2 DEF InsertRole
<1>2. CASE GrantNewRole(c)
  <2>1. PICK perms \in {{}, client[c].new.perms} :
            roles' = IF client[c].id \in Roles
                     THEN [roles EXCEPT ![client[c].id] = [@ EXCEPT !.perms = perms]] ELSE roles
    BY <1>2 DEF GrantNewRole
  <2>2. perms \in SUBSET Perm
    BY <1>2, <1>k DEF GrantNewRole, Doing, RoleOps, RoleRow
  <2>3. CASE client[c].id \in Roles
    <3>1. [roles[client[c].id] EXCEPT !.perms = perms] \in RoleRow
      BY <1>r, <2>2, <2>3 DEF RoleRow
    <3> QED
      BY <1>0, <1>2, <1>p, <1>r, <1>t, <2>1, <2>3, <3>1 DEF GrantNewRole
  <2> QED
    BY <1>0, <1>2, <1>t, <2>1, <2>3 DEF GrantNewRole, AccountsTypeOK
<1>3. CASE UpdateRole(c)
  <2> DEFINE r == client[c].id
             row == Merge(roles[r], client[c].old, client[c].new)
  <2>1. CASE UNCHANGED roles
    BY <1>0, <1>3, <1>t, <2>1 DEF UpdateRole, AccountsTypeOK
  <2>2. ASSUME r \in Roles, NEW perms \in {client[c].new.perms, roles[r].perms},
               roles' = [roles EXCEPT ![r] = [row EXCEPT !.perms = perms]]
        PROVE  AccountsInv'
    <3>1. client[c].new \in RoleRow /\ client[c].old \in RoleRow \cup {NoRole}
      BY <1>3, <1>k DEF UpdateRole, Doing, RoleOps
    <3>2. row \in RoleRow
      BY <1>r, <2>2, <3>1, MergeRole
    <3>3. [row EXCEPT !.perms = perms] \in RoleRow
      BY <1>r, <2>2, <3>1, <3>2 DEF RoleRow
    <3> QED
      BY <1>3, <1>p, <1>r, <1>t, <2>2, <3>3 DEF UpdateRole
  <2> QED
    BY <1>3, <2>1, <2>2 DEF UpdateRole
<1>4. CASE UpdatePermissions(c)
  <2>1. client[c].new.perms \in SUBSET Perm
    BY <1>4, <1>k DEF UpdatePermissions, Doing, RoleOps, RoleRow
  <2>2. CASE client[c].id \in Roles
    <3>1. [roles[client[c].id] EXCEPT !.perms = client[c].new.perms] \in RoleRow
      BY <1>r, <2>1, <2>2 DEF RoleRow
    <3> QED
      BY <1>0, <1>4, <1>p, <1>r, <1>t, <2>2, <3>1 DEF UpdatePermissions
  <2> QED
    BY <1>0, <1>4, <1>t, <2>2 DEF UpdatePermissions, AccountsTypeOK
<1>5. CASE DeleteRole(c)
    BY <1>0, <1>5, <1>t DEF DeleteRole, AccountsTypeOK
<1> QED
    BY <1>1, <1>2, <1>3, <1>4, <1>5

LEMMA AccountsStep == AccountsInv /\ [AccountsNext]_accountVars => AccountsInv'
<1> SUFFICES ASSUME AccountsInv, [AccountsNext]_accountVars PROVE AccountsInv'
    OBVIOUS
<1>1. CASE UNCHANGED accountVars
    BY <1>1 DEF accountVars, AccountsInv, AccountsTypeOK, CallInv, SessionInv, Authenticates, Users
<1> QED
    BY <1>1, CheckUserKeeps, CheckRoleKeeps, UserCommitsKeep, RoleCommitsKeep DEF AccountsNext

\* A session opened with an earlier password does not outlive the change, save
\* when the login was under way while the password changed (user.py 256-262).
THEOREM SessionsFollow == AccountsSpec => []SessionsFollowPassword
<1>1. AccountsInv => SessionsFollowPassword
    BY DEF AccountsInv, SessionInv, SessionsFollowPassword
<1> QED
    BY <1>1, AccountsInitInv, AccountsStep, PTL DEF AccountsSpec

-----------------------------------------------------------------------------
(* Scheduled tasks: one instant, one run; an enabled periodic task has its   *)
(* next instant; a run is logged.                                            *)

\* A call holds the row of a task that was added.
PlannerHolds(u) ==
    planner[u].op # "idle" =>
        /\ planner[u].task \in Task /\ planner[u].row.type \in PlanType
        /\ plan[planner[u].task].type # "new"

\* The loop works through rows that were due, one at a time.
ScanHolds ==
    /\ scan.pc = "asleep" => scan.due = {}
    /\ scan.pc = "advance" => scan.at \in scan.due
    /\ \A t \in scan.due :
        /\ scan.rows[t].type \in PlanType /\ scan.rows[t].next = "due"
        /\ plan[t].type # "new"

\* Beyond what mishaps allow, a task has fired only while the loop is about to
\* advance it, or when it was deleted and the loop is done with it.
FiredInv ==
    \A t \in Task :
        /\ fired[t] <= 1 + mishaps
        /\ /\ ~(scan.pc = "advance" /\ scan.at = t)
           /\ plan[t].type # "deleted" \/ t \in scan.due
           => fired[t] <= mishaps

\* A periodic task has its next instant even while it is disabled.
ArmedInv ==
    \A t \in Task \ overtaken : plan[t].type = "periodic" => plan[t].next # "none"

\* Only a task that was added and is not deleted has an instant.
OnlyPlansHaveTime == \A t \in Task : plan[t].next # "none" => plan[t].type \in PlanType

LoggedInv == RunLogged /\ \A run \in unlogged : plan[run[1]].type # "new"

SchedulerInv ==
    /\ SchedulerTypeOK
    /\ \A u \in Planner : PlannerHolds(u)
    /\ ScanHolds /\ FiredInv /\ ArmedInv /\ OnlyPlansHaveTime /\ LoggedInv

LEMMA SchedulerInitInv == SchedulerInit => SchedulerInv
BY SchedulerAssumption
   DEF SchedulerInit, SchedulerInv, SchedulerTypeOK, PlannerHolds, ScanHolds,
       FiredInv, ArmedInv, OnlyPlansHaveTime, LoggedInv, RunLogged, Asleep, Calling, NoPlan, Row,
       PlanType, Ops, ScanPCs

\* What a commit makes of a row, column by column.
LEMMA CommitRow ==
  ASSUME SchedulerTypeOK, NEW t \in Task, NEW old \in Row, NEW new \in Row,
         NEW moved \in BOOLEAN, Commit(t, old, new, moved)
  PROVE  /\ plan' \in [Task -> Row]
         /\ \A o \in Task \ {t} : plan'[o] = plan[o] /\ fired'[o] = fired[o]
         /\ plan'[t].type = IF new.type = old.type THEN plan[t].type ELSE new.type
         /\ plan'[t].next = IF new.next = old.next /\ ~moved THEN plan[t].next ELSE new.next
         /\ fired' \in [Task -> Nat]
         /\ fired'[t] = IF moved \/ new.next # old.next THEN 0 ELSE fired[t]
         /\ overtaken \subseteq overtaken' /\ overtaken' \subseteq Task
<1> DEFINE row == [f \in {"type", "enabled", "next"} |->
               IF new[f] = old[f] /\ ~(f = "next" /\ moved) THEN plan[t][f] ELSE new[f]]
<1>1. DOMAIN new = {"type", "enabled", "next"}
  BY DEF Row
<1>2. plan' = [plan EXCEPT ![t] = row]
  BY <1>1 DEF Commit
<1>3. row = [type |-> row["type"], enabled |-> row["enabled"], next |-> row["next"]]
  OBVIOUS
<1>4. /\ row["type"] = IF new.type = old.type THEN plan[t].type ELSE new.type
      /\ row["enabled"] = IF new.enabled = old.enabled THEN plan[t].enabled ELSE new.enabled
      /\ row["next"] = IF new.next = old.next /\ ~moved THEN plan[t].next ELSE new.next
  OBVIOUS
<1> HIDE DEF row
<1>5. plan[t] \in Row
  BY DEF SchedulerTypeOK
<1>6. row \in Row
  BY <1>3, <1>4, <1>5 DEF Row
<1>7. plan' \in [Task -> Row] /\ plan'[t] = row
      /\ \A o \in Task \ {t} : plan'[o] = plan[o]
  BY <1>2, <1>6 DEF SchedulerTypeOK
<1>8. plan'[t].type = row["type"] /\ plan'[t].next = row["next"]
  BY <1>7
<1>9. /\ fired' \in [Task -> Nat]
      /\ \A o \in Task \ {t} : fired'[o] = fired[o]
      /\ fired'[t] = IF moved \/ new.next # old.next THEN 0 ELSE fired[t]
  BY DEF Commit, SchedulerTypeOK
<1>10. overtaken \subseteq overtaken' /\ overtaken' \subseteq Task
  BY DEF Commit, SchedulerTypeOK
<1> QED
  BY <1>4, <1>7, <1>8, <1>9, <1>10

\* What the writer of a row leaves a periodic task with.
Arms(old, new, moved) ==
    new.type = "periodic" =>
        new.next = "future" \/ (new.type = old.type /\ new.next = old.next /\ ~moved)

LEMMA CommitArms ==
  ASSUME SchedulerTypeOK, ArmedInv, NEW t \in Task, NEW old \in Row, NEW new \in Row,
         NEW moved \in BOOLEAN, Commit(t, old, new, moved), Arms(old, new, moved)
  PROVE  ArmedInv'
<1> SUFFICES ASSUME NEW o \in Task, o \notin overtaken', plan'[o].type = "periodic"
             PROVE  plan'[o].next # "none"
  BY DEF ArmedInv
<1>1. o \notin overtaken /\ (o # t => plan'[o] = plan[o])
  BY CommitRow
<1>2. CASE o # t
  BY <1>1, <1>2 DEF ArmedInv
<1>3. CASE o = t
  <2>1. /\ plan[t].type = old.type
        /\ new.type = old.type \/ plan[t] \in {old, [old EXCEPT !.next = "due"]}
    BY <1>3 DEF Commit
  <2>2. plan'[t].next = IF new.next = old.next /\ ~moved THEN plan[t].next ELSE new.next
    BY CommitRow
  <2>3. new.type = "periodic"
    BY <1>3, <2>1, CommitRow
  <2>4. CASE new.type = old.type
    <3>1. plan[t].next # "none"
      BY <1>1, <1>3, <2>1, <2>3, <2>4 DEF ArmedInv
    <3> QED
      BY <1>3, <2>2, <2>3, <3>1 DEF Arms
  <2>5. CASE new.type # old.type
    <3>1. new.next = "future" /\ plan[t].next \in {old.next, "due"}
      BY <2>1, <2>3, <2>5 DEF Arms, Row
    <3> QED
      BY <1>3, <2>2, <3>1
  <2> QED
    BY <2>4, <2>5
<1> QED
  BY <1>2, <1>3

\* What every write of a row leaves true of the rows.
PlanMoves ==
    /\ plan' \in [Task -> Row] /\ fired' \in [Task -> Nat] /\ overtaken' \subseteq Task
    /\ \A t \in Task :
        /\ plan[t].type # "new" => plan'[t].type # "new"
        /\ plan[t].type = "deleted" => plan'[t].type = "deleted"
        /\ fired'[t] \in {0, fired[t]}
    /\ ArmedInv' /\ OnlyPlansHaveTime'

LEMMA CommitMoves ==
  ASSUME SchedulerInv, NEW t \in Task, Exists(t), NEW old \in Row, NEW new \in Row,
         NEW moved \in BOOLEAN, Commit(t, old, new, moved), Arms(old, new, moved),
         new.type \in PlanType
  PROVE  PlanMoves
<1>1. ArmedInv'
  BY CommitArms DEF SchedulerInv
<1>2. plan'[t].type \in PlanType
  BY CommitRow DEF SchedulerInv, Exists
<1> QED
  BY <1>1, <1>2, CommitRow
     DEF PlanMoves, SchedulerInv, OnlyPlansHaveTime, Exists, PlanType

LEMMA SameRowsMove ==
  ASSUME SchedulerInv, UNCHANGED <<plan, fired, overtaken>>
  PROVE  PlanMoves
  BY DEF PlanMoves, SchedulerInv, SchedulerTypeOK, ArmedInv, OnlyPlansHaveTime

\* Where the loop stands still, only the calls and the log are left to show.
LEMMA LoopRests ==
  ASSUME SchedulerInv, PlanMoves, UNCHANGED <<scan, mishaps>>
  PROVE  ScanHolds' /\ FiredInv' /\ ArmedInv' /\ OnlyPlansHaveTime'
<1>1. ScanHolds'
  BY DEF SchedulerInv, SchedulerTypeOK, ScanHolds, PlanMoves
<1>2. FiredInv'
  <2> SUFFICES ASSUME NEW t \in Task
               PROVE  /\ fired'[t] <= 1 + mishaps
                      /\ /\ ~(scan.pc = "advance" /\ scan.at = t)
                         /\ plan'[t].type # "deleted" \/ t \in scan.due
                         => fired'[t] <= mishaps
    BY DEF FiredInv
  <2>1. fired'[t] \in {0, fired[t]} /\ mishaps \in Nat /\ fired[t] \in Nat
    BY SchedulerAssumption DEF PlanMoves, SchedulerInv, SchedulerTypeOK
  <2>2. fired[t] <= 1 + mishaps
    BY DEF SchedulerInv, FiredInv
  <2>3. plan'[t].type # "deleted" => plan[t].type # "deleted"
    BY DEF PlanMoves
  <2> QED
    BY <2>1, <2>2, <2>3 DEF SchedulerInv, FiredInv
<1> QED
  BY <1>1, <1>2 DEF PlanMoves

\* A call that returns: what it held is dropped, what it wrote is logged.
LEMMA CallReturns ==
  ASSUME SchedulerInv, PlanMoves, NEW u \in Planner, Done(u),
         UNCHANGED <<scan, mishaps, planEdits>>, unlogged' \subseteq unlogged,
         \A t \in Task : <<t, u>> \in unlogged' => planner[u].op # "started" \/ ~Exists(t)
                                                   \/ planner[u].task # t
  PROVE  SchedulerInv'
<1>1. planner'[u] = Calling /\ \A o \in Planner \ {u} : planner'[o] = planner[o]
  BY DEF Done, SchedulerInv, SchedulerTypeOK
<1>2. SchedulerTypeOK'
  <2>1. Calling \in [op: Ops, task: Task \cup {NoTask}, row: Row]
    BY DEF Calling, Ops, NoPlan, Row
  <2>2. planner' \in [Planner -> [op: Ops, task: Task \cup {NoTask}, row: Row]]
    BY <2>1 DEF Done, SchedulerInv, SchedulerTypeOK
  <2> QED
    BY <2>2 DEF SchedulerInv, SchedulerTypeOK, PlanMoves
<1>3. \A o \in Planner : PlannerHolds(o)'
  BY <1>1 DEF SchedulerInv, PlannerHolds, PlanMoves, Calling
<1>4. LoggedInv'
  <2>1. \A run \in unlogged' : plan'[run[1]].type # "new"
    BY DEF SchedulerInv, SchedulerTypeOK, LoggedInv, PlanMoves
  <2>2. ASSUME NEW t \in Task, ~Exists(t), plan[t].type # "new"
        PROVE  ~Exists(t)'
    BY <2>2 DEF Exists, PlanMoves, SchedulerInv, SchedulerTypeOK, Row, PlanType
  <2>3. RunLogged'
    <3> SUFFICES ASSUME NEW t \in Task, NEW o \in {"loop"} \cup Planner,
                        <<t, o>> \in unlogged'
                 PROVE  \/ o = "loop" /\ scan.pc = "advance" /\ scan.at = t
                        \/ o # "loop" /\ planner'[o].op = "started" /\ planner'[o].task = t
                        \/ ~Exists(t)'
                        \/ mishaps > 0
      BY DEF RunLogged
    <3>1. /\ \/ o = "loop" /\ scan.pc = "advance" /\ scan.at = t
             \/ o # "loop" /\ planner[o].op = "started" /\ planner[o].task = t
             \/ ~Exists(t)
             \/ mishaps > 0
          /\ plan[t].type # "new"
      BY DEF SchedulerInv, LoggedInv, RunLogged
    <3> QED
      BY <1>1, <2>2, <3>1, SchedulerAssumption
  <2> QED
    BY <2>1, <2>3 DEF LoggedInv
<1> QED
  BY <1>2, <1>3, <1>4, LoopRests DEF SchedulerInv

LEMMA AfterRunArms ==
  ASSUME NEW row \in Row, row.type \in PlanType, NEW moved \in BOOLEAN
  PROVE  /\ AfterRun(row) \in Row /\ AfterRun(row).type = row.type
         /\ Arms(row, AfterRun(row), moved)
         /\ AfterRun(row).next \in {"none", "future"}
  BY DEF AfterRun, Row, Arms, PlanType

\* The calls.
LEMMA PlannerKeeps ==
  ASSUME SchedulerInv, NEW u \in Planner, PlannerStep(u)
  PROVE  SchedulerInv'
<1>0. /\ planner[u].op # "idle" => planner[u].task \in Task
      /\ planner[u].row \in Row
      /\ planner[u].op # "idle" => planner[u].row.type \in PlanType
  BY DEF SchedulerInv, PlannerHolds, SchedulerTypeOK
<1>1. CASE \E t \in Task, op \in {"update", "delete", "toggle", "trigger"} : ReadPlan(u, t, op)
  <2>1. PICK t \in Task, op \in {"update", "delete", "toggle", "trigger"} : ReadPlan(u, t, op)
    BY <1>1
  <2>2. /\ planEdits' \in 0..MaxPlanEdit
        /\ [op |-> op, task |-> t, row |-> plan[t]]
             \in [op: Ops, task: Task \cup {NoTask}, row: Row]
    BY <2>1, SchedulerAssumption DEF ReadPlan, SchedulerInv, SchedulerTypeOK, Ops
  <2>3. SchedulerTypeOK'
    BY <2>1, <2>2 DEF ReadPlan, SchedulerInv, SchedulerTypeOK
  <2>4. /\ planner'[u] = [op |-> op, task |-> t, row |-> plan[t]]
        /\ \A o \in Planner \ {u} : planner'[o] = planner[o]
    BY <2>1 DEF ReadPlan, SchedulerInv, SchedulerTypeOK
  <2>5. \A o \in Planner : PlannerHolds(o)'
    <3>1. PlannerHolds(u)'
      BY <2>1, <2>4 DEF ReadPlan, PlannerHolds, Exists, PlanType
    <3>2. ASSUME NEW o \in Planner \ {u}
          PROVE  PlannerHolds(o)'
      BY <2>1, <2>4 DEF ReadPlan, SchedulerInv, PlannerHolds
    <3> QED
      BY <3>1, <3>2
  <2>6. LoggedInv'
    BY <2>1, <2>4 DEF ReadPlan, SchedulerInv, LoggedInv, RunLogged, Exists
  <2>7. PlanMoves /\ UNCHANGED <<scan, mishaps>>
    BY <2>1, SameRowsMove DEF ReadPlan
  <2> QED
    BY <2>3, <2>5, <2>6, <2>7, LoopRests DEF SchedulerInv
<1>2. CASE RowGone(u)
  <2>1. PlanMoves
    BY <1>2, SameRowsMove DEF RowGone
  <2> QED
    BY <1>2, <2>1, CallReturns DEF RowGone
<1>3. CASE UpdateScheduledTask(u)
  <2>1. PICK type \in PlanType, moved \in BOOLEAN : \E next \in NextOf(type) :
          Commit(planner[u].task, planner[u].row,
                 [planner[u].row EXCEPT !.type = type, !.next = next], moved)
    BY <1>3 DEF UpdateScheduledTask
  <2>2. PICK next \in NextOf(type) :
          Commit(planner[u].task, planner[u].row,
                 [planner[u].row EXCEPT !.type = type, !.next = next], moved)
    BY <2>1
  <2> DEFINE new == [planner[u].row EXCEPT !.type = type, !.next = next]
  <2>3. new \in Row /\ new.type = type /\ (type = "periodic" => new.next = "future")
    BY <1>0 DEF NextOf, Row, PlanType
  <2>4. Arms(planner[u].row, new, moved)
    BY <2>3 DEF Arms
  <2> HIDE DEF new
  <2>5. PlanMoves
    BY <1>0, <1>3, <2>2, <2>3, <2>4, CommitMoves DEF UpdateScheduledTask, new
  <2> QED
    BY <1>3, <2>5, CallReturns DEF UpdateScheduledTask
<1>4. CASE ToggleEnabled(u)
  <2>1. PICK on \in BOOLEAN : \E moved \in {FALSE, on /\ planner[u].row.type # "once"} :
          Commit(planner[u].task, planner[u].row, Toggled(planner[u].row, on), moved)
    BY <1>4 DEF ToggleEnabled
  <2>2. PICK moved \in {FALSE, on /\ planner[u].row.type # "once"} :
          Commit(planner[u].task, planner[u].row, Toggled(planner[u].row, on), moved)
    BY <2>1
  <2>3. /\ Toggled(planner[u].row, on) \in Row /\ moved \in BOOLEAN
        /\ Toggled(planner[u].row, on).type = planner[u].row.type
        /\ Toggled(planner[u].row, on).next =
             IF on /\ planner[u].row.type # "once" THEN "future" ELSE planner[u].row.next
    BY <1>0 DEF Toggled, Row
  <2>4. Arms(planner[u].row, Toggled(planner[u].row, on), moved)
    BY <2>3 DEF Arms
  <2>5. PlanMoves
    BY <1>0, <1>4, <2>2, <2>3, <2>4, CommitMoves DEF ToggleEnabled
  <2> QED
    BY <1>4, <2>5, CallReturns DEF ToggleEnabled
<1>5. CASE DeleteScheduledTask(u)
  <2>1. plan' \in [Task -> Row]
    BY <1>5 DEF DeleteScheduledTask, NoPlan, Row, SchedulerInv, SchedulerTypeOK
  <2>2. \A t \in Task : plan'[t] = plan[t] \/ plan'[t] = NoPlan("deleted")
    BY <1>5 DEF DeleteScheduledTask, SchedulerInv, SchedulerTypeOK
  <2>3. ArmedInv'
    BY <1>5, <2>2 DEF DeleteScheduledTask, SchedulerInv, ArmedInv, NoPlan
  <2>4. PlanMoves
    BY <1>5, <2>1, <2>2, <2>3
       DEF DeleteScheduledTask, PlanMoves, OnlyPlansHaveTime, NoPlan, SchedulerInv,
           SchedulerTypeOK
  <2> QED
    BY <1>5, <2>4, CallReturns DEF DeleteScheduledTask
<1>6. CASE TriggerRefused(u)
  <2>1. PlanMoves
    BY <1>6, SameRowsMove DEF TriggerRefused
  <2> QED
    BY <1>6, <2>1, CallReturns DEF TriggerRefused
<1>7. CASE TriggerStarts(u)
  <2>1. /\ planner'[u].op = "started" /\ planner[u].op # "idle"
        /\ planner'[u].task = planner[u].task /\ planner'[u].row = planner[u].row
        /\ \A o \in Planner \ {u} : planner'[o] = planner[o]
        /\ planner' \in [Planner -> [op: Ops, task: Task \cup {NoTask}, row: Row]]
    BY <1>7 DEF TriggerStarts, SchedulerInv, SchedulerTypeOK, Ops
  <2>2. SchedulerTypeOK'
    BY <1>0, <1>7, <2>1 DEF TriggerStarts, SchedulerInv, SchedulerTypeOK
  <2>3. \A o \in Planner : PlannerHolds(o)'
    BY <1>7, <2>1 DEF TriggerStarts, SchedulerInv, PlannerHolds
  <2>4. LoggedInv'
    <3>1. \A run \in unlogged' : plan'[run[1]].type # "new"
      BY <1>7, <2>1 DEF TriggerStarts, SchedulerInv, LoggedInv, PlannerHolds
    <3>2. RunLogged'
      BY <1>7, <2>1, SchedulerAssumption
         DEF TriggerStarts, SchedulerInv, LoggedInv, RunLogged, Exists
    <3> QED
      BY <3>1, <3>2 DEF LoggedInv
  <2>5. PlanMoves /\ UNCHANGED <<scan, mishaps>>
    BY <1>7, SameRowsMove DEF TriggerStarts
  <2> QED
    BY <2>2, <2>3, <2>4, <2>5, LoopRests DEF SchedulerInv
<1>8. CASE TriggerSaved(u)
  <2>1. PICK moved \in {FALSE, planner[u].row.type # "once"} :
          Commit(planner[u].task, planner[u].row, AfterRun(planner[u].row), moved)
    BY <1>8 DEF TriggerSaved
  <2>2. /\ planner[u].task \in Task /\ Exists(planner[u].task) /\ moved \in BOOLEAN
        /\ planner[u].row.type \in PlanType
    BY <1>0, <1>8 DEF TriggerSaved
  <2>3. /\ AfterRun(planner[u].row) \in Row
        /\ AfterRun(planner[u].row).type = planner[u].row.type
        /\ Arms(planner[u].row, AfterRun(planner[u].row), moved)
    BY <1>0, <2>2, AfterRunArms
  <2>4. PlanMoves
    BY <1>0, <2>1, <2>2, <2>3, CommitMoves
  <2> QED
    BY <1>8, <2>4, CallReturns DEF TriggerSaved
<1> QED
  BY <1>1, <1>2, <1>3, <1>4, <1>5, <1>6, <1>7, <1>8 DEF PlannerStep

\* A new task, and the passing of time.
LEMMA PlanKeeps ==
  ASSUME SchedulerInv, NEW t \in Task, AddScheduledTask(t) \/ TimeComes(t)
  PROVE  SchedulerInv'
<1>1. PICK row \in Row :
        /\ plan' = [plan EXCEPT ![t] = row]
        /\ row.type \in PlanType /\ plan[t].type # "deleted"
        /\ row.type = "periodic" => row.next # "none"
  <2>1. CASE AddScheduledTask(t)
    <3>1. PICK type \in PlanType : \E next \in NextOf(type) :
            plan' = [plan EXCEPT ![t] = [type |-> type, enabled |-> TRUE, next |-> next]]
      BY <2>1 DEF AddScheduledTask
    <3>2. PICK next \in NextOf(type) :
            plan' = [plan EXCEPT ![t] = [type |-> type, enabled |-> TRUE, next |-> next]]
      BY <3>1
    <3> DEFINE row == [type |-> type, enabled |-> TRUE, next |-> next]
    <3>3. /\ row \in Row /\ row.type \in PlanType
          /\ row.type = "periodic" => row.next # "none"
      BY DEF NextOf, Row, PlanType
    <3>4. plan[t].type = "new"
      BY <2>1 DEF AddScheduledTask
    <3> QED
      BY <3>2, <3>3, <3>4
  <2>2. CASE TimeComes(t)
    <3> DEFINE row == [plan[t] EXCEPT !.next = "due"]
    <3>1. row \in Row /\ row.type = plan[t].type /\ row.next = "due"
      BY SMTT(30) DEF SchedulerInv, SchedulerTypeOK, Row
    <3>2. plan' = [plan EXCEPT ![t] = row] /\ plan[t].next = "future"
      BY <2>2 DEF TimeComes
    <3>3. plan[t].type \in PlanType
      BY <3>2 DEF SchedulerInv, OnlyPlansHaveTime
    <3> QED
      BY <3>1, <3>2, <3>3 DEF PlanType
  <2> QED
    BY <2>1, <2>2
<1>2. /\ UNCHANGED <<scan, planner, fired, unlogged, overtaken, mishaps>>
      /\ planEdits' \in 0..MaxPlanEdit
  BY SchedulerAssumption
     DEF AddScheduledTask, TimeComes, SchedulerInv, SchedulerTypeOK
<1>3. /\ plan' \in [Task -> Row] /\ plan'[t] = row
      /\ \A o \in Task \ {t} : plan'[o] = plan[o]
  BY <1>1 DEF SchedulerInv, SchedulerTypeOK
<1>4. ArmedInv' /\ OnlyPlansHaveTime'
  BY <1>1, <1>2, <1>3 DEF SchedulerInv, ArmedInv, OnlyPlansHaveTime
<1>5. PlanMoves
  BY <1>1, <1>2, <1>3, <1>4 DEF PlanMoves, PlanType, SchedulerInv, SchedulerTypeOK
<1>6. SchedulerTypeOK'
  BY <1>2, <1>3 DEF SchedulerInv, SchedulerTypeOK
<1>7. \A o \in Planner : PlannerHolds(o)'
  BY <1>2, <1>5 DEF SchedulerInv, PlannerHolds, PlanMoves
<1>8. LoggedInv'
  <2>1. \A run \in unlogged' : plan'[run[1]].type # "new"
    BY <1>2, <1>5 DEF SchedulerInv, SchedulerTypeOK, LoggedInv, PlanMoves
  <2>2. \A o \in Task : plan[o].type # "new" /\ ~Exists(o) => ~Exists(o)'
    BY <1>5 DEF Exists, PlanMoves, SchedulerInv, SchedulerTypeOK, Row, PlanType
  <2>3. RunLogged'
    BY <1>2, <2>2 DEF SchedulerInv, LoggedInv, RunLogged
  <2> QED
    BY <2>1, <2>3 DEF LoggedInv
<1> QED
  BY <1>2, <1>5, <1>6, <1>7, <1>8, LoopRests DEF SchedulerInv

\* The polling loop.
LEMMA ScanStays ==
  ASSUME SchedulerInv, NEW t \in Task, t \in scan.due, scan.pc = "scan",
         scan' = [scan EXCEPT !.pc = "advance", !.at = t]
  PROVE  /\ scan'.pc = "advance" /\ scan'.at = t /\ scan'.due = scan.due
         /\ scan'.rows = scan.rows
         /\ scan' \in [pc: ScanPCs, due: SUBSET Task, rows: [Task -> Row],
                       at: Task \cup {NoTask}]
  BY DEF SchedulerInv, SchedulerTypeOK, ScanPCs

\* Where the loop starts over, or is cut off, it holds nothing.
LEMMA AsleepHolds ==
  /\ Asleep \in [pc: ScanPCs, due: SUBSET Task, rows: [Task -> Row],
                 at: Task \cup {NoTask}]
  /\ Asleep.pc = "asleep" /\ Asleep.due = {}
  BY DEF Asleep, ScanPCs, NoPlan, Row

LEMMA LoopKeeps ==
  ASSUME SchedulerInv, LoopStep
  PROVE  SchedulerInv'
<1>0. /\ mishaps \in Nat /\ fired \in [Task -> Nat]
      /\ scan.due \subseteq Task
  BY SchedulerAssumption DEF SchedulerInv, SchedulerTypeOK
<1>1. CASE GetDueTasks
  <2>1. /\ scan'.pc = "scan" /\ scan'.due = DueTasks /\ scan'.rows = plan
        /\ scan' \in [pc: ScanPCs, due: SUBSET Task, rows: [Task -> Row],
                      at: Task \cup {NoTask}]
    BY <1>1 DEF GetDueTasks, DueTasks, SchedulerInv, SchedulerTypeOK, ScanPCs
  <2>2. \A t \in DueTasks : plan[t].next = "due" /\ plan[t].type \in PlanType
    BY DEF DueTasks, SchedulerInv, OnlyPlansHaveTime
  <2>3. ScanHolds'
    BY <1>1, <2>1, <2>2 DEF GetDueTasks, ScanHolds, PlanType
  <2>4. FiredInv'
    BY <1>1, <2>1, <2>2 DEF GetDueTasks, FiredInv, SchedulerInv, PlanType
  <2>5. LoggedInv'
    BY <1>1, <2>1 DEF GetDueTasks, LoggedInv, RunLogged, SchedulerInv, Exists
  <2> QED
    BY <1>1, <2>1, <2>3, <2>4, <2>5
       DEF GetDueTasks, SchedulerInv, SchedulerTypeOK, PlannerHolds, ArmedInv,
           OnlyPlansHaveTime
<1>2. CASE \E t \in Task : ExecuteSkipped(t)
  <2>1. PICK t \in Task : ExecuteSkipped(t)
    BY <1>2
  <2>2. /\ scan'.pc = "advance" /\ scan'.at = t /\ scan'.due = scan.due
        /\ scan'.rows = scan.rows
        /\ scan' \in [pc: ScanPCs, due: SUBSET Task, rows: [Task -> Row],
                      at: Task \cup {NoTask}]
    BY <2>1, ScanStays DEF ExecuteSkipped
  <2>3. ScanHolds'
    BY <2>1, <2>2 DEF ExecuteSkipped, ScanHolds, SchedulerInv
  <2>4. FiredInv'
    BY <2>1, <2>2 DEF ExecuteSkipped, FiredInv, SchedulerInv
  <2>5. LoggedInv'
    BY <2>1, <2>2 DEF ExecuteSkipped, LoggedInv, RunLogged, SchedulerInv, Exists
  <2> QED
    BY <2>1, <2>2, <2>3, <2>4, <2>5
       DEF ExecuteSkipped, SchedulerInv, SchedulerTypeOK, PlannerHolds, ArmedInv,
           OnlyPlansHaveTime
<1>3. CASE \E t \in Task : ExecuteFires(t)
  <2>1. PICK t \in Task : ExecuteFires(t)
    BY <1>3
  <2>2. /\ scan'.pc = "advance" /\ scan'.at = t /\ scan'.due = scan.due
        /\ scan'.rows = scan.rows
        /\ scan' \in [pc: ScanPCs, due: SUBSET Task, rows: [Task -> Row],
                      at: Task \cup {NoTask}]
    BY <2>1, ScanStays DEF ExecuteFires
  <2>3. ScanHolds'
    BY <2>1, <2>2 DEF ExecuteFires, ScanHolds, SchedulerInv
  <2>4. /\ fired' \in [Task -> Nat] /\ fired'[t] = fired[t] + 1
        /\ \A o \in Task \ {t} : fired'[o] = fired[o]
    BY <1>0, <2>1 DEF ExecuteFires
  <2>5. fired[t] <= mishaps
    BY <2>1 DEF ExecuteFires, FiredInv, SchedulerInv
  <2>6. FiredInv'
    <3>1. fired'[t] <= 1 + mishaps
      BY <1>0, <2>4, <2>5
    <3> QED
      BY <2>1, <2>2, <2>4, <3>1 DEF ExecuteFires, FiredInv, SchedulerInv
  <2>7. LoggedInv'
    <3>1. plan[t].type # "new"
      BY <2>1 DEF ExecuteFires, ScanHolds, SchedulerInv
    <3>2. \A run \in unlogged' : plan'[run[1]].type # "new"
      BY <2>1, <3>1 DEF ExecuteFires, LoggedInv, SchedulerInv
    <3>3. RunLogged'
      BY <2>1, <2>2 DEF ExecuteFires, LoggedInv, RunLogged, SchedulerInv, Exists
    <3> QED
      BY <3>2, <3>3 DEF LoggedInv
  <2>8. SchedulerTypeOK'
    BY <2>1, <2>2, <2>4 DEF ExecuteFires, SchedulerInv, SchedulerTypeOK
  <2> QED
    BY <2>1, <2>3, <2>6, <2>7, <2>8
       DEF ExecuteFires, SchedulerInv, PlannerHolds, ArmedInv, OnlyPlansHaveTime
<1>4. CASE TriggerNextRun
  <2> DEFINE t == scan.at
             old == scan.rows[t]
  <2>1. /\ t \in scan.due /\ t \in Task /\ scan.pc = "advance" /\ Exists(t)
        /\ Commit(t, old, AfterRun(old), FALSE) /\ Proceed(t)
        /\ unlogged' = unlogged \ {<<t, "loop">>}
        /\ UNCHANGED <<planner, planEdits, mishaps>>
    BY <1>0, <1>4 DEF TriggerNextRun, SchedulerInv, ScanHolds
  <2>2. old \in Row /\ old.type \in PlanType /\ old.next = "due"
    BY <2>1 DEF SchedulerInv, SchedulerTypeOK, ScanHolds
  <2> HIDE DEF t, old
  <2>3. /\ AfterRun(old) \in Row /\ AfterRun(old).type = old.type
        /\ Arms(old, AfterRun(old), FALSE)
        /\ AfterRun(old).next \in {"none", "future"}
    BY <2>2, AfterRunArms
  <2>4. PlanMoves
    BY <2>1, <2>2, <2>3, CommitMoves
  <2>5. /\ fired'[t] = 0
        /\ \A o \in Task \ {t} : plan'[o] = plan[o] /\ fired'[o] = fired[o]
    BY <2>1, <2>2, <2>3, CommitRow, ZenonT(40) DEF SchedulerInv
  <2>6. /\ scan'.pc # "advance" /\ (scan'.pc = "asleep" => scan'.due = {})
        /\ scan'.due = scan.due \ {t}
        /\ scan'.due # {} => scan'.rows = scan.rows
        /\ scan' \in [pc: ScanPCs, due: SUBSET Task, rows: [Task -> Row],
                      at: Task \cup {NoTask}]
    <3>1. CASE scan.due = {t}
      BY <2>1, <3>1, AsleepHolds DEF Proceed
    <3>2. CASE scan.due # {t}
      <4>1. scan' = [scan EXCEPT !.pc = "scan", !.due = @ \ {t}, !.at = NoTask]
        BY <2>1, <3>2 DEF Proceed
      <4> QED
        BY <2>1, <4>1 DEF SchedulerInv, SchedulerTypeOK, ScanPCs
    <3> QED
      BY <3>1, <3>2
  <2>7. ScanHolds'
    BY <2>4, <2>6 DEF ScanHolds, SchedulerInv, SchedulerTypeOK, PlanMoves
  <2>8. FiredInv'
    <3> SUFFICES ASSUME NEW o \in Task
                 PROVE  /\ fired'[o] <= 1 + mishaps
                        /\ plan'[o].type # "deleted" \/ o \in scan'.due
                             => fired'[o] <= mishaps
      BY <2>1, <2>6 DEF FiredInv
    <3>1. CASE o = t
      BY <1>0, <2>5, <3>1
    <3>2. CASE o # t
      BY <2>1, <2>5, <2>6, <3>2 DEF FiredInv, SchedulerInv, t
    <3> QED
      BY <3>1, <3>2
  <2>9. LoggedInv'
    <3>1. \A run \in unlogged' : plan'[run[1]].type # "new"
      BY <2>1, <2>4 DEF SchedulerInv, SchedulerTypeOK, LoggedInv, PlanMoves
    <3>2. \A o \in Task : plan[o].type # "new" /\ ~Exists(o) => ~Exists(o)'
      BY <2>4 DEF Exists, PlanMoves, SchedulerInv, SchedulerTypeOK, Row, PlanType
    <3>3. RunLogged'
      BY <2>1, <3>2 DEF SchedulerInv, LoggedInv, RunLogged, t
    <3> QED
      BY <3>1, <3>3 DEF LoggedInv
  <2>10. SchedulerTypeOK'
    BY <2>1, <2>4, <2>6 DEF SchedulerInv, SchedulerTypeOK, PlanMoves
  <2>11. \A u \in Planner : PlannerHolds(u)'
    BY <2>1, <2>4 DEF SchedulerInv, PlannerHolds, PlanMoves
  <2> QED
    BY <2>4, <2>7, <2>8, <2>9, <2>10, <2>11 DEF SchedulerInv, PlanMoves
<1>5. CASE ScanAborts
  <2>1. scan.pc = "advance" /\ scan' = Asleep /\ scan.at \in Task /\ ~Exists(scan.at)
        /\ plan[scan.at].type # "new"
    BY <1>0, <1>5 DEF ScanAborts, SchedulerInv, ScanHolds
  <2>2. plan[scan.at].type = "deleted"
    BY <2>1 DEF Exists, SchedulerInv, SchedulerTypeOK, Row, PlanType
  <2>3. ScanHolds'
    BY <2>1, AsleepHolds DEF ScanHolds
  <2>4. FiredInv'
    BY <1>5, <2>1, <2>2, AsleepHolds DEF ScanAborts, FiredInv, SchedulerInv
  <2>5. LoggedInv'
    BY <1>5, <2>1, AsleepHolds DEF ScanAborts, LoggedInv, RunLogged, SchedulerInv, Exists
  <2> QED
    BY <1>5, <2>1, <2>3, <2>4, <2>5, AsleepHolds
       DEF ScanAborts, SchedulerInv, SchedulerTypeOK, PlannerHolds, ArmedInv,
           OnlyPlansHaveTime
<1> QED
  BY <1>1, <1>2, <1>3, <1>4, <1>5 DEF LoopStep

\* A database error or a restart: one mishap more.
LEMMA MishapKeeps ==
  ASSUME SchedulerInv, DatabaseFails \/ SchedulerRestarts
  PROVE  SchedulerInv'
<1>1. /\ scan' = Asleep /\ mishaps' = mishaps + 1 /\ mishaps' \in 0..MaxMishap
      /\ mishaps \in Nat /\ fired \in [Task -> Nat]
      /\ UNCHANGED <<plan, fired, unlogged, overtaken, planEdits>>
  BY SchedulerAssumption DEF DatabaseFails, SchedulerRestarts, SchedulerInv, SchedulerTypeOK
<1>2. /\ planner' \in [Planner -> [op: Ops, task: Task \cup {NoTask}, row: Row]]
      /\ \A u \in Planner : PlannerHolds(u)'
  <2>1. CASE DatabaseFails
    BY <2>1 DEF DatabaseFails, SchedulerInv, SchedulerTypeOK, PlannerHolds
  <2>2. CASE SchedulerRestarts
    BY <2>2 DEF SchedulerRestarts, PlannerHolds, Calling, Ops, NoPlan, Row
  <2> QED
    BY <2>1, <2>2
<1>3. ScanHolds'
  BY <1>1, AsleepHolds DEF ScanHolds
<1>4. FiredInv'
  <2> SUFFICES ASSUME NEW t \in Task
               PROVE  fired'[t] <= mishaps'
    BY <1>1 DEF FiredInv
  <2>1. fired[t] <= 1 + mishaps /\ fired[t] \in Nat
    BY <1>1 DEF SchedulerInv, FiredInv
  <2> QED
    BY <1>1, <2>1
<1>5. LoggedInv'
  BY <1>1 DEF SchedulerInv, LoggedInv, RunLogged
<1> QED
  BY <1>1, <1>2, <1>3, <1>4, <1>5, AsleepHolds
     DEF SchedulerInv, SchedulerTypeOK, ArmedInv, OnlyPlansHaveTime

LEMMA SchedulerStep ==
  ASSUME SchedulerInv, [SchedulerNext]_schedulerVars
  PROVE  SchedulerInv'
<1>1. CASE SchedulerNext
  BY <1>1, PlanKeeps, PlannerKeeps, LoopKeeps, MishapKeeps DEF SchedulerNext
<1>2. CASE UNCHANGED schedulerVars
  BY <1>2 DEF schedulerVars, SchedulerInv, SchedulerTypeOK, PlannerHolds, ScanHolds,
     FiredInv, ArmedInv, OnlyPlansHaveTime, LoggedInv, RunLogged, Exists
<1> QED
  BY <1>1, <1>2

\* One instant starts one automatic run, for any number of tasks, sessions and
\* calls: the loop advances the row it ran before it scans again, and a write
\* that leaves the row as it was leaves it to the loop.
THEOREM InstantsFireOnce == SchedulerSpec => []FiresOnce
<1>1. SchedulerInv => FiresOnce
  BY DEF SchedulerInv, FiredInv, FiresOnce
<1> QED
  BY <1>1, SchedulerInitInv, SchedulerStep, PTL DEF SchedulerSpec

\* However calls and the loop interleave, an enabled periodic task keeps a next
\* instant, unless an edit of its type met another write of the row.
THEOREM PeriodicStaysArmed == SchedulerSpec => []PeriodicArmed
<1>1. SchedulerInv => PeriodicArmed
  BY DEF SchedulerInv, ArmedInv, PeriodicArmed
<1> QED
  BY <1>1, SchedulerInitInv, SchedulerStep, PTL DEF SchedulerSpec

\* A run that was started is logged unless its task was deleted under it or the
\* process was interrupted: the loop's error path and every call commit the log
\* row together with the row they advance.
THEOREM RunsAreLogged == SchedulerSpec => []RunLogged
<1>1. SchedulerInv => RunLogged
  BY DEF SchedulerInv, LoggedInv
<1> QED
  BY <1>1, SchedulerInitInv, SchedulerStep, PTL DEF SchedulerSpec

-----------------------------------------------------------------------------
(* The upgrade ends with a complete database.  A migration is first brought    *)
(* from a sequence that depends on what it finds to a set that does not: the   *)
(* statements it may run, of which it runs those that are due.  The invariant  *)
(* speaks of these.                                                            *)

StatementsOf(i) ==
    CASE i = 1 ->
          {Column("node", "node_password")}
      [] i = 2 ->
          {Column("config", "config_value")}
      [] i = 3 ->
          ({Table("ai_task")}
              \cup {Index("ai_task", "ai_task_status"), Index("ai_task", "ai_task_type")})
          \cup ({Table("ai_artifact")}
              \cup {Index("ai_artifact", "ai_artifact_task")})
      [] i = 4 ->
          {Column("report", "report_region")}
          \cup {Column("report", "report_service_name")}
          \cup {Column("report", "report_total_threads")}
          \cup {Column("report", "report_slave_count")}
          \cup {Column("report", "report_grafana_instance")}
          \cup {Column("report", "report_artifact_dir")}
      [] i = 5 ->
          ({Table("csv_resource")}
              \cup {Unique("csv_resource", "uk_csv_filename")})
          \cup {Column("csv_resource", "csv_file_type")}
          \cup ({Table("csv_binding")}
              \cup {Unique("csv_binding", "uk_csv_binding"),
                    Index("csv_binding", "csv_binding_file")})
          \cup ({Table("upload_binding")}
              \cup {Unique("upload_binding", "uk_upload_binding"),
                    Index("upload_binding", "upload_binding_file")})
      [] i = 6 ->
          ({Table("role")} \cup {Unique("role", "uk_role_code")})
          \cup ({Table("role_permission")}
              \cup {Index("role_permission", "role_permission_role")})
          \cup {Column("user", "user_role_id")}
      [] i = 7 ->
          {Table("task_log")}
              \cup {Index("task_log", "task_log_task"), Index("task_log", "task_log_case")}
      [] i = 8 ->
          {Table("execution_queue")}
              \cup {Index("execution_queue", "queue_status"),
                    Index("execution_queue", "queue_case"),
                    Index("execution_queue", "queue_report")}
      [] i = 9 ->
          {Table("execution_run")}
          \cup ({Repair("execution_run", "uk_run_report")}
               \cup {Index("execution_run", "run_status")})
      [] i = 10 ->
          {Table("execution_node")}
          \cup ({Index("execution_node", "exec_node_report")}
               \cup {Index("execution_node", "exec_node_node")}
               \cup {Index("execution_node", "exec_node_status")})
      [] i = 11 ->
          {Table("metric")}
          \cup {Repair("metric", "uk_metric_bucket")}
      [] i = 12 ->
          {Table("transaction")}
          \cup {Repair("transaction", "uk_transaction_name")}
      [] i = 13 ->
          {Table("transaction_metric")}
          \cup {Column("transaction_metric", "transaction_active_threads")}
          \cup {Repair("transaction_metric", "uk_transaction_bucket")}
      [] i = 14 ->
          {Table("user_session")}
              \cup {Unique("user_session", "uk_session_token"),
                    Index("user_session", "session_user")}

Statement == UNION {StatementsOf(i) : i \in 1..14}
IndexKind == {"index", "unique", "repair"}

\* What a statement brings is missing; an index that is made together with its
\* table only, when the table is.
Due(s, db) ==
    \/ s.kind = "table" /\ s.on \notin db.tables
    \/ /\ s.kind = "column" /\ s.name \notin db.columns
       /\ s.on \in DOMAIN OwnColumn => s.on \in db.tables
    \/ s.kind \in IndexKind /\ s.on \in RepairedTables /\ s.name \notin db.indexes
    \/ s.kind \in IndexKind /\ s.on \notin RepairedTables /\ s.on \notin db.tables

Members(q) == {q[k] : k \in DOMAIN q}

\* A sequence of the statements of P that are due.
Finds(db, q, P) == q \in Seq(Statement) /\ Members(q) = {s \in P : Due(s, db)}

LEMMA MembersOfBoth ==
  ASSUME NEW p \in Seq(Statement), NEW q \in Seq(Statement)
  PROVE  p \o q \in Seq(Statement) /\ Members(p \o q) = Members(p) \cup Members(q)
<1>1. /\ p \o q \in Seq(Statement) /\ Len(p) \in Nat /\ Len(q) \in Nat
      /\ Len(p \o q) = Len(p) + Len(q)
      /\ \A k \in 1..Len(p) : (p \o q)[k] = p[k]
      /\ \A k \in 1..Len(q) : (p \o q)[Len(p) + k] = q[k]
      /\ DOMAIN p = 1..Len(p) /\ DOMAIN q = 1..Len(q)
      /\ DOMAIN (p \o q) = 1..Len(p) + Len(q)
  OBVIOUS
<1>2. ASSUME NEW x \in Members(p \o q) PROVE x \in Members(p) \cup Members(q)
  <2>1. PICK k \in 1..Len(p) + Len(q) : x = (p \o q)[k]
    BY <1>1, <1>2 DEF Members
  <2>2. CASE k <= Len(p)
    BY <1>1, <2>1, <2>2 DEF Members
  <2>3. CASE ~(k <= Len(p))
    <3>1. k - Len(p) \in 1..Len(q) /\ Len(p) + (k - Len(p)) = k
      BY <1>1, <2>1, <2>3
    <3>2. x = q[k - Len(p)]
      BY <1>1, <2>1, <3>1
    <3> QED
      BY <1>1, <3>1, <3>2 DEF Members
  <2> QED
    BY <2>2, <2>3
<1>3. ASSUME NEW x \in Members(p) PROVE x \in Members(p \o q)
  <2>1. PICK k \in 1..Len(p) : x = p[k]
    BY <1>1, <1>3 DEF Members
  <2>2. k \in 1..Len(p) + Len(q) /\ x = (p \o q)[k]
    BY <1>1, <2>1
  <2> QED
    BY <1>1, <2>2 DEF Members
<1>4. ASSUME NEW x \in Members(q) PROVE x \in Members(p \o q)
  <2>1. PICK k \in 1..Len(q) : x = q[k]
    BY <1>1, <1>4 DEF Members
  <2>2. Len(p) + k \in 1..Len(p) + Len(q) /\ x = (p \o q)[Len(p) + k]
    BY <1>1, <2>1
  <2> QED
    BY <1>1, <2>2 DEF Members
<1> QED
  BY <1>1, <1>2, <1>3, <1>4

LEMMA MembersOfRest ==
  ASSUME NEW q \in Seq(Statement), q # <<>>
  PROVE  /\ Tail(q) \in Seq(Statement) /\ Head(q) \in Members(q)
         /\ Members(q) = {Head(q)} \cup Members(Tail(q))
<1>1. /\ Tail(q) \in Seq(Statement) /\ Len(q) \in Nat /\ Len(q) >= 1
      /\ Len(Tail(q)) = Len(q) - 1 /\ Head(q) = q[1]
      /\ \A k \in 1..Len(q) - 1 : Tail(q)[k] = q[k + 1]
      /\ DOMAIN q = 1..Len(q) /\ DOMAIN Tail(q) = 1..Len(q) - 1
  OBVIOUS
<1>2. ASSUME NEW x \in Members(q) PROVE x = Head(q) \/ x \in Members(Tail(q))
  <2>1. PICK k \in 1..Len(q) : x = q[k]
    BY <1>1, <1>2 DEF Members
  <2>2. CASE k # 1
    <3>1. k - 1 \in 1..Len(q) - 1 /\ x = Tail(q)[k - 1]
      BY <1>1, <2>1, <2>2
    <3> QED
      BY <1>1, <3>1 DEF Members
  <2> QED
    BY <1>1, <2>1, <2>2
<1>3. ASSUME NEW x \in Members(Tail(q)) PROVE x \in Members(q)
  <2>1. PICK k \in 1..Len(q) - 1 : x = Tail(q)[k]
    BY <1>1, <1>3 DEF Members
  <2>2. k + 1 \in 1..Len(q) /\ x = q[k + 1]
    BY <1>1, <2>1
  <2> QED
    BY <1>1, <2>2 DEF Members
<1>4. 1 \in 1..Len(q) /\ Head(q) \in Members(q)
  BY <1>1 DEF Members
<1> QED
  BY <1>1, <1>2, <1>3, <1>4

LEMMA FindsNone ==
  ASSUME NEW db, NEW P, \A s \in P : ~Due(s, db)
  PROVE  Finds(db, <<>>, P)
<1>1. Members(<<>>) = {} /\ <<>> \in Seq(Statement)
  BY DEF Members
<1> QED
  BY <1>1 DEF Finds

LEMMA FindsOne ==
  ASSUME NEW db, NEW a \in Statement, Due(a, db)
  PROVE  Finds(db, <<a>>, {a})
<1>1. DOMAIN <<a>> = {1} /\ <<a>> \in Seq(Statement)
  OBVIOUS
<1>2. Members(<<a>>) = {a}
  BY <1>1 DEF Members
<1> QED
  BY <1>1, <1>2 DEF Finds

LEMMA FindsBoth ==
  ASSUME NEW db, NEW p, NEW q, NEW P, NEW Q, Finds(db, p, P), Finds(db, q, Q)
  PROVE  Finds(db, p \o q, P \cup Q)
  BY MembersOfBoth DEF Finds

LEMMA FindsColumn ==
  ASSUME NEW db, NEW t, NEW c, Column(t, c) \in Statement,
         t \in DOMAIN OwnColumn => t \in db.tables
  PROVE  Finds(db, AddColumn(db, t, c), {Column(t, c)})
<1>1. Due(Column(t, c), db) <=> c \notin db.columns
  BY DEF Due, Column, IndexKind
<1> QED
  BY <1>1, FindsNone, FindsOne DEF AddColumn

LEMMA FindsOwnColumn ==
  ASSUME NEW db, NEW t \in DOMAIN OwnColumn, NEW c, Column(t, c) \in Statement
  PROVE  Finds(db, IF t \in db.tables THEN AddColumn(db, t, c) ELSE <<>>, {Column(t, c)})
<1>1. CASE t \in db.tables
  BY <1>1, FindsColumn
<1>2. CASE t \notin db.tables
  <2>1. ~Due(Column(t, c), db)
    BY <1>2 DEF Due, Column, IndexKind
  <2> QED
    BY <1>2, <2>1, FindsNone
<1> QED
  BY <1>1, <1>2

LEMMA FindsIndex ==
  ASSUME NEW db, NEW s \in Statement, s.kind \in IndexKind, s.on \in RepairedTables
  PROVE  Finds(db, AddIndex(db, s), {s})
<1>1. Due(s, db) <=> s.name \notin db.indexes
  BY DEF Due, IndexKind
<1> QED
  BY <1>1, FindsNone, FindsOne DEF AddIndex

\* The indexes a table is made with are due if the table is.
LEMMA FindsTable ==
  ASSUME NEW db, NEW t, NEW q, NEW P, Table(t) \in Statement,
         q \in Seq(Statement), Members(q) = P,
         \A s \in P : s.kind \in IndexKind /\ s.on = t /\ t \notin RepairedTables
  PROVE  Finds(db, CreateTable(db, t, q), {Table(t)} \cup P)
<1>1. \A s \in {Table(t)} \cup P : Due(s, db) <=> t \notin db.tables
  BY DEF Due, Table, IndexKind
<1>2. CASE t \in db.tables
  BY <1>1, <1>2, FindsNone DEF CreateTable
<1>3. CASE t \notin db.tables
  <2>1. Finds(db, <<Table(t)>>, {Table(t)})
    BY <1>1, <1>3, FindsOne
  <2>2. Finds(db, q, P)
    BY <1>1, <1>3 DEF Finds
  <2> QED
    BY <1>3, <2>1, <2>2, FindsBoth DEF CreateTable
<1> QED
  BY <1>2, <1>3

LEMMA FindsBareTable ==
  ASSUME NEW db, NEW t, Table(t) \in Statement
  PROVE  Finds(db, CreateTable(db, t, <<>>), {Table(t)})
<1>1. Members(<<>>) = {} /\ <<>> \in Seq(Statement)
  BY DEF Members
<1> DEFINE none == {}
<1>2. Members(<<>>) = none /\ \A s \in none : FALSE
  BY <1>1
<1> HIDE DEF none
<1>3. Finds(db, CreateTable(db, t, <<>>), {Table(t)} \cup none)
  BY <1>1, <1>2, FindsTable
<1> QED
  BY <1>3 DEF none

\* The indexes of a table as a sequence.
LEMMA MembersOfOne ==
  ASSUME NEW a \in Statement
  PROVE  <<a>> \in Seq(Statement) /\ Members(<<a>>) = {a}
<1>1. DOMAIN <<a>> = {1}
  OBVIOUS
<1> QED
  BY <1>1 DEF Members

LEMMA MembersOfTwo ==
  ASSUME NEW a \in Statement, NEW b \in Statement
  PROVE  <<a, b>> \in Seq(Statement) /\ Members(<<a, b>>) = {a, b}
<1>1. DOMAIN <<a, b>> = {1, 2}
  OBVIOUS
<1> QED
  BY <1>1 DEF Members

LEMMA MembersOfThree ==
  ASSUME NEW a \in Statement, NEW b \in Statement, NEW c \in Statement
  PROVE  <<a, b, c>> \in Seq(Statement) /\ Members(<<a, b, c>>) = {a, b, c}
<1>1. DOMAIN <<a, b, c>> = {1, 2, 3}
  OBVIOUS
<1> QED
  BY <1>1 DEF Members

-----------------------------------------------------------------------------
(* What the statements are. *)

\* The migration that makes a table.
Home == [ai_task |-> 3, ai_artifact |-> 3, csv_resource |-> 5, csv_binding |-> 5,
    upload_binding |-> 5, role |-> 6, role_permission |-> 6, task_log |-> 7,
    execution_queue |-> 8, execution_run |-> 9, execution_node |-> 10, metric |-> 11,
    transaction |-> 12, transaction_metric |-> 13, user_session |-> 14]

\* A statement of migration i makes a table, an index or a column of the schema;
\* a table and the indexes made with it belong to one migration, and an index
\* that keeps rows apart to one table.
Sound(s, i) ==
    /\ s.kind \in {"table", "column"} \cup IndexKind
    /\ s.kind = "table" => s = Table(s.on) /\ s.on \in SchemaTables
    /\ s.kind = "column" => /\ s.name \in SchemaColumns
                            /\ s.on \in DOMAIN OwnColumn => s.name = OwnColumn[s.on]
    /\ s.kind # "column" => s.on \in SchemaTables /\ Home[s.on] = i
    /\ s.kind \in {"unique", "repair"} => (s.kind = "repair" <=> s.on \in RepairedTables)
    /\ s.kind \in IndexKind =>
         \A t \in DOMAIN UniqueOf :
            s.name = UniqueOf[t] => s.on = t /\ s.kind \in {"unique", "repair"}

LEMMA SoundTable ==
  ASSUME NEW i, NEW t \in SchemaTables, Home[t] = i
  PROVE  Sound(Table(t), i)
  BY DEF Sound, Table, IndexKind

LEMMA SoundColumn ==
  ASSUME NEW i, NEW t, NEW c \in SchemaColumns,
         t \in DOMAIN OwnColumn => c = OwnColumn[t]
  PROVE  Sound(Column(t, c), i)
  BY DEF Sound, Column, IndexKind

LEMMA SoundIndex ==
  ASSUME NEW i, NEW t \in SchemaTables, Home[t] = i, NEW n,
         \A u \in DOMAIN UniqueOf : n # UniqueOf[u]
  PROVE  Sound(Index(t, n), i)
  BY DEF Sound, Index, IndexKind

LEMMA UniqueApart ==
  \A t, u \in DOMAIN UniqueOf : UniqueOf[t] = UniqueOf[u] => t = u
  BY DEF UniqueOf

LEMMA SoundUnique ==
  ASSUME NEW i, NEW t \in SchemaTables, Home[t] = i, t \in DOMAIN UniqueOf,
         NEW n, n = UniqueOf[t]
  PROVE  /\ t \notin RepairedTables => Sound(Unique(t, n), i)
         /\ t \in RepairedTables => Sound(Repair(t, n), i)
  BY UniqueApart DEF Sound, Unique, Repair, IndexKind

-----------------------------------------------------------------------------
(* The migrations, one by one: each runs those of its statements that are due, *)
(* and they are sound.                                                         *)

LEMMA StatementsKnown == \A i \in 1..14 : StatementsOf(i) \subseteq Statement
  BY DEF Statement

LEMMA Migration1 ==
  ASSUME NEW db
  PROVE  /\ Finds(db, Migration(1, db), StatementsOf(1))
         /\ \A s \in StatementsOf(1) : Sound(s, 1)
<1>a. Migration(1, db) = EnsureNodePassword(db)
  BY DEF Migration
<1>b. StatementsOf(1) =
          {Column("node", "node_password")}
  BY DEF StatementsOf
<1>c. StatementsOf(1) \subseteq Statement
  BY StatementsKnown
<1>0. {Column("node", "node_password")} \subseteq Statement
  BY <1>b, <1>c
<1>1. Finds(db, AddColumn(db, "node", "node_password"),
           {Column("node", "node_password")})
  BY <1>0, FindsColumn DEF OwnColumn
<1>d. Finds(db, Migration(1, db), StatementsOf(1))
  BY <1>a, <1>b, <1>1 DEF EnsureNodePassword
<1>2. {"node_password"} \subseteq SchemaColumns
  BY DEF SchemaColumns, OldColumns, OwnColumn
<1>3. /\ Sound(Column("node", "node_password"), 1)
  BY <1>2, SoundColumn DEF OwnColumn
<1>e. \A s \in StatementsOf(1) : Sound(s, 1)
  BY <1>b, <1>3
<1> QED
  BY <1>d, <1>e

LEMMA Migration2 ==
  ASSUME NEW db
  PROVE  /\ Finds(db, Migration(2, db), StatementsOf(2))
         /\ \A s \in StatementsOf(2) : Sound(s, 2)
<1>a. Migration(2, db) = EnsureConfigValue(db)
  BY DEF Migration
<1>b. StatementsOf(2) =
          {Column("config", "config_value")}
  BY DEF StatementsOf
<1>c. StatementsOf(2) \subseteq Statement
  BY StatementsKnown
<1>0. {Column("config", "config_value")} \subseteq Statement
  BY <1>b, <1>c
<1>1. Finds(db, AddColumn(db, "config", "config_value"),
           {Column("config", "config_value")})
  BY <1>0, FindsColumn DEF OwnColumn
<1>d. Finds(db, Migration(2, db), StatementsOf(2))
  BY <1>a, <1>b, <1>1 DEF EnsureConfigValue
<1>2. {"config_value"} \subseteq SchemaColumns
  BY DEF SchemaColumns, OldColumns, OwnColumn
<1>3. /\ Sound(Column("config", "config_value"), 2)
  BY <1>2, SoundColumn DEF OwnColumn
<1>e. \A s \in StatementsOf(2) : Sound(s, 2)
  BY <1>b, <1>3
<1> QED
  BY <1>d, <1>e

LEMMA Migration3 ==
  ASSUME NEW db
  PROVE  /\ Finds(db, Migration(3, db), StatementsOf(3))
         /\ \A s \in StatementsOf(3) : Sound(s, 3)
<1>a. Migration(3, db) = EnsureAiGeneration(db)
  BY DEF Migration
<1>b. StatementsOf(3) =
          ({Table("ai_task")}
              \cup {Index("ai_task", "ai_task_status"), Index("ai_task", "ai_task_type")})
          \cup ({Table("ai_artifact")}
              \cup {Index("ai_artifact", "ai_artifact_task")})
  BY DEF StatementsOf
<1>c. StatementsOf(3) \subseteq Statement
  BY StatementsKnown
<1>0. {Table("ai_task"), Index("ai_task", "ai_task_status"),
       Index("ai_task", "ai_task_type"), Table("ai_artifact"),
       Index("ai_artifact", "ai_artifact_task")} \subseteq Statement
  BY <1>b, <1>c
<1> DEFINE q1 == <<Index("ai_task", "ai_task_status"),
                   Index("ai_task", "ai_task_type")>>
           P1 == {Index("ai_task", "ai_task_status"), Index("ai_task", "ai_task_type")}
           q2 == <<Index("ai_artifact", "ai_artifact_task")>>
           P2 == {Index("ai_artifact", "ai_artifact_task")}
<1>1. q1 \in Seq(Statement) /\ Members(q1) = P1
  BY <1>0, MembersOfTwo
<1>2. \A s \in P1 : /\ s.kind \in IndexKind /\ s.on = "ai_task"
                    /\ "ai_task" \notin RepairedTables
  BY DEF Index, Unique, Repair, IndexKind, RepairedTables
<1>3. Finds(db, CreateTable(db, "ai_task", q1), ({Table("ai_task")} \cup P1))
  BY <1>0, <1>1, <1>2, FindsTable
<1>4. q2 \in Seq(Statement) /\ Members(q2) = P2
  BY <1>0, MembersOfOne
<1>5. \A s \in P2 : /\ s.kind \in IndexKind /\ s.on = "ai_artifact"
                    /\ "ai_artifact" \notin RepairedTables
  BY DEF Index, Unique, Repair, IndexKind, RepairedTables
<1>6. Finds(db, CreateTable(db, "ai_artifact", q2), ({Table("ai_artifact")} \cup P2))
  BY <1>0, <1>4, <1>5, FindsTable
<1>7. Finds(db, CreateTable(db, "ai_task", q1)
             \o CreateTable(db, "ai_artifact", q2),
           ({Table("ai_task")} \cup P1)
             \cup ({Table("ai_artifact")} \cup P2))
  BY <1>3, <1>6, FindsBoth
<1>d. Finds(db, Migration(3, db), StatementsOf(3))
  BY <1>a, <1>b, <1>7 DEF EnsureAiGeneration
<1>8. /\ "ai_task" \in SchemaTables /\ Home["ai_task"] = 3
      /\ "ai_artifact" \in SchemaTables /\ Home["ai_artifact"] = 3
  BY DEF SchemaTables, Home
<1>9. /\ Sound(Table("ai_task"), 3)
      /\ Sound(Table("ai_artifact"), 3)
  BY <1>8, SoundTable
<1>10. \A u \in DOMAIN UniqueOf : UniqueOf[u] \notin
         {"ai_task_status",
          "ai_task_type",
          "ai_artifact_task"}
  BY DEF UniqueOf
<1>11. /\ Sound(Index("ai_task", "ai_task_status"), 3)
      /\ Sound(Index("ai_task", "ai_task_type"), 3)
      /\ Sound(Index("ai_artifact", "ai_artifact_task"), 3)
  BY <1>8, <1>10, SoundIndex
<1>e. \A s \in StatementsOf(3) : Sound(s, 3)
  BY <1>b, <1>9, <1>11
<1> QED
  BY <1>d, <1>e

LEMMA Migration4 ==
  ASSUME NEW db
  PROVE  /\ Finds(db, Migration(4, db), StatementsOf(4))
         /\ \A s \in StatementsOf(4) : Sound(s, 4)
<1>a. Migration(4, db) = EnsureReportColumns(db)
  BY DEF Migration
<1>b. StatementsOf(4) =
          {Column("report", "report_region")}
          \cup {Column("report", "report_service_name")}
          \cup {Column("report", "report_total_threads")}
          \cup {Column("report", "report_slave_count")}
          \cup {Column("report", "report_grafana_instance")}
          \cup {Column("report", "report_artifact_dir")}
  BY DEF StatementsOf
<1>c. StatementsOf(4) \subseteq Statement
  BY StatementsKnown
<1>0. {Column("report", "report_region"),
       Column("report", "report_service_name"),
       Column("report", "report_total_threads"),
       Column("report", "report_slave_count"),
       Column("report", "report_grafana_instance"),
       Column("report", "report_artifact_dir")} \subseteq Statement
  BY <1>b, <1>c
<1>1. Finds(db, AddColumn(db, "report", "report_region"),
           {Column("report", "report_region")})
  BY <1>0, FindsColumn DEF OwnColumn
<1>2. Finds(db, AddColumn(db, "report", "report_service_name"),
           {Column("report", "report_service_name")})
  BY <1>0, FindsColumn DEF OwnColumn
<1>3. Finds(db, AddColumn(db, "report", "report_total_threads"),
           {Column("report", "report_total_threads")})
  BY <1>0, FindsColumn DEF OwnColumn
<1>4. Finds(db, AddColumn(db, "report", "report_slave_count"),
           {Column("report", "report_slave_count")})
  BY <1>0, FindsColumn DEF OwnColumn
<1>5. Finds(db, AddColumn(db, "report", "report_grafana_instance"),
           {Column("report", "report_grafana_instance")})
  BY <1>0, FindsColumn DEF OwnColumn
<1>6. Finds(db, AddColumn(db, "report", "report_artifact_dir"),
           {Column("report", "report_artifact_dir")})
  BY <1>0, FindsColumn DEF OwnColumn
<1>7. Finds(db, AddColumn(db, "report", "report_region")
             \o AddColumn(db, "report", "report_service_name")
             \o AddColumn(db, "report", "report_total_threads"),
           {Column("report", "report_region")}
             \cup {Column("report", "report_service_name")}
             \cup {Column("report", "report_total_threads")})
  BY <1>1, <1>2, <1>3, FindsBoth
<1>8. Finds(db, AddColumn(db, "report", "report_region")
             \o AddColumn(db, "report", "report_service_name")
             \o AddColumn(db, "report", "report_total_threads")
             \o AddColumn(db, "report", "report_slave_count")
             \o AddColumn(db, "report", "report_grafana_instance")
             \o AddColumn(db, "report", "report_artifact_dir"),
           {Column("report", "report_region")}
             \cup {Column("report", "report_service_name")}
             \cup {Column("report", "report_total_threads")}
             \cup {Column("report", "report_slave_count")}
             \cup {Column("report", "report_grafana_instance")}
             \cup {Column("report", "report_artifact_dir")})
  BY <1>7, <1>4, <1>5, <1>6, FindsBoth
<1>d. Finds(db, Migration(4, db), StatementsOf(4))
  BY <1>a, <1>b, <1>8 DEF EnsureReportColumns
<1>9. {"report_region",
       "report_service_name",
       "report_total_threads",
       "report_slave_count",
       "report_grafana_instance",
       "report_artifact_dir"} \subseteq SchemaColumns
  BY DEF SchemaColumns, OldColumns, OwnColumn
<1>10. /\ Sound(Column("report", "report_region"), 4)
      /\ Sound(Column("report", "report_service_name"), 4)
      /\ Sound(Column("report", "report_total_threads"), 4)
      /\ Sound(Column("report", "report_slave_count"), 4)
      /\ Sound(Column("report", "report_grafana_instance"), 4)
      /\ Sound(Column("report", "report_artifact_dir"), 4)
  BY <1>9, SoundColumn DEF OwnColumn
<1>e. \A s \in StatementsOf(4) : Sound(s, 4)
  BY <1>b, <1>10
<1> QED
  BY <1>d, <1>e

LEMMA Migration5 ==
  ASSUME NEW db
  PROVE  /\ Finds(db, Migration(5, db), StatementsOf(5))
         /\ \A s \in StatementsOf(5) : Sound(s, 5)
<1>a. Migration(5, db) = EnsureCsvResource(db)
  BY DEF Migration
<1>b. StatementsOf(5) =
          ({Table("csv_resource")}
              \cup {Unique("csv_resource", "uk_csv_filename")})
          \cup {Column("csv_resource", "csv_file_type")}
          \cup ({Table("csv_binding")}
              \cup {Unique("csv_binding", "uk_csv_binding"),
                    Index("csv_binding", "csv_binding_file")})
          \cup ({Table("upload_binding")}
              \cup {Unique("upload_binding", "uk_upload_binding"),
                    Index("upload_binding", "upload_binding_file")})
  BY DEF StatementsOf
<1>c. StatementsOf(5) \subseteq Statement
  BY StatementsKnown
<1>0. {Table("csv_resource"), Unique("csv_resource", "uk_csv_filename"),
       Column("csv_resource", "csv_file_type"), Table("csv_binding"),
       Unique("csv_binding", "uk_csv_binding"),
       Index("csv_binding", "csv_binding_file"), Table("upload_binding"),
       Unique("upload_binding", "uk_upload_binding"),
       Index("upload_binding", "upload_binding_file")} \subseteq Statement
  BY <1>b, <1>c
<1> DEFINE q1 == <<Unique("csv_resource", "uk_csv_filename")>>
           P1 == {Unique("csv_resource", "uk_csv_filename")}
           q2 == <<Unique("csv_binding", "uk_csv_binding"),
                   Index("csv_binding", "csv_binding_file")>>
           P2 == {Unique("csv_binding", "uk_csv_binding"),
                   Index("csv_binding", "csv_binding_file")}
           q3 == <<Unique("upload_binding", "uk_upload_binding"),
                   Index("upload_binding", "upload_binding_file")>>
           P3 == {Unique("upload_binding", "uk_upload_binding"),
                   Index("upload_binding", "upload_binding_file")}
<1>1. q1 \in Seq(Statement) /\ Members(q1) = P1
  BY <1>0, MembersOfOne
<1>2. \A s \in P1 : /\ s.kind \in IndexKind /\ s.on = "csv_resource"
                    /\ "csv_resource" \notin RepairedTables
  BY DEF Index, Unique, Repair, IndexKind, RepairedTables
<1>3. Finds(db, CreateTable(db, "csv_resource", q1),
           ({Table("csv_resource")} \cup P1))
  BY <1>0, <1>1, <1>2, FindsTable
<1>4. Finds(db, (IF "csv_resource" \in db.tables
             THEN AddColumn(db, "csv_resource", "csv_file_type") ELSE <<>>),
           {Column("csv_resource", "csv_file_type")})
  BY <1>0, FindsOwnColumn DEF OwnColumn
<1>5. q2 \in Seq(Statement) /\ Members(q2) = P2
  BY <1>0, MembersOfTwo
<1>6. \A s \in P2 : /\ s.kind \in IndexKind /\ s.on = "csv_binding"
                    /\ "csv_binding" \notin RepairedTables
  BY DEF Index, Unique, Repair, IndexKind, RepairedTables
<1>7. Finds(db, CreateTable(db, "csv_binding", q2), ({Table("csv_binding")} \cup P2))
  BY <1>0, <1>5, <1>6, FindsTable
<1>8. q3 \in Seq(Statement) /\ Members(q3) = P3
  BY <1>0, MembersOfTwo
<1>9. \A s \in P3 : /\ s.kind \in IndexKind /\ s.on = "upload_binding"
                    /\ "upload_binding" \notin RepairedTables
  BY DEF Index, Unique, Repair, IndexKind, RepairedTables
<1>10. Finds(db, CreateTable(db, "upload_binding", q3),
           ({Table("upload_binding")} \cup P3))
  BY <1>0, <1>8, <1>9, FindsTable
<1>11. Finds(db, CreateTable(db, "csv_resource", q1)
             \o (IF "csv_resource" \in db.tables
             THEN AddColumn(db, "csv_resource", "csv_file_type") ELSE <<>>),
           ({Table("csv_resource")} \cup P1)
             \cup {Column("csv_resource", "csv_file_type")})
  BY <1>3, <1>4, FindsBoth
<1>12. Finds(db, CreateTable(db, "csv_resource", q1)
             \o (IF "csv_resource" \in db.tables
             THEN AddColumn(db, "csv_resource", "csv_file_type") ELSE <<>>)
             \o CreateTable(db, "csv_binding", q2)
             \o CreateTable(db, "upload_binding", q3),
           ({Table("csv_resource")} \cup P1)
             \cup {Column("csv_resource", "csv_file_type")}
             \cup ({Table("csv_binding")} \cup P2)
             \cup ({Table("upload_binding")} \cup P3))
  BY <1>11, <1>7, <1>10, FindsBoth
<1>d. Finds(db, Migration(5, db), StatementsOf(5))
  BY <1>a, <1>b, <1>12 DEF EnsureCsvResource
<1>13. /\ "csv_resource" \in SchemaTables /\ Home["csv_resource"] = 5
      /\ "csv_binding" \in SchemaTables /\ Home["csv_binding"] = 5
      /\ "upload_binding" \in SchemaTables /\ Home["upload_binding"] = 5
  BY DEF SchemaTables, Home
<1>14. /\ Sound(Table("csv_resource"), 5)
      /\ Sound(Table("csv_binding"), 5)
      /\ Sound(Table("upload_binding"), 5)
  BY <1>13, SoundTable
<1>15. {"csv_file_type"} \subseteq SchemaColumns
  BY DEF SchemaColumns, OldColumns, OwnColumn
<1>16. /\ Sound(Column("csv_resource", "csv_file_type"), 5)
  BY <1>15, SoundColumn DEF OwnColumn
<1>17. \A u \in DOMAIN UniqueOf : UniqueOf[u] \notin
         {"csv_binding_file",
          "upload_binding_file"}
  BY DEF UniqueOf
<1>18. /\ Sound(Index("csv_binding", "csv_binding_file"), 5)
      /\ Sound(Index("upload_binding", "upload_binding_file"), 5)
  BY <1>13, <1>17, SoundIndex
<1>19. /\ "csv_resource" \in DOMAIN UniqueOf /\ UniqueOf["csv_resource"] = "uk_csv_filename"
      /\ "csv_binding" \in DOMAIN UniqueOf /\ UniqueOf["csv_binding"] = "uk_csv_binding"
      /\ "upload_binding" \in DOMAIN UniqueOf /\ UniqueOf["upload_binding"] = "uk_upload_binding"
  BY DEF UniqueOf
<1>20. /\ "csv_resource" \notin RepairedTables
      /\ "csv_binding" \notin RepairedTables
      /\ "upload_binding" \notin RepairedTables
  BY DEF RepairedTables
<1>21. /\ Sound(Unique("csv_resource", "uk_csv_filename"), 5)
      /\ Sound(Unique("csv_binding", "uk_csv_binding"), 5)
      /\ Sound(Unique("upload_binding", "uk_upload_binding"), 5)
  BY <1>13, <1>19, <1>20, SoundUnique
<1>e. \A s \in StatementsOf(5) : Sound(s, 5)
  BY <1>b, <1>14, <1>16, <1>18, <1>21
<1> QED
  BY <1>d, <1>e

LEMMA Migration6 ==
  ASSUME NEW db
  PROVE  /\ Finds(db, Migration(6, db), StatementsOf(6))
         /\ \A s \in StatementsOf(6) : Sound(s, 6)
<1>a. Migration(6, db) = EnsureRbac(db)
  BY DEF Migration
<1>b. StatementsOf(6) =
          ({Table("role")} \cup {Unique("role", "uk_role_code")})
          \cup ({Table("role_permission")}
              \cup {Index("role_permission", "role_permission_role")})
          \cup {Column("user", "user_role_id")}
  BY DEF StatementsOf
<1>c. StatementsOf(6) \subseteq Statement
  BY StatementsKnown
<1>0. {Table("role"), Unique("role", "uk_role_code"),
       Table("role_permission"),
       Index("role_permission", "role_permission_role"),
       Column("user", "user_role_id")} \subseteq Statement
  BY <1>b, <1>c
<1> DEFINE q1 == <<Unique("role", "uk_role_code")>>
           P1 == {Unique("role", "uk_role_code")}
           q2 == <<Index("role_permission", "role_permission_role")>>
           P2 == {Index("role_permission", "role_permission_role")}
<1>1. q1 \in Seq(Statement) /\ Members(q1) = P1
  BY <1>0, MembersOfOne
<1>2. \A s \in P1 : /\ s.kind \in IndexKind /\ s.on = "role"
                    /\ "role" \notin RepairedTables
  BY DEF Index, Unique, Repair, IndexKind, RepairedTables
<1>3. Finds(db, CreateTable(db, "role", q1), ({Table("role")} \cup P1))
  BY <1>0, <1>1, <1>2, FindsTable
<1>4. q2 \in Seq(Statement) /\ Members(q2) = P2
  BY <1>0, MembersOfOne
<1>5. \A s \in P2 : /\ s.kind \in IndexKind /\ s.on = "role_permission"
                    /\ "role_permission" \notin RepairedTables
  BY DEF Index, Unique, Repair, IndexKind, RepairedTables
<1>6. Finds(db, CreateTable(db, "role_permission", q2),
           ({Table("role_permission")} \cup P2))
  BY <1>0, <1>4, <1>5, FindsTable
<1>7. Finds(db, AddColumn(db, "user", "user_role_id"),
           {Column("user", "user_role_id")})
  BY <1>0, FindsColumn DEF OwnColumn
<1>8. Finds(db, CreateTable(db, "role", q1)
             \o CreateTable(db, "role_permission", q2)
             \o AddColumn(db, "user", "user_role_id"),
           ({Table("role")} \cup P1)
             \cup ({Table("role_permission")} \cup P2)
             \cup {Column("user", "user_role_id")})
  BY <1>3, <1>6, <1>7, FindsBoth
<1>d. Finds(db, Migration(6, db), StatementsOf(6))
  BY <1>a, <1>b, <1>8 DEF EnsureRbac
<1>9. /\ "role" \in SchemaTables /\ Home["role"] = 6
      /\ "role_permission" \in SchemaTables /\ Home["role_permission"] = 6
  BY DEF SchemaTables, Home
<1>10. /\ Sound(Table("role"), 6)
      /\ Sound(Table("role_permission"), 6)
  BY <1>9, SoundTable
<1>11. {"user_role_id"} \subseteq SchemaColumns
  BY DEF SchemaColumns, OldColumns, OwnColumn
<1>12. /\ Sound(Column("user", "user_role_id"), 6)
  BY <1>11, SoundColumn DEF OwnColumn
<1>13. \A u \in DOMAIN UniqueOf : UniqueOf[u] \notin
         {"role_permission_role"}
  BY DEF UniqueOf
<1>14. /\ Sound(Index("role_permission", "role_permission_role"), 6)
  BY <1>9, <1>13, SoundIndex
<1>15. /\ "role" \in DOMAIN UniqueOf /\ UniqueOf["role"] = "uk_role_code"
  BY DEF UniqueOf
<1>16. /\ "role" \notin RepairedTables
  BY DEF RepairedTables
<1>17. /\ Sound(Unique("role", "uk_role_code"), 6)
  BY <1>9, <1>15, <1>16, SoundUnique
<1>e. \A s \in StatementsOf(6) : Sound(s, 6)
  BY <1>b, <1>10, <1>12, <1>14, <1>17
<1> QED
  BY <1>d, <1>e

LEMMA Migration7 ==
  ASSUME NEW db
  PROVE  /\ Finds(db, Migration(7, db), StatementsOf(7))
         /\ \A s \in StatementsOf(7) : Sound(s, 7)
<1>a. Migration(7, db) = EnsureScheduledTaskLog(db)
  BY DEF Migration
<1>b. StatementsOf(7) =
          {Table("task_log")}
              \cup {Index("task_log", "task_log_task"), Index("task_log", "task_log_case")}
  BY DEF StatementsOf
<1>c. StatementsOf(7) \subseteq Statement
  BY StatementsKnown
<1>0. {Table("task_log"), Index("task_log", "task_log_task"),
       Index("task_log", "task_log_case")} \subseteq Statement
  BY <1>b, <1>c
<1> DEFINE q == <<Index("task_log", "task_log_task"),
                  Index("task_log", "task_log_case")>>
           P == {Index("task_log", "task_log_task"),
                  Index("task_log", "task_log_case")}
<1>1. q \in Seq(Statement) /\ Members(q) = P
  BY <1>0, MembersOfTwo
<1>2. \A s \in P : /\ s.kind \in IndexKind /\ s.on = "task_log"
                    /\ "task_log" \notin RepairedTables
  BY DEF Index, Unique, Repair, IndexKind, RepairedTables
<1>3. Finds(db, CreateTable(db, "task_log", q), {Table("task_log")} \cup P)
  BY <1>0, <1>1, <1>2, FindsTable
<1>d. Finds(db, Migration(7, db), StatementsOf(7))
  BY <1>a, <1>b, <1>3 DEF EnsureScheduledTaskLog
<1>4. "task_log" \in SchemaTables /\ Home["task_log"] = 7
  BY DEF SchemaTables, Home
<1>5. Sound(Table("task_log"), 7)
  BY <1>4, SoundTable
<1>6. \A u \in DOMAIN UniqueOf : UniqueOf[u] \notin
         {"task_log_task",
          "task_log_case"}
  BY DEF UniqueOf
<1>7. /\ Sound(Index("task_log", "task_log_task"), 7)
      /\ Sound(Index("task_log", "task_log_case"), 7)
  BY <1>4, <1>6, SoundIndex
<1>e. \A s \in StatementsOf(7) : Sound(s, 7)
  BY <1>b, <1>5, <1>7
<1> QED
  BY <1>d, <1>e

LEMMA Migration8 ==
  ASSUME NEW db
  PROVE  /\ Finds(db, Migration(8, db), StatementsOf(8))
         /\ \A s \in StatementsOf(8) : Sound(s, 8)
<1>a. Migration(8, db) = EnsureExecutionQueue(db)
  BY DEF Migration
<1>b. StatementsOf(8) =
          {Table("execution_queue")}
              \cup {Index("execution_queue", "queue_status"),
                    Index("execution_queue", "queue_case"),
                    Index("execution_queue", "queue_report")}
  BY DEF StatementsOf
<1>c. StatementsOf(8) \subseteq Statement
  BY StatementsKnown
<1>0. {Table("execution_queue"), Index("execution_queue", "queue_status"),
       Index("execution_queue", "queue_case"),
       Index("execution_queue", "queue_report")} \subseteq Statement
  BY <1>b, <1>c
<1> DEFINE q == <<Index("execution_queue", "queue_status"),
                  Index("execution_queue", "queue_case"),
                  Index("execution_queue", "queue_report")>>
           P == {Index("execution_queue", "queue_status"),
                  Index("execution_queue", "queue_case"),
                  Index("execution_queue", "queue_report")}
<1>1. q \in Seq(Statement) /\ Members(q) = P
  BY <1>0, MembersOfThree
<1>2. \A s \in P : /\ s.kind \in IndexKind /\ s.on = "execution_queue"
                    /\ "execution_queue" \notin RepairedTables
  BY DEF Index, Unique, Repair, IndexKind, RepairedTables
<1>3. Finds(db, CreateTable(db, "execution_queue", q),
           {Table("execution_queue")} \cup P)
  BY <1>0, <1>1, <1>2, FindsTable
<1>d. Finds(db, Migration(8, db), StatementsOf(8))
  BY <1>a, <1>b, <1>3 DEF EnsureExecutionQueue
<1>4. "execution_queue" \in SchemaTables /\ Home["execution_queue"] = 8
  BY DEF SchemaTables, Home
<1>5. Sound(Table("execution_queue"), 8)
  BY <1>4, SoundTable
<1>6. \A u \in DOMAIN UniqueOf : UniqueOf[u] \notin
         {"queue_status",
          "queue_case",
          "queue_report"}
  BY DEF UniqueOf
<1>7. /\ Sound(Index("execution_queue", "queue_status"), 8)
      /\ Sound(Index("execution_queue", "queue_case"), 8)
      /\ Sound(Index("execution_queue", "queue_report"), 8)
  BY <1>4, <1>6, SoundIndex
<1>e. \A s \in StatementsOf(8) : Sound(s, 8)
  BY <1>b, <1>5, <1>7
<1> QED
  BY <1>d, <1>e

LEMMA Migration9 ==
  ASSUME NEW db
  PROVE  /\ Finds(db, Migration(9, db), StatementsOf(9))
         /\ \A s \in StatementsOf(9) : Sound(s, 9)
<1>a. Migration(9, db) = EnsureExecutionRun(db)
  BY DEF Migration
<1>b. StatementsOf(9) =
          {Table("execution_run")}
          \cup ({Repair("execution_run", "uk_run_report")}
               \cup {Index("execution_run", "run_status")})
  BY DEF StatementsOf
<1>c. StatementsOf(9) \subseteq Statement
  BY StatementsKnown
<1>0. {Table("execution_run"), Repair("execution_run", "uk_run_report"),
       Index("execution_run", "run_status")} \subseteq Statement
  BY <1>b, <1>c
<1>1. Finds(db, CreateTable(db, "execution_run", <<>>), {Table("execution_run")})
  BY <1>0, FindsBareTable
<1>2. Finds(db, AddIndex(db, Repair("execution_run", "uk_run_report")),
           {Repair("execution_run", "uk_run_report")})
  BY <1>0, FindsIndex DEF Repair, IndexKind, RepairedTables
<1>3. Finds(db, AddIndex(db, Index("execution_run", "run_status")),
           {Index("execution_run", "run_status")})
  BY <1>0, FindsIndex DEF Index, IndexKind, RepairedTables
<1>4. Finds(db, AddIndex(db, Repair("execution_run", "uk_run_report"))
              \o AddIndex(db, Index("execution_run", "run_status")),
           {Repair("execution_run", "uk_run_report")}
              \cup {Index("execution_run", "run_status")})
  BY <1>2, <1>3, FindsBoth
<1>5. Finds(db, CreateTable(db, "execution_run", <<>>)
             \o (AddIndex(db, Repair("execution_run", "uk_run_report"))
              \o AddIndex(db, Index("execution_run", "run_status"))),
           {Table("execution_run")}
             \cup ({Repair("execution_run", "uk_run_report")}
              \cup {Index("execution_run", "run_status")}))
  BY <1>1, <1>4, FindsBoth
<1>d. Finds(db, Migration(9, db), StatementsOf(9))
  BY <1>a, <1>b, <1>5 DEF EnsureExecutionRun, RepairTable
<1>6. "execution_run" \in SchemaTables /\ Home["execution_run"] = 9
  BY DEF SchemaTables, Home
<1>7. Sound(Table("execution_run"), 9)
  BY <1>6, SoundTable
<1>8. \A u \in DOMAIN UniqueOf : UniqueOf[u] \notin
         {"run_status"}
  BY DEF UniqueOf
<1>9. /\ Sound(Index("execution_run", "run_status"), 9)
  BY <1>6, <1>8, SoundIndex
<1>10. /\ "execution_run" \in DOMAIN UniqueOf /\ UniqueOf["execution_run"] = "uk_run_report"
  BY DEF UniqueOf
<1>11. /\ "execution_run" \in RepairedTables
  BY DEF RepairedTables
<1>12. /\ Sound(Repair("execution_run", "uk_run_report"), 9)
  BY <1>6, <1>10, <1>11, SoundUnique
<1>e. \A s \in StatementsOf(9) : Sound(s, 9)
  BY <1>b, <1>7, <1>9, <1>12
<1> QED
  BY <1>d, <1>e

LEMMA Migration10 ==
  ASSUME NEW db
  PROVE  /\ Finds(db, Migration(10, db), StatementsOf(10))
         /\ \A s \in StatementsOf(10) : Sound(s, 10)
<1>a. Migration(10, db) = EnsureExecutionNode(db)
  BY DEF Migration
<1>b. StatementsOf(10) =
          {Table("execution_node")}
          \cup ({Index("execution_node", "exec_node_report")}
               \cup {Index("execution_node", "exec_node_node")}
               \cup {Index("execution_node", "exec_node_status")})
  BY DEF StatementsOf
<1>c. StatementsOf(10) \subseteq Statement
  BY StatementsKnown
<1>0. {Table("execution_node"),
       Index("execution_node", "exec_node_report"),
       Index("execution_node", "exec_node_node"),
       Index("execution_node", "exec_node_status")} \subseteq Statement
  BY <1>b, <1>c
<1>1. Finds(db, CreateTable(db, "execution_node", <<>>), {Table("execution_node")})
  BY <1>0, FindsBareTable
<1>2. Finds(db, AddIndex(db, Index("execution_node", "exec_node_report")),
           {Index("execution_node", "exec_node_report")})
  BY <1>0, FindsIndex DEF Index, IndexKind, RepairedTables
<1>3. Finds(db, AddIndex(db, Index("execution_node", "exec_node_node")),
           {Index("execution_node", "exec_node_node")})
  BY <1>0, FindsIndex DEF Index, IndexKind, RepairedTables
<1>4. Finds(db, AddIndex(db, Index("execution_node", "exec_node_status")),
           {Index("execution_node", "exec_node_status")})
  BY <1>0, FindsIndex DEF Index, IndexKind, RepairedTables
<1>5. Finds(db, AddIndex(db, Index("execution_node", "exec_node_report"))
              \o AddIndex(db, Index("execution_node", "exec_node_node"))
              \o AddIndex(db, Index("execution_node", "exec_node_status")),
           {Index("execution_node", "exec_node_report")}
              \cup {Index("execution_node", "exec_node_node")}
              \cup {Index("execution_node", "exec_node_status")})
  BY <1>2, <1>3, <1>4, FindsBoth
<1>6. Finds(db, CreateTable(db, "execution_node", <<>>)
             \o (AddIndex(db, Index("execution_node", "exec_node_report"))
              \o AddIndex(db, Index("execution_node", "exec_node_node"))
              \o AddIndex(db, Index("execution_node", "exec_node_status"))),
           {Table("execution_node")}
             \cup ({Index("execution_node", "exec_node_report")}
              \cup {Index("execution_node", "exec_node_node")}
              \cup {Index("execution_node", "exec_node_status")}))
  BY <1>1, <1>5, FindsBoth
<1>d. Finds(db, Migration(10, db), StatementsOf(10))
  BY <1>a, <1>b, <1>6 DEF EnsureExecutionNode, RepairTable
<1>7. "execution_node" \in SchemaTables /\ Home["execution_node"] = 10
  BY DEF SchemaTables, Home
<1>8. Sound(Table("execution_node"), 10)
  BY <1>7, SoundTable
<1>9. \A u \in DOMAIN UniqueOf : UniqueOf[u] \notin
         {"exec_node_report",
          "exec_node_node",
          "exec_node_status"}
  BY DEF UniqueOf
<1>10. /\ Sound(Index("execution_node", "exec_node_report"), 10)
      /\ Sound(Index("execution_node", "exec_node_node"), 10)
      /\ Sound(Index("execution_node", "exec_node_status"), 10)
  BY <1>7, <1>9, SoundIndex
<1>e. \A s \in StatementsOf(10) : Sound(s, 10)
  BY <1>b, <1>8, <1>10
<1> QED
  BY <1>d, <1>e

LEMMA Migration11 ==
  ASSUME NEW db
  PROVE  /\ Finds(db, Migration(11, db), StatementsOf(11))
         /\ \A s \in StatementsOf(11) : Sound(s, 11)
<1>a. Migration(11, db) = EnsureMetricSnapshot(db)
  BY DEF Migration
<1>b. StatementsOf(11) =
          {Table("metric")}
          \cup {Repair("metric", "uk_metric_bucket")}
  BY DEF StatementsOf
<1>c. StatementsOf(11) \subseteq Statement
  BY StatementsKnown
<1>0. {Table("metric"), Repair("metric", "uk_metric_bucket")} \subseteq Statement
  BY <1>b, <1>c
<1>1. Finds(db, CreateTable(db, "metric", <<>>), {Table("metric")})
  BY <1>0, FindsBareTable
<1>2. Finds(db, AddIndex(db, Repair("metric", "uk_metric_bucket")),
           {Repair("metric", "uk_metric_bucket")})
  BY <1>0, FindsIndex DEF Repair, IndexKind, RepairedTables
<1>3. Finds(db, CreateTable(db, "metric", <<>>)
             \o AddIndex(db, Repair("metric", "uk_metric_bucket")),
           {Table("metric")}
             \cup {Repair("metric", "uk_metric_bucket")})
  BY <1>1, <1>2, FindsBoth
<1>d. Finds(db, Migration(11, db), StatementsOf(11))
  BY <1>a, <1>b, <1>3 DEF EnsureMetricSnapshot, RepairTable
<1>4. "metric" \in SchemaTables /\ Home["metric"] = 11
  BY DEF SchemaTables, Home
<1>5. Sound(Table("metric"), 11)
  BY <1>4, SoundTable
<1>6. /\ "metric" \in DOMAIN UniqueOf /\ UniqueOf["metric"] = "uk_metric_bucket"
  BY DEF UniqueOf
<1>7. /\ "metric" \in RepairedTables
  BY DEF RepairedTables
<1>8. /\ Sound(Repair("metric", "uk_metric_bucket"), 11)
  BY <1>4, <1>6, <1>7, SoundUnique
<1>e. \A s \in StatementsOf(11) : Sound(s, 11)
  BY <1>b, <1>5, <1>8
<1> QED
  BY <1>d, <1>e

LEMMA Migration12 ==
  ASSUME NEW db
  PROVE  /\ Finds(db, Migration(12, db), StatementsOf(12))
         /\ \A s \in StatementsOf(12) : Sound(s, 12)
<1>a. Migration(12, db) = EnsureTransactionSnapshot(db)
  BY DEF Migration
<1>b. StatementsOf(12) =
          {Table("transaction")}
          \cup {Repair("transaction", "uk_transaction_name")}
  BY DEF StatementsOf
<1>c. StatementsOf(12) \subseteq Statement
  BY StatementsKnown
<1>0. {Table("transaction"), Repair("transaction", "uk_transaction_name")} \subseteq Statement
  BY <1>b, <1>c
<1>1. Finds(db, CreateTable(db, "transaction", <<>>), {Table("transaction")})
  BY <1>0, FindsBareTable
<1>2. Finds(db, AddIndex(db, Repair("transaction", "uk_transaction_name")),
           {Repair("transaction", "uk_transaction_name")})
  BY <1>0, FindsIndex DEF Repair, IndexKind, RepairedTables
<1>3. Finds(db, CreateTable(db, "transaction", <<>>)
             \o AddIndex(db, Repair("transaction", "uk_transaction_name")),
           {Table("transaction")}
             \cup {Repair("transaction", "uk_transaction_name")})
  BY <1>1, <1>2, FindsBoth
<1>d. Finds(db, Migration(12, db), StatementsOf(12))
  BY <1>a, <1>b, <1>3 DEF EnsureTransactionSnapshot, RepairTable
<1>4. "transaction" \in SchemaTables /\ Home["transaction"] = 12
  BY DEF SchemaTables, Home
<1>5. Sound(Table("transaction"), 12)
  BY <1>4, SoundTable
<1>6. /\ "transaction" \in DOMAIN UniqueOf /\ UniqueOf["transaction"] = "uk_transaction_name"
  BY DEF UniqueOf
<1>7. /\ "transaction" \in RepairedTables
  BY DEF RepairedTables
<1>8. /\ Sound(Repair("transaction", "uk_transaction_name"), 12)
  BY <1>4, <1>6, <1>7, SoundUnique
<1>e. \A s \in StatementsOf(12) : Sound(s, 12)
  BY <1>b, <1>5, <1>8
<1> QED
  BY <1>d, <1>e

LEMMA Migration13 ==
  ASSUME NEW db
  PROVE  /\ Finds(db, Migration(13, db), StatementsOf(13))
         /\ \A s \in StatementsOf(13) : Sound(s, 13)
<1>a. Migration(13, db) = EnsureTransactionMetric(db)
  BY DEF Migration
<1>b. StatementsOf(13) =
          {Table("transaction_metric")}
          \cup {Column("transaction_metric", "transaction_active_threads")}
          \cup {Repair("transaction_metric", "uk_transaction_bucket")}
  BY DEF StatementsOf
<1>c. StatementsOf(13) \subseteq Statement
  BY StatementsKnown
<1>0. {Table("transaction_metric"),
       Column("transaction_metric", "transaction_active_threads"),
       Repair("transaction_metric", "uk_transaction_bucket")} \subseteq Statement
  BY <1>b, <1>c
<1>1. Finds(db, CreateTable(db, "transaction_metric", <<>>),
           {Table("transaction_metric")})
  BY <1>0, FindsBareTable
<1>2. Finds(db, (IF "transaction_metric" \in db.tables
             THEN AddColumn(db, "transaction_metric", "transaction_active_threads") ELSE <<>>),
           {Column("transaction_metric", "transaction_active_threads")})
  BY <1>0, FindsOwnColumn DEF OwnColumn
<1>3. Finds(db, AddIndex(db, Repair("transaction_metric", "uk_transaction_bucket")),
           {Repair("transaction_metric", "uk_transaction_bucket")})
  BY <1>0, FindsIndex DEF Repair, IndexKind, RepairedTables
<1>4. Finds(db, CreateTable(db, "transaction_metric", <<>>)
             \o (IF "transaction_metric" \in db.tables
             THEN AddColumn(db, "transaction_metric", "transaction_active_threads") ELSE <<>>)
             \o AddIndex(db, Repair("transaction_metric", "uk_transaction_bucket")),
           {Table("transaction_metric")}
             \cup {Column("transaction_metric", "transaction_active_threads")}
             \cup {Repair("transaction_metric", "uk_transaction_bucket")})
  BY <1>1, <1>2, <1>3, FindsBoth
<1>d. Finds(db, Migration(13, db), StatementsOf(13))
  BY <1>a, <1>b, <1>4 DEF EnsureTransactionMetric
<1>5. "transaction_metric" \in SchemaTables /\ Home["transaction_metric"] = 13
  BY DEF SchemaTables, Home
<1>6. Sound(Table("transaction_metric"), 13)
  BY <1>5, SoundTable
<1>7. {"transaction_active_threads"} \subseteq SchemaColumns
  BY DEF SchemaColumns, OldColumns, OwnColumn
<1>8. /\ Sound(Column("transaction_metric", "transaction_active_threads"), 13)
  BY <1>7, SoundColumn DEF OwnColumn
<1>9. /\ "transaction_metric" \in DOMAIN UniqueOf /\ UniqueOf["transaction_metric"] = "uk_transaction_bucket"
  BY DEF UniqueOf
<1>10. /\ "transaction_metric" \in RepairedTables
  BY DEF RepairedTables
<1>11. /\ Sound(Repair("transaction_metric", "uk_transaction_bucket"), 13)
  BY <1>5, <1>9, <1>10, SoundUnique
<1>e. \A s \in StatementsOf(13) : Sound(s, 13)
  BY <1>b, <1>6, <1>8, <1>11
<1> QED
  BY <1>d, <1>e

LEMMA Migration14 ==
  ASSUME NEW db
  PROVE  /\ Finds(db, Migration(14, db), StatementsOf(14))
         /\ \A s \in StatementsOf(14) : Sound(s, 14)
<1>a. Migration(14, db) = EnsureUserSession(db)
  BY DEF Migration
<1>b. StatementsOf(14) =
          {Table("user_session")}
              \cup {Unique("user_session", "uk_session_token"),
                    Index("user_session", "session_user")}
  BY DEF StatementsOf
<1>c. StatementsOf(14) \subseteq Statement
  BY StatementsKnown
<1>0. {Table("user_session"), Unique("user_session", "uk_session_token"),
       Index("user_session", "session_user")} \subseteq Statement
  BY <1>b, <1>c
<1> DEFINE q == <<Unique("user_session", "uk_session_token"),
                  Index("user_session", "session_user")>>
           P == {Unique("user_session", "uk_session_token"),
                  Index("user_session", "session_user")}
<1>1. q \in Seq(Statement) /\ Members(q) = P
  BY <1>0, MembersOfTwo
<1>2. \A s \in P : /\ s.kind \in IndexKind /\ s.on = "user_session"
                    /\ "user_session" \notin RepairedTables
  BY DEF Index, Unique, Repair, IndexKind, RepairedTables
<1>3. Finds(db, CreateTable(db, "user_session", q), {Table("user_session")} \cup P)
  BY <1>0, <1>1, <1>2, FindsTable
<1>d. Finds(db, Migration(14, db), StatementsOf(14))
  BY <1>a, <1>b, <1>3 DEF EnsureUserSession
<1>4. "user_session" \in SchemaTables /\ Home["user_session"] = 14
  BY DEF SchemaTables, Home
<1>5. Sound(Table("user_session"), 14)
  BY <1>4, SoundTable
<1>6. \A u \in DOMAIN UniqueOf : UniqueOf[u] \notin
         {"session_user"}
  BY DEF UniqueOf
<1>7. /\ Sound(Index("user_session", "session_user"), 14)
  BY <1>4, <1>6, SoundIndex
<1>8. /\ "user_session" \in DOMAIN UniqueOf /\ UniqueOf["user_session"] = "uk_session_token"
  BY DEF UniqueOf
<1>9. /\ "user_session" \notin RepairedTables
  BY DEF RepairedTables
<1>10. /\ Sound(Unique("user_session", "uk_session_token"), 14)
  BY <1>4, <1>8, <1>9, SoundUnique
<1>e. \A s \in StatementsOf(14) : Sound(s, 14)
  BY <1>b, <1>5, <1>7, <1>10
<1> QED
  BY <1>d, <1>e

LEMMA MigrationFinds ==
  ASSUME NEW db, NEW i \in 1..14
  PROVE  /\ Finds(db, Migration(i, db), StatementsOf(i))
         /\ \A s \in StatementsOf(i) : Sound(s, i)
<1>1. i \in {1, 2, 3, 4, 5, 6, 7, 8, 9, 10, 11, 12, 13, 14}
  OBVIOUS
<1> QED
  BY <1>1, Migration1, Migration2, Migration3, Migration4, Migration5, Migration6,
     Migration7, Migration8, Migration9, Migration10, Migration11, Migration12,
     Migration13, Migration14

-----------------------------------------------------------------------------
(* What a complete database has, by the statements. *)

LEMMA TablesMade ==
  ASSUME NEW t \in SchemaTables
  PROVE  Home[t] \in 1..14 /\ Table(t) \in StatementsOf(Home[t])
<1>1. /\ Home["ai_task"] = 3 /\ Table("ai_task") \in StatementsOf(3)
      /\ Home["ai_artifact"] = 3 /\ Table("ai_artifact") \in StatementsOf(3)
  BY DEF Home, StatementsOf
<1>2. /\ Home["csv_resource"] = 5 /\ Table("csv_resource") \in StatementsOf(5)
      /\ Home["csv_binding"] = 5 /\ Table("csv_binding") \in StatementsOf(5)
      /\ Home["upload_binding"] = 5 /\ Table("upload_binding") \in StatementsOf(5)
  BY DEF Home, StatementsOf
<1>3. /\ Home["role"] = 6 /\ Table("role") \in StatementsOf(6)
      /\ Home["role_permission"] = 6 /\ Table("role_permission") \in StatementsOf(6)
  BY DEF Home, StatementsOf
<1>4. /\ Home["task_log"] = 7 /\ Table("task_log") \in StatementsOf(7)
  BY DEF Home, StatementsOf
<1>5. /\ Home["execution_queue"] = 8 /\ Table("execution_queue") \in StatementsOf(8)
  BY DEF Home, StatementsOf
<1>6. /\ Home["execution_run"] = 9 /\ Table("execution_run") \in StatementsOf(9)
  BY DEF Home, StatementsOf
<1>7. /\ Home["execution_node"] = 10 /\ Table("execution_node") \in StatementsOf(10)
  BY DEF Home, StatementsOf
<1>8. /\ Home["metric"] = 11 /\ Table("metric") \in StatementsOf(11)
  BY DEF Home, StatementsOf
<1>9. /\ Home["transaction"] = 12 /\ Table("transaction") \in StatementsOf(12)
  BY DEF Home, StatementsOf
<1>10. /\ Home["transaction_metric"] = 13 /\ Table("transaction_metric") \in StatementsOf(13)
  BY DEF Home, StatementsOf
<1>11. /\ Home["user_session"] = 14 /\ Table("user_session") \in StatementsOf(14)
  BY DEF Home, StatementsOf
<1> QED
  BY <1>1, <1>2, <1>3, <1>4, <1>5, <1>6, <1>7, <1>8, <1>9, <1>10, <1>11 DEF SchemaTables

\* The columns that a migration adds to a table every deployment has or gets.
ColumnsAdded ==
    {c \in SchemaColumns : \E i \in 1..14 : \E s \in StatementsOf(i) :
        /\ s.kind = "column" /\ s.name = c
        /\ s.on \in DOMAIN OwnColumn => s.on \in SchemaTables}

LEMMA ColumnsMade == SchemaColumns \subseteq ColumnsAdded
<1> SUFFICES ASSUME NEW c \in SchemaColumns PROVE c \in ColumnsAdded
  OBVIOUS
<1>d. DOMAIN OwnColumn = {"csv_resource", "transaction_metric"}
  BY DEF OwnColumn
<1>0. ASSUME NEW i \in 1..14, NEW on, NEW n, Column(on, n) \in StatementsOf(i)
      PROVE  n \in ColumnsAdded
  <2>1. on \in DOMAIN OwnColumn => on \in SchemaTables
    BY <1>d DEF SchemaTables
  <2> QED
    BY <1>0, <2>1, MigrationFinds DEF Column, ColumnsAdded, Sound
<1>1. "node_password" \in ColumnsAdded
  <2>1. /\ Column("node", "node_password") \in StatementsOf(1)
    BY DEF StatementsOf
  <2> QED
    BY <1>0, <2>1
<1>2. "config_value" \in ColumnsAdded
  <2>1. /\ Column("config", "config_value") \in StatementsOf(2)
    BY DEF StatementsOf
  <2> QED
    BY <1>0, <2>1
<1>3. /\ "report_region" \in ColumnsAdded
      /\ "report_service_name" \in ColumnsAdded
      /\ "report_total_threads" \in ColumnsAdded
      /\ "report_slave_count" \in ColumnsAdded
      /\ "report_grafana_instance" \in ColumnsAdded
      /\ "report_artifact_dir" \in ColumnsAdded
  <2>1. /\ Column("report", "report_region") \in StatementsOf(4)
        /\ Column("report", "report_service_name") \in StatementsOf(4)
        /\ Column("report", "report_total_threads") \in StatementsOf(4)
        /\ Column("report", "report_slave_count") \in StatementsOf(4)
        /\ Column("report", "report_grafana_instance") \in StatementsOf(4)
        /\ Column("report", "report_artifact_dir") \in StatementsOf(4)
    BY DEF StatementsOf
  <2> QED
    BY <1>0, <2>1
<1>4. "csv_file_type" \in ColumnsAdded
  <2>1. /\ Column("csv_resource", "csv_file_type") \in StatementsOf(5)
    BY DEF StatementsOf
  <2> QED
    BY <1>0, <2>1
<1>5. "user_role_id" \in ColumnsAdded
  <2>1. /\ Column("user", "user_role_id") \in StatementsOf(6)
    BY DEF StatementsOf
  <2> QED
    BY <1>0, <2>1
<1>6. "transaction_active_threads" \in ColumnsAdded
  <2>1. /\ Column("transaction_metric", "transaction_active_threads") \in StatementsOf(13)
    BY DEF StatementsOf
  <2> QED
    BY <1>0, <2>1
<1>c. c \in ColumnsAdded
  <2>1. CASE c \in OldColumns
    BY <1>1, <1>2, <1>3, <1>4, <1>5, <1>6, <2>1 DEF OldColumns
  <2>2. ASSUME NEW t \in DOMAIN OwnColumn, c = OwnColumn[t] PROVE c \in ColumnsAdded
    BY <1>1, <1>2, <1>3, <1>4, <1>5, <1>6, <1>d, <2>2 DEF OwnColumn
  <2> QED
    BY <2>1, <2>2 DEF SchemaColumns
<1> QED
  BY <1>c

LEMMA UniqueMade ==
  ASSUME NEW t \in DOMAIN UniqueOf
  PROVE  /\ t \in SchemaTables
         /\ \E i \in 1..14 : \E s \in StatementsOf(i) :
               s.kind \in IndexKind /\ s.on = t /\ s.name = UniqueOf[t]
<1> DEFINE Made(u) == \E i \in 1..14 : \E s \in StatementsOf(i) :
               s.kind \in IndexKind /\ s.on = u /\ s.name = UniqueOf[u]
<1>0. ASSUME NEW i \in 1..14, NEW u, NEW n, n = UniqueOf[u],
             Unique(u, n) \in StatementsOf(i) \/ Repair(u, n) \in StatementsOf(i)
      PROVE  Made(u)
  BY <1>0 DEF Unique, Repair, IndexKind
<1>d. DOMAIN UniqueOf \subseteq SchemaTables
  BY DEF UniqueOf, SchemaTables
<1> HIDE DEF Made
<1>1. /\ Made("csv_resource")
      /\ Made("csv_binding")
      /\ Made("upload_binding")
  <2>1. /\ Unique("csv_resource", "uk_csv_filename") \in StatementsOf(5)
        /\ Unique("csv_binding", "uk_csv_binding") \in StatementsOf(5)
        /\ Unique("upload_binding", "uk_upload_binding") \in StatementsOf(5)
    BY DEF StatementsOf
  <2>2. /\ "uk_csv_filename" = UniqueOf["csv_resource"]
        /\ "uk_csv_binding" = UniqueOf["csv_binding"]
        /\ "uk_upload_binding" = UniqueOf["upload_binding"]
    BY DEF UniqueOf
  <2> QED
    BY <1>0, <2>1, <2>2
<1>2. Made("role")
  <2>1. /\ Unique("role", "uk_role_code") \in StatementsOf(6)
    BY DEF StatementsOf
  <2>2. /\ "uk_role_code" = UniqueOf["role"]
    BY DEF UniqueOf
  <2> QED
    BY <1>0, <2>1, <2>2
<1>3. Made("execution_run")
  <2>1. /\ Repair("execution_run", "uk_run_report") \in StatementsOf(9)
    BY DEF StatementsOf
  <2>2. /\ "uk_run_report" = UniqueOf["execution_run"]
    BY DEF UniqueOf
  <2> QED
    BY <1>0, <2>1, <2>2
<1>4. Made("metric")
  <2>1. /\ Repair("metric", "uk_metric_bucket") \in StatementsOf(11)
    BY DEF StatementsOf
  <2>2. /\ "uk_metric_bucket" = UniqueOf["metric"]
    BY DEF UniqueOf
  <2> QED
    BY <1>0, <2>1, <2>2
<1>5. Made("transaction")
  <2>1. /\ Repair("transaction", "uk_transaction_name") \in StatementsOf(12)
    BY DEF StatementsOf
  <2>2. /\ "uk_transaction_name" = UniqueOf["transaction"]
    BY DEF UniqueOf
  <2> QED
    BY <1>0, <2>1, <2>2
<1>6. Made("transaction_metric")
  <2>1. /\ Repair("transaction_metric", "uk_transaction_bucket") \in StatementsOf(13)
    BY DEF StatementsOf
  <2>2. /\ "uk_transaction_bucket" = UniqueOf["transaction_metric"]
    BY DEF UniqueOf
  <2> QED
    BY <1>0, <2>1, <2>2
<1>7. Made("user_session")
  <2>1. /\ Unique("user_session", "uk_session_token") \in StatementsOf(14)
    BY DEF StatementsOf
  <2>2. /\ "uk_session_token" = UniqueOf["user_session"]
    BY DEF UniqueOf
  <2> QED
    BY <1>0, <2>1, <2>2
<1>c. Made(t)
  BY <1>1, <1>2, <1>3, <1>4, <1>5, <1>6, <1>7 DEF UniqueOf
<1> QED
  BY <1>c, <1>d DEF Made

\* The indexes of a table, by the statements that make them.
LEMMA IndexesMade ==
  ASSUME NEW t \in SchemaTables, NEW n
  PROVE  n \in IndexesOf[t] <=>
            \E i \in 1..14 : \E s \in StatementsOf(i) :
                s.kind \in IndexKind /\ s.on = t /\ s.name = n
<1>1. ASSUME NEW i \in 1..14
      PROVE  Statements(i, Empty) = {s \in StatementsOf(i) : Due(s, Empty)}
  BY MigrationFinds DEF Statements, Finds, Members
<1>2. ASSUME NEW i \in 1..14, NEW s \in StatementsOf(i)
      PROVE  /\ s.kind \in {"table", "column"} \cup IndexKind
             /\ s.kind \in IndexKind => Due(s, Empty)
  BY MigrationFinds DEF Sound, Due, Empty
<1>3. AllStatements = UNION {Statements(i, Empty) : i \in 1..14}
  BY DEF AllStatements, Serving
<1>4. IndexesOf[t] =
        {s.name : s \in {q \in AllStatements : q.on = t /\ q.kind \notin {"table", "column"}}}
  BY DEF IndexesOf
<1>5. ASSUME NEW i \in 1..14, NEW s \in StatementsOf(i), s.kind \in IndexKind, s.on = t,
             s.name = n
      PROVE  n \in IndexesOf[t]
  <2>1. s \in AllStatements
    BY <1>1, <1>2, <1>3, <1>5
  <2> QED
    BY <1>4, <1>5, <2>1 DEF IndexKind
<1>6. ASSUME n \in IndexesOf[t]
      PROVE  \E i \in 1..14 : \E s \in StatementsOf(i) :
                s.kind \in IndexKind /\ s.on = t /\ s.name = n
  <2>1. PICK s \in AllStatements : s.on = t /\ s.kind \notin {"table", "column"} /\ s.name = n
    BY <1>4, <1>6
  <2>2. PICK i \in 1..14 : s \in Statements(i, Empty)
    BY <1>3
  <2> QED
    BY <1>1, <1>2, <2>1, <2>2
<1> QED
  BY <1>5, <1>6

-----------------------------------------------------------------------------
(* The upgrade. *)

Todo == Members(startup.todo)

UpgradeTypeOK ==
    /\ schema \in [tables: SUBSET SchemaTables, columns: SUBSET SchemaColumns,
                   indexes: SUBSET UNION {IndexesOf[t] : t \in SchemaTables},
                   duplicated: SUBSET DOMAIN UniqueOf]
    /\ startup \in [at: 0..15, todo: Seq(Statement)]
    /\ startup.at \in {0, 15} => startup.todo = <<>>

\* A statement that is looked for by itself is done or still to do, once its
\* migration has looked.
Looked(s) == s.kind \notin IndexKind \/ s.on \in RepairedTables
DoneInv ==
    \A i \in 1..14 : i <= startup.at =>
        \A s \in StatementsOf(i) : Looked(s) /\ Due(s, schema) => s \in Todo

\* The others are done or still to do while their table is there or to be made,
\* unless a crash cut its migration off.
WholeInv ==
    \A i \in 1..14 : \A s \in StatementsOf(i) :
        /\ ~Looked(s)
        /\ s.on \notin cut
        /\ s.on \in schema.tables \/ Table(s.on) \in Todo
        => s.name \in schema.indexes \/ s \in Todo

\* A unique index and duplicate rows exclude each other.
DuplicateInv == \A t \in schema.duplicated : UniqueOf[t] \notin schema.indexes

UpgradeInv == UpgradeTypeOK /\ DoneInv /\ WholeInv /\ DuplicateInv

\* What no migration makes is what it was; the passwords are encrypted from the
\* second migration on, and the API serves a database the recovery could read.
InheritedInv ==
    /\ inherited \subseteq Unmigrated
    /\ passwords \in {"plain", "encrypted", "foreign"}
    /\ startup.at > 1 => passwords = "encrypted"
    /\ startup.at = Serving => SelectedAtStart \subseteq inherited

LEMMA InheritedInit == SchemaInit => InheritedInv
<1> SUFFICES ASSUME SchemaInit PROVE InheritedInv
  OBVIOUS
<1>1. startup.at = 0
  BY DEF SchemaInit, Down
<1> QED
  BY <1>1, OldPartsAssumption DEF SchemaInit, InheritedInv, OldPartsAssumption, Serving

LEMMA InheritedStep == UpgradeInv /\ InheritedInv /\ [SchemaNext]_schemaVars => InheritedInv'
<1> SUFFICES ASSUME UpgradeInv, InheritedInv, [SchemaNext]_schemaVars PROVE InheritedInv'
  OBVIOUS
<1>1. startup.at \in 0..15 /\ startup = [at |-> startup.at, todo |-> startup.todo]
  BY DEF UpgradeInv, UpgradeTypeOK
<1>2. CASE NextMigration
  <2>1. startup'.at = startup.at + 1 /\ UNCHANGED <<inherited, passwords>> /\ StepReady
    BY <1>2 DEF NextMigration
  <2> QED
    BY <1>1, <2>1 DEF InheritedInv, StepReady, Serving
<1>3. CASE MigrateNodePasswords
  BY <1>3 DEF MigrateNodePasswords, InheritedInv
<1>4. CASE ExecuteStatement
  <2>1. startup'.at = startup.at
    BY <1>1, <1>4 DEF ExecuteStatement
  <2> QED
    BY <1>4, <2>1 DEF ExecuteStatement, InheritedInv
<1>5. CASE StatementFails \/ StepFails \/ ProcessStops
  <2>1. startup'.at = 0 /\ UNCHANGED <<inherited, passwords>>
    BY <1>5 DEF StatementFails, StepFails, ProcessStops, Down
  <2> QED
    BY <2>1 DEF InheritedInv, Serving
<1>6. ASSUME NEW t \in DOMAIN UniqueOf, DuplicateStored(t) PROVE InheritedInv'
  BY <1>6 DEF DuplicateStored, InheritedInv
<1>7. CASE UNCHANGED schemaVars
  BY <1>7 DEF schemaVars, InheritedInv
<1> QED
  BY <1>2, <1>3, <1>4, <1>5, <1>6, <1>7 DEF SchemaNext, StartupStep

LEMMA UpgradeComplete == UpgradeInv /\ InheritedInv => ServesMigratedSchema
<1> SUFFICES ASSUME UpgradeInv, InheritedInv, startup.at = Serving
             PROVE  /\ Lacking \subseteq Unmigrated \ SelectedAtStart
                    /\ passwords = "encrypted"
                    /\ \A t \in SchemaTables :
                           IndexesOf[t] \subseteq schema.indexes \/ t \in cut \ RepairedTables
                    /\ schema.duplicated \subseteq cut \ RepairedTables
  BY DEF ServesMigratedSchema
<1>1. startup.at = 15 /\ Todo = {}
  <2>1. startup.at = 15 /\ startup.todo = <<>>
    BY DEF UpgradeInv, UpgradeTypeOK, Serving
  <2> QED
    BY <2>1 DEF Todo, Members
<1>2. \A i \in 1..14 : \A s \in StatementsOf(i) : Looked(s) => ~Due(s, schema)
  BY <1>1 DEF UpgradeInv, DoneInv
<1>3. SchemaTables \subseteq schema.tables
  <2>1. SUFFICES ASSUME NEW t \in SchemaTables PROVE t \in schema.tables
    OBVIOUS
  <2>2. ~Due(Table(t), schema)
    BY <1>2, TablesMade DEF Looked, Table, IndexKind
  <2> QED
    BY <2>2 DEF Due, Table
<1>4. SchemaColumns \subseteq schema.columns
  <2>1. SUFFICES ASSUME NEW c \in SchemaColumns PROVE c \in schema.columns
    OBVIOUS
  <2>2. PICK i \in 1..14 : \E s \in StatementsOf(i) :
            /\ s.kind = "column" /\ s.name = c
            /\ s.on \in DOMAIN OwnColumn => s.on \in SchemaTables
    BY ColumnsMade DEF ColumnsAdded
  <2>3. PICK s \in StatementsOf(i) :
            /\ s.kind = "column" /\ s.name = c
            /\ s.on \in DOMAIN OwnColumn => s.on \in SchemaTables
    BY <2>2
  <2>4. ~Due(s, schema)
    BY <1>2, <2>3 DEF Looked, IndexKind
  <2> QED
    BY <1>3, <2>4, <2>3 DEF Due
<1>5. ASSUME NEW t \in SchemaTables, t \notin cut \ RepairedTables
      PROVE  IndexesOf[t] \subseteq schema.indexes
  <2>1. SUFFICES ASSUME NEW n \in IndexesOf[t] PROVE n \in schema.indexes
    OBVIOUS
  <2>2. PICK i \in 1..14 : \E s \in StatementsOf(i) :
            s.kind \in IndexKind /\ s.on = t /\ s.name = n
    BY IndexesMade
  <2>3. PICK s \in StatementsOf(i) : s.kind \in IndexKind /\ s.on = t /\ s.name = n
    BY <2>2
  <2>4. CASE t \in RepairedTables
    BY <1>2, <2>3, <2>4 DEF Looked, Due
  <2>5. CASE t \notin RepairedTables
    <3>1. ~Looked(s) /\ s.on \notin cut /\ s.on \in schema.tables
      BY <1>3, <1>5, <2>3, <2>5 DEF Looked
    <3> QED
      BY <1>1, <2>3, <3>1 DEF UpgradeInv, WholeInv
  <2> QED
    BY <2>4, <2>5
<1>6. schema.duplicated \subseteq cut \ RepairedTables
  <2>1. SUFFICES ASSUME NEW t \in schema.duplicated PROVE t \in cut \ RepairedTables
    OBVIOUS
  <2>2. t \in DOMAIN UniqueOf /\ UniqueOf[t] \notin schema.indexes
    BY DEF UpgradeInv, UpgradeTypeOK, DuplicateInv
  <2>3. t \in SchemaTables /\ UniqueOf[t] \in IndexesOf[t]
    BY <2>2, UniqueMade, IndexesMade
  <2> QED
    BY <1>5, <2>2, <2>3
<1>7. Lacking \subseteq Unmigrated \ SelectedAtStart
  BY <1>3, <1>4 DEF Lacking, InheritedInv
<1>8. passwords = "encrypted"
  BY DEF InheritedInv, Serving
<1> QED
  BY <1>5, <1>6, <1>7, <1>8

LEMMA InitUpgrade == SchemaInit => UpgradeInv
<1> SUFFICES ASSUME SchemaInit PROVE UpgradeInv
  OBVIOUS
<1>1. PICK tables \in OldDatabase, unindexed \in SUBSET RepairedTables,
           columns \in {{}, OldColumns} :
        schema = [tables |-> tables,
                  columns |-> columns \cup
                      (IF columns = {} THEN {}
                       ELSE {OwnColumn[t] : t \in DOMAIN OwnColumn \cap tables}),
                  indexes |-> UNION {IndexesOf[t] : t \in tables \ unindexed},
                  duplicated |-> unindexed \cap DOMAIN UniqueOf]
  BY DEF SchemaInit
<1>2. startup.at = 0 /\ startup.todo = <<>> /\ startup = Down /\ Todo = {}
  <2>1. startup = Down
    BY DEF SchemaInit
  <2> QED
    BY <2>1 DEF Down, Todo, Members
<1>3. tables \subseteq SchemaTables
  BY OldDatabaseAssumption DEF OldDatabaseAssumption
<1>4. UpgradeTypeOK
  <2>1. schema.tables \in SUBSET SchemaTables
    BY <1>1, <1>3
  <2>2. schema.columns \in SUBSET SchemaColumns
    BY <1>1 DEF SchemaColumns
  <2>3. schema.indexes \in SUBSET UNION {IndexesOf[t] : t \in SchemaTables}
    BY <1>1, <1>3
  <2>4. schema.duplicated \in SUBSET DOMAIN UniqueOf
    BY <1>1
  <2>5. startup \in [at: 0..15, todo: Seq(Statement)]
    BY <1>2 DEF Down
  <2>6. schema = [tables |-> schema.tables, columns |-> schema.columns,
                  indexes |-> schema.indexes, duplicated |-> schema.duplicated]
    BY <1>1
  <2> QED
    BY <1>2, <2>1, <2>2, <2>3, <2>4, <2>5, <2>6 DEF UpgradeTypeOK
<1>5. DoneInv
  BY <1>2 DEF DoneInv
<1>6. WholeInv
  <2>1. SUFFICES ASSUME NEW i \in 1..14, NEW s \in StatementsOf(i), ~Looked(s),
                        s.on \in tables
                 PROVE  s.name \in schema.indexes
    BY <1>1, <1>2 DEF WholeInv
  <2>2. s.kind \in IndexKind /\ s.on \in tables \ unindexed
    BY <2>1 DEF Looked
  <2>3. s.name \in IndexesOf[s.on]
    BY <1>3, <2>2, IndexesMade
  <2> QED
    BY <1>1, <2>2, <2>3
<1>7. DuplicateInv
  <2>1. SUFFICES ASSUME NEW t \in unindexed \cap DOMAIN UniqueOf,
                        NEW u \in tables \ unindexed, UniqueOf[t] \in IndexesOf[u]
                 PROVE  FALSE
    BY <1>1 DEF DuplicateInv
  <2>2. PICK i \in 1..14 : \E s \in StatementsOf(i) :
            s.kind \in IndexKind /\ s.on = u /\ s.name = UniqueOf[t]
    BY <1>3, <2>1, IndexesMade
  <2>3. PICK s \in StatementsOf(i) :
            s.kind \in IndexKind /\ s.on = u /\ s.name = UniqueOf[t]
    BY <2>2
  <2>4. s.on = t
    BY <2>3, MigrationFinds DEF Sound
  <2> QED
    BY <2>3, <2>4
<1> QED
  BY <1>4, <1>5, <1>6, <1>7 DEF UpgradeInv

LEMMA MigrationKeeps ==
  ASSUME UpgradeInv, NextMigration
  PROVE  UpgradeInv'
<1>1. /\ startup.at < 15 /\ startup.todo = <<>> /\ startup.at \in 0..15
      /\ UNCHANGED <<schema, cut, stops>>
  BY DEF NextMigration, UpgradeInv, UpgradeTypeOK, Serving
<1>2. Todo = {}
  BY <1>1 DEF Todo, Members
<1> DEFINE next == startup.at + 1
<1>3. next \in 1..15 /\ startup'.at = next
  BY <1>1 DEF NextMigration
<1>4. startup'.todo \in Seq(Statement) /\ (next = 15 => startup'.todo = <<>>)
      /\ Todo' = IF next = 15 THEN {} ELSE {s \in StatementsOf(next) : Due(s, schema)}
  <2>1. CASE next = 15
    <3>1. startup'.todo = <<>>
      BY <1>1, <2>1 DEF NextMigration, Serving
    <3> QED
      BY <2>1, <3>1 DEF Todo, Members
  <2>2. CASE next # 15
    <3>1. next \in 1..14 /\ startup'.todo = Migration(next, schema)
      BY <1>3, <2>2 DEF NextMigration, Serving
    <3>2. Finds(schema, startup'.todo, StatementsOf(next))
      BY <3>1, MigrationFinds
    <3> QED
      BY <2>2, <3>2 DEF Finds, Todo
  <2> QED
    BY <2>1, <2>2
<1>5. startup' = [at |-> next, todo |-> startup'.todo]
  BY DEF NextMigration
<1> HIDE DEF next
<1>6. UpgradeTypeOK'
  BY <1>1, <1>3, <1>4, <1>5 DEF UpgradeInv, UpgradeTypeOK
<1>7. DoneInv'
  <2>1. SUFFICES ASSUME NEW i \in 1..14, i <= next, NEW s \in StatementsOf(i), Looked(s),
                        Due(s, schema)
                 PROVE  s \in Todo'
    BY <1>1, <1>3 DEF DoneInv
  <2>2. CASE i = next
    BY <1>4, <2>1, <2>2
  <2>3. CASE i # next
    <3>1. i <= startup.at
      BY <1>1, <2>1, <2>3 DEF next
    <3> QED
      BY <1>2, <2>1, <3>1 DEF UpgradeInv, DoneInv
  <2> QED
    BY <2>2, <2>3
<1>8. WholeInv'
  <2>1. SUFFICES ASSUME NEW i \in 1..14, NEW s \in StatementsOf(i), ~Looked(s),
                        s.on \notin cut, s.on \in schema.tables \/ Table(s.on) \in Todo'
                 PROVE  s.name \in schema.indexes \/ s \in Todo'
    BY <1>1 DEF WholeInv
  <2>2. CASE s.on \in schema.tables
    BY <1>2, <2>1, <2>2 DEF UpgradeInv, WholeInv
  <2>3. CASE Table(s.on) \in Todo'
    <3>1. /\ next \in 1..14 /\ Table(s.on) \in StatementsOf(next)
          /\ Due(Table(s.on), schema)
      BY <1>3, <1>4, <2>3
    <3>2. Home[s.on] = next
      <4>1. Table(s.on).on = s.on /\ Table(s.on).kind = "table"
        BY DEF Table
      <4>2. Sound(Table(s.on), next)
        BY <3>1, MigrationFinds
      <4> QED
        BY <4>1, <4>2 DEF Sound
    <3>3. s.kind \in IndexKind /\ s.on \notin RepairedTables /\ Home[s.on] = i
      BY <2>1, MigrationFinds DEF Looked, Sound, IndexKind
    <3>4. s.on \notin schema.tables
      BY <3>1 DEF Due, Table, IndexKind
    <3> QED
      BY <1>4, <3>1, <3>2, <3>3, <3>4 DEF Due
  <2> QED
    BY <2>1, <2>2, <2>3
<1>9. DuplicateInv'
  BY <1>1 DEF UpgradeInv, DuplicateInv
<1> QED
  BY <1>6, <1>7, <1>8, <1>9 DEF UpgradeInv

\* What a statement changes.
LEMMA ExecutedIs ==
  ASSUME UpgradeTypeOK, NEW i \in 1..14, NEW s \in StatementsOf(i)
  PROVE  /\ Executed(s) \in [tables: SUBSET SchemaTables, columns: SUBSET SchemaColumns,
                       indexes: SUBSET UNION {IndexesOf[t] : t \in SchemaTables},
                       duplicated: SUBSET DOMAIN UniqueOf]
         /\ Executed(s).tables = schema.tables \cup
                (IF s.kind = "table" THEN {s.on} ELSE {})
         /\ Executed(s).columns = schema.columns \cup
                (IF s.kind = "table" THEN CreatedColumns(s.on)
                 ELSE IF s.kind = "column" THEN {s.name} ELSE {})
         /\ Executed(s).indexes = schema.indexes \cup
                (IF s.kind \in IndexKind THEN {s.name} ELSE {})
         /\ Executed(s).duplicated = schema.duplicated \
                (IF s.kind = "repair" THEN {s.on} ELSE {})
<1>0. Sound(s, i)
  BY MigrationFinds
<1>1. schema = [tables |-> schema.tables, columns |-> schema.columns,
                indexes |-> schema.indexes, duplicated |-> schema.duplicated]
      /\ schema.tables \subseteq SchemaTables /\ schema.columns \subseteq SchemaColumns
      /\ schema.indexes \subseteq UNION {IndexesOf[t] : t \in SchemaTables}
      /\ schema.duplicated \subseteq DOMAIN UniqueOf
  BY DEF UpgradeTypeOK
<1>2. CASE s.kind = "table"
  <2>1. Executed(s) = [schema EXCEPT !.tables = @ \cup {s.on},
                                     !.columns = @ \cup CreatedColumns(s.on)]
    BY <1>2 DEF Executed
  <2>2. Executed(s) = [tables |-> schema.tables \cup {s.on},
                       columns |-> schema.columns \cup CreatedColumns(s.on),
                       indexes |-> schema.indexes, duplicated |-> schema.duplicated]
    BY <1>1, <2>1
  <2>3. CreatedColumns(s.on) \subseteq SchemaColumns /\ s.on \in SchemaTables
    BY <1>0, <1>2 DEF CreatedColumns, SchemaColumns, Sound
  <2> QED
    BY <1>1, <1>2, <2>2, <2>3 DEF IndexKind
<1>3. CASE s.kind = "column"
  <2>1. Executed(s) = [schema EXCEPT !.columns = @ \cup {s.name}]
    BY <1>3 DEF Executed
  <2>2. Executed(s) = [tables |-> schema.tables, columns |-> schema.columns \cup {s.name},
                       indexes |-> schema.indexes, duplicated |-> schema.duplicated]
    BY <1>1, <2>1
  <2>3. s.name \in SchemaColumns
    BY <1>0, <1>3 DEF Sound
  <2> QED
    BY <1>1, <1>3, <2>2, <2>3 DEF IndexKind
<1>4. CASE s.kind \in IndexKind
  <2>1. s.name \in UNION {IndexesOf[t] : t \in SchemaTables}
    BY <1>0, <1>4, IndexesMade DEF Sound, IndexKind
  <2>2. CASE s.kind \in {"index", "unique"}
    <3>1. Executed(s) = [schema EXCEPT !.indexes = @ \cup {s.name}]
      BY <2>2 DEF Executed
    <3>2. Executed(s) = [tables |-> schema.tables, columns |-> schema.columns,
                         indexes |-> schema.indexes \cup {s.name},
                         duplicated |-> schema.duplicated]
      BY <1>1, <3>1
    <3> QED
      BY <1>1, <2>1, <2>2, <3>2 DEF IndexKind
  <2>3. CASE s.kind = "repair"
    <3>1. Executed(s) = [schema EXCEPT !.indexes = @ \cup {s.name},
                                       !.duplicated = @ \ {s.on}]
      BY <2>3 DEF Executed
    <3>2. Executed(s) = [tables |-> schema.tables, columns |-> schema.columns,
                         indexes |-> schema.indexes \cup {s.name},
                         duplicated |-> schema.duplicated \ {s.on}]
      BY <1>1, <3>1
    <3> QED
      BY <1>1, <2>1, <2>3, <3>2 DEF IndexKind
  <2> QED
    BY <1>4, <2>2, <2>3 DEF IndexKind
<1> QED
  BY <1>0, <1>2, <1>3, <1>4 DEF Sound

LEMMA ExecuteKeeps ==
  ASSUME UpgradeInv, ExecuteStatement
  PROVE  UpgradeInv'
<1> DEFINE s0 == Head(startup.todo)
<1>1. /\ UpgradeTypeOK /\ startup \in [at: 0..15, todo: Seq(Statement)]
      /\ startup.todo \in Seq(Statement) /\ startup.todo # <<>>
      /\ startup.at \in 1..14
      /\ cut' = cut
  BY DEF ExecuteStatement, UpgradeInv, UpgradeTypeOK
<1>2. /\ Tail(startup.todo) \in Seq(Statement) /\ s0 \in Todo
      /\ Todo = {s0} \cup Members(Tail(startup.todo)) /\ s0 \in Statement
  <2>1. Head(startup.todo) \in Statement
    BY <1>1
  <2> QED
    BY <1>1, <2>1, MembersOfRest DEF Todo
<1>3. /\ startup' = [at |-> startup.at, todo |-> Tail(startup.todo)]
      /\ startup'.at = startup.at /\ startup'.todo = Tail(startup.todo)
  BY <1>1 DEF ExecuteStatement
<1>4. Todo = {s0} \cup Todo'
  BY <1>2, <1>3 DEF Todo
<1>5. PICK i0 \in 1..14 : s0 \in StatementsOf(i0)
  BY <1>2 DEF Statement
<1>6. Sound(s0, i0)
  BY <1>5, MigrationFinds
<1>7. schema' = Executed(s0) /\ ~Refused(s0)
  BY DEF ExecuteStatement
<1>8. /\ schema' \in [tables: SUBSET SchemaTables, columns: SUBSET SchemaColumns,
                       indexes: SUBSET UNION {IndexesOf[t] : t \in SchemaTables},
                       duplicated: SUBSET DOMAIN UniqueOf]
      /\ schema'.tables = schema.tables \cup (IF s0.kind = "table" THEN {s0.on} ELSE {})
      /\ schema'.columns = schema.columns \cup
                (IF s0.kind = "table" THEN CreatedColumns(s0.on)
                 ELSE IF s0.kind = "column" THEN {s0.name} ELSE {})
      /\ schema'.indexes = schema.indexes \cup
                (IF s0.kind \in IndexKind THEN {s0.name} ELSE {})
      /\ schema'.duplicated = schema.duplicated \
                (IF s0.kind = "repair" THEN {s0.on} ELSE {})
  BY <1>1, <1>5, <1>7, ExecutedIs
<1> HIDE DEF s0
<1>9. UpgradeTypeOK'
  <2>1. startup' \in [at: 0..15, todo: Seq(Statement)] /\ startup'.at \notin {0, 15}
    BY <1>1, <1>2, <1>3
  <2> QED
    BY <1>8, <2>1 DEF UpgradeTypeOK
<1>10. DoneInv'
  <2>1. SUFFICES ASSUME NEW i \in 1..14, i <= startup.at, NEW s \in StatementsOf(i),
                        Looked(s), Due(s, schema')
                 PROVE  s \in Todo'
    BY <1>3 DEF DoneInv
  <2>2. Due(s, schema)
    <3>1. CASE s.kind = "column"
      <4>1. s.name \notin schema.columns
        BY <1>8, <2>1, <3>1 DEF Due, IndexKind
      <4>2. ASSUME s.on \in DOMAIN OwnColumn PROVE s.on \in schema.tables
        <5>1. s.on \in schema'.tables /\ s.name \notin schema'.columns
          BY <2>1, <3>1, <4>2 DEF Due, IndexKind
        <5>2. ASSUME s.on \notin schema.tables PROVE FALSE
          <6>1. s0.kind = "table" /\ s0.on = s.on
            BY <1>8, <5>1, <5>2
          <6>2. OwnColumn[s.on] \in schema'.columns
            BY <1>8, <4>2, <6>1 DEF CreatedColumns
          <6>3. s.name = OwnColumn[s.on]
            BY <3>1, <4>2, MigrationFinds DEF Sound
          <6> QED
            BY <5>1, <6>2, <6>3
        <5> QED
          BY <5>2
      <4> QED
        BY <3>1, <4>1, <4>2 DEF Due
    <3>2. CASE s.kind # "column"
      BY <1>8, <2>1, <3>2 DEF Due
    <3> QED
      BY <3>1, <3>2
  <2>3. s \in Todo
    BY <2>1, <2>2 DEF UpgradeInv, DoneInv
  <2>4. s # s0
    <3>1. ASSUME s = s0 PROVE ~Due(s, schema')
      BY <1>6, <1>8, <2>1, <3>1 DEF Due, Looked, Sound, IndexKind
    <3> QED
      BY <2>1, <3>1
  <2> QED
    BY <1>4, <2>3, <2>4
<1>11. WholeInv'
  <2>1. SUFFICES ASSUME NEW i \in 1..14, NEW s \in StatementsOf(i), ~Looked(s),
                        s.on \notin cut, s.on \in schema'.tables \/ Table(s.on) \in Todo'
                 PROVE  s.name \in schema'.indexes \/ s \in Todo'
    BY <1>1 DEF WholeInv
  <2>2. s.on \in schema.tables \/ Table(s.on) \in Todo
    <3>1. CASE Table(s.on) \in Todo'
      BY <1>4, <3>1
    <3>2. CASE s.on \in schema'.tables /\ s.on \notin schema.tables
      <4>1. s0 = Table(s.on)
        BY <1>6, <1>8, <3>2 DEF Sound
      <4> QED
        BY <1>4, <4>1
    <3> QED
      BY <2>1, <3>1, <3>2
  <2>3. s.name \in schema.indexes \/ s \in Todo
    BY <2>1, <2>2 DEF UpgradeInv, WholeInv
  <2> QED
    BY <1>4, <1>8, <2>1, <2>3 DEF Looked
<1>12. DuplicateInv'
  <2>1. SUFFICES ASSUME NEW t \in schema'.duplicated, UniqueOf[t] \in schema'.indexes
                 PROVE  FALSE
    BY DEF DuplicateInv
  <2>2. t \in schema.duplicated /\ t \in DOMAIN UniqueOf /\ UniqueOf[t] \notin schema.indexes
    BY <1>1, <1>8, <2>1 DEF UpgradeInv, UpgradeTypeOK, DuplicateInv
  <2>3. s0.kind \in IndexKind /\ s0.name = UniqueOf[t]
    BY <1>8, <2>1, <2>2
  <2>4. s0.on = t /\ s0.kind \in {"unique", "repair"}
    BY <1>6, <2>2, <2>3 DEF Sound
  <2> QED
    BY <1>7, <1>8, <2>1, <2>2, <2>4 DEF Refused
<1> QED
  BY <1>9, <1>10, <1>11, <1>12 DEF UpgradeInv

LEMMA StopKeeps ==
  ASSUME UpgradeInv, schema' = schema, startup' = Down, cut' = cut \cup Unfinished
  PROVE  UpgradeInv'
<1>1. /\ startup'.at = 0 /\ startup'.todo = <<>>
      /\ startup' \in [at: 0..15, todo: Seq(Statement)] /\ Todo' = {}
  BY DEF Down, Todo, Members
<1>2. UpgradeTypeOK'
  BY <1>1 DEF UpgradeInv, UpgradeTypeOK
<1>3. DoneInv'
  BY <1>1 DEF DoneInv
<1>4. WholeInv'
  <2>1. SUFFICES ASSUME NEW i \in 1..14, NEW s \in StatementsOf(i), ~Looked(s),
                        s.on \notin cut', s.on \in schema.tables, s \in Todo
                 PROVE  FALSE
    BY <1>1 DEF WholeInv, UpgradeInv
  <2>2. PICK k \in DOMAIN startup.todo : s = startup.todo[k]
    BY <2>1 DEF Todo, Members
  <2>3. s.on \in Unfinished
    BY <2>1, <2>2 DEF Unfinished
  <2> QED
    BY <2>1, <2>3
<1>5. DuplicateInv'
  BY DEF UpgradeInv, DuplicateInv
<1> QED
  BY <1>2, <1>3, <1>4, <1>5 DEF UpgradeInv

LEMMA DuplicateKeeps ==
  ASSUME UpgradeInv, NEW t \in DOMAIN UniqueOf, DuplicateStored(t)
  PROVE  UpgradeInv'
<1>1. /\ UNCHANGED <<startup, cut>> /\ UniqueOf[t] \notin schema.indexes
      /\ schema' = [schema EXCEPT !.duplicated = @ \cup {t}]
  BY DEF DuplicateStored
<1>2. /\ schema'.tables = schema.tables /\ schema'.columns = schema.columns
      /\ schema'.indexes = schema.indexes
      /\ schema'.duplicated = schema.duplicated \cup {t}
      /\ schema' = [tables |-> schema.tables, columns |-> schema.columns,
                    indexes |-> schema.indexes,
                    duplicated |-> schema.duplicated \cup {t}]
  BY <1>1 DEF UpgradeInv, UpgradeTypeOK
<1>3. UpgradeTypeOK'
  BY <1>1, <1>2 DEF UpgradeInv, UpgradeTypeOK
<1>4. Todo' = Todo
  BY <1>1 DEF Todo
<1>5. DoneInv'
  BY <1>1, <1>2, <1>4 DEF UpgradeInv, DoneInv, Due
<1>6. WholeInv'
  BY <1>1, <1>2, <1>4 DEF UpgradeInv, WholeInv
<1>7. DuplicateInv'
  BY <1>1, <1>2 DEF UpgradeInv, DuplicateInv
<1> QED
  BY <1>3, <1>5, <1>6, <1>7 DEF UpgradeInv

LEMMA UpgradeStep == UpgradeInv /\ [SchemaNext]_schemaVars => UpgradeInv'
<1> SUFFICES ASSUME UpgradeInv, [SchemaNext]_schemaVars PROVE UpgradeInv'
  OBVIOUS
<1>1. CASE NextMigration
  BY <1>1, MigrationKeeps
<1>2. CASE ExecuteStatement
  BY <1>2, ExecuteKeeps
<1>3. CASE StatementFails \/ ProcessStops
  BY <1>3, StopKeeps DEF StatementFails, ProcessStops
<1>6. CASE StepFails
  <2>1. startup.todo = <<>> /\ schema' = schema /\ startup' = Down /\ cut' = cut
    BY <1>6 DEF StepFails
  <2>2. Unfinished = {}
    BY <2>1 DEF Unfinished
  <2> QED
    BY <2>1, <2>2, StopKeeps
<1>7. CASE MigrateNodePasswords
  BY <1>7 DEF MigrateNodePasswords, UpgradeInv, UpgradeTypeOK, DoneInv, WholeInv,
              DuplicateInv, Todo
<1>4. ASSUME NEW t \in DOMAIN UniqueOf, DuplicateStored(t) PROVE UpgradeInv'
  BY <1>4, DuplicateKeeps
<1>5. CASE UNCHANGED schemaVars
  BY <1>5 DEF schemaVars, UpgradeInv, UpgradeTypeOK, DoneInv, WholeInv, DuplicateInv, Todo
<1> QED
  BY <1>1, <1>2, <1>3, <1>4, <1>5, <1>6, <1>7 DEF SchemaNext, StartupStep

\* When the API serves, its database lacks nothing of what the ORM selects but
\* what no migration makes and the start selects nothing of: for every database
\* of an older deployment and any number of crashes and lost connections.
THEOREM UpgradeServesMigrated == SchemaSpec => []ServesMigratedSchema
BY InitUpgrade, InheritedInit, UpgradeStep, InheritedStep, UpgradeComplete, PTL DEF SchemaSpec

-----------------------------------------------------------------------------
(* The calendar: the instant computed for a schedule is the first one it asks  *)
(* for after now.                                                              *)

\* A set of numbers has a least one.
LEMMA Least ==
  ASSUME NEW T, T \subseteq Nat, T # {}
  PROVE  \E n \in T : \A m \in T : n <= m
<1> DEFINE R == OpToRel(<, Nat)
<1>1. IsWellFoundedOn(R, Nat)
  BY NatLessThanWellFounded
<1>2. R = {p \in Nat \X Nat : p[1] < p[2]}
  BY DEF OpToRel
<1> HIDE DEF R
<1>3. \E x \in T : \A y \in T : ~(<<y, x>> \in R)
  BY <1>1, WFMin, Zenon
<1>4. \A x \in T, y \in T : ~(<<y, x>> \in R) => x <= y
  BY <1>2
<1> QED
  BY <1>3, <1>4

\* A set that has 0 and, with each number, the next one, has all of them.
LEMMA Induction ==
  ASSUME NEW S, S \subseteq Nat, 0 \in S, \A n \in S : n + 1 \in S
  PROVE  S = Nat
<1> SUFFICES ASSUME Nat \ S # {} PROVE FALSE
  OBVIOUS
<1>1. PICK n \in Nat \ S : \A m \in Nat \ S : n <= m
  <2> DEFINE T == Nat \ S
  <2>1. T \subseteq Nat /\ T # {}
    OBVIOUS
  <2> HIDE DEF T
  <2>2. \E n \in T : \A m \in T : n <= m
    BY <2>1, Least
  <2> QED
    BY <2>2 DEF T
<1>2. n \in Nat /\ n # 0
  BY <1>1
<1>3. n - 1 \in Nat /\ ~(n <= n - 1)
  BY <1>2
<1>4. n - 1 \in S
  BY <1>1, <1>3
<1>5. n - 1 + 1 \in S
  BY <1>4
<1> QED
  BY <1>1, <1>2, <1>5

\* The months, from the assumption on their lengths.
LEMMA MonthsAre ==
  /\ Len(MonthDays) \in Nat /\ Len(MonthDays) > 1
  /\ DOMAIN MonthDays = 1..Len(MonthDays)
  /\ \A m \in 1..Len(MonthDays) : MonthDays[m] \in 28..31
BY CalendarAssumption

\* The recursion of FirstDay has a solution.
LEMMA FirstDayIs ==
  FirstDay = [m \in DOMAIN MonthDays |->
                IF m = 1 THEN 0 ELSE FirstDay[m - 1] + MonthDays[m - 1]]
<1> DEFINE Solved(n, f) ==
      f = [m \in 1..n |-> IF m = 1 THEN 0 ELSE f[m - 1] + MonthDays[m - 1]]
<1> DEFINE S == {n \in Nat : \E f : Solved(n, f)}
<1>1. 0 \in S
  <2>1. Solved(0, [m \in {} |-> 0])
    OBVIOUS
  <2> QED
    BY <2>1
<1>2. ASSUME NEW n \in S PROVE n + 1 \in S
  <2>1. PICK f : Solved(n, f)
    OBVIOUS
  <2> DEFINE g == [m \in 1..n + 1 |-> IF m = 1 THEN 0 ELSE f[m - 1] + MonthDays[m - 1]]
  <2>2. ASSUME NEW m \in 1..n + 1, m # 1 PROVE g[m - 1] = f[m - 1]
    <3>1. m - 1 \in 1..n /\ m - 1 \in 1..n + 1
      BY <2>2
    <3>2. f[m - 1] = IF m - 1 = 1 THEN 0 ELSE f[m - 1 - 1] + MonthDays[m - 1 - 1]
      BY <2>1, <3>1
    <3> QED
      BY <3>1, <3>2
  <2>3. g = [m \in 1..n + 1 |-> IF m = 1 THEN 0 ELSE g[m - 1] + MonthDays[m - 1]]
    BY <2>2
  <2> HIDE DEF g
  <2>4. n + 1 \in Nat /\ \E h : Solved(n + 1, h)
    BY <2>3
  <2> QED
    BY <2>4
<1>3. S \subseteq Nat
  OBVIOUS
<1> HIDE DEF S
<1>4. Len(MonthDays) \in S
  BY <1>1, <1>2, <1>3, Induction, MonthsAre
<1>5. \E f : f = [m \in DOMAIN MonthDays |->
                    IF m = 1 THEN 0 ELSE f[m - 1] + MonthDays[m - 1]]
  BY <1>4, MonthsAre DEF S
<1> QED
  BY <1>5 DEF FirstDay

LEMMA FirstDays ==
  /\ FirstDay[1] = 0
  /\ \A m \in 1..Len(MonthDays) : FirstDay[m] \in Nat
  /\ \A m \in 1..Len(MonthDays) - 1 : FirstDay[m + 1] = FirstDay[m] + MonthDays[m]
<1>1. FirstDay[1] = 0
  BY FirstDayIs, MonthsAre
<1>2. ASSUME NEW m \in 1..Len(MonthDays) - 1
      PROVE  FirstDay[m + 1] = FirstDay[m] + MonthDays[m]
  <2>1. m + 1 \in DOMAIN MonthDays
    BY MonthsAre
  <2>2. m + 1 # 1 /\ m + 1 - 1 = m
    BY MonthsAre
  <2>3. FirstDay[m + 1] = IF m + 1 = 1 THEN 0 ELSE FirstDay[m + 1 - 1] + MonthDays[m + 1 - 1]
    <3> DEFINE h == [k \in DOMAIN MonthDays |->
                       IF k = 1 THEN 0 ELSE FirstDay[k - 1] + MonthDays[k - 1]]
    <3>1. h[m + 1] = IF m + 1 = 1 THEN 0 ELSE FirstDay[m + 1 - 1] + MonthDays[m + 1 - 1]
      BY <2>1
    <3>2. FirstDay = h
      BY FirstDayIs
    <3> HIDE DEF h
    <3> QED
      BY <3>1, <3>2
  <2> QED
    BY <2>2, <2>3
<1> DEFINE S == {n \in Nat : n + 1 \in 1..Len(MonthDays) => FirstDay[n + 1] \in Nat}
<1>3. 0 \in S
  BY <1>1
<1>4. ASSUME NEW n \in S PROVE n + 1 \in S
  BY <1>2, MonthsAre
<1>5. S \subseteq Nat
  OBVIOUS
<1>6. S = Nat
  <2> HIDE DEF S
  <2> QED
    BY <1>3, <1>4, <1>5, Induction
<1>7. ASSUME NEW m \in 1..Len(MonthDays) PROVE FirstDay[m] \in Nat
  <2>1. m - 1 \in Nat /\ m - 1 + 1 = m
    BY MonthsAre
  <2>2. m - 1 \in S
    <3> HIDE DEF S
    <3> QED
      BY <1>6, <2>1
  <2> QED
    BY <2>1, <2>2
<1> QED
  BY <1>1, <1>2, <1>7

LEMMA DaysTyped ==
  \A m \in 1..Len(MonthDays) : FirstDay[m] \in Nat /\ MonthDays[m] \in Nat /\ MonthDays[m] >= 28
BY FirstDays, MonthsAre

DaysOf(m) == FirstDay[m]..FirstDay[m] + MonthDays[m] - 1

\* Months follow one another.
LEMMA MonthsFollow ==
  \A n \in 1..Len(MonthDays) : \A m \in 1..n :
      m < n => FirstDay[m] + MonthDays[m] <= FirstDay[n]
<1> DEFINE S == {k \in Nat : k \in 1..Len(MonthDays) => \A m \in 1..k :
                    m < k => FirstDay[m] + MonthDays[m] <= FirstDay[k]}
<1>1. 0 \in S
  OBVIOUS
<1>2. ASSUME NEW k \in S PROVE k + 1 \in S
  <2> SUFFICES ASSUME k + 1 \in 1..Len(MonthDays), NEW m \in 1..k
               PROVE  FirstDay[m] + MonthDays[m] <= FirstDay[k + 1]
    OBVIOUS
  <2>1. k \in 1..Len(MonthDays) - 1 /\ k \in 1..Len(MonthDays) /\ m \in 1..Len(MonthDays)
    BY MonthsAre
  <2>2. FirstDay[k + 1] = FirstDay[k] + MonthDays[k]
    BY <2>1, FirstDays
  <2>3. /\ FirstDay[k] \in Nat /\ MonthDays[k] \in Nat
        /\ FirstDay[m] \in Nat /\ MonthDays[m] \in Nat
    BY <2>1, DaysTyped
  <2>4. m < k => FirstDay[m] + MonthDays[m] <= FirstDay[k]
    BY <2>1, MonthsAre
  <2> QED
    BY <2>2, <2>3, <2>4
<1>3. S \subseteq Nat
  OBVIOUS
<1>4. S = Nat
  <2> HIDE DEF S
  <2> QED
    BY <1>1, <1>2, <1>3, Induction
<1> QED
  BY <1>4

LEMMA MonthOf ==
  ASSUME NEW m \in 1..Len(MonthDays), NEW day \in DaysOf(m)
  PROVE  Month(day) = m
<1>1. \A n \in 1..Len(MonthDays) : day \in DaysOf(n) => n = m
  <2> SUFFICES ASSUME NEW n \in 1..Len(MonthDays), day \in DaysOf(n) PROVE n = m
    OBVIOUS
  <2>1. /\ FirstDay[n] \in Nat /\ MonthDays[n] \in Nat
        /\ FirstDay[m] \in Nat /\ MonthDays[m] \in Nat
    BY DaysTyped
  <2>2. ~(n < m)
    <3>1. n < m => n \in 1..m /\ FirstDay[n] + MonthDays[n] <= FirstDay[m]
      BY MonthsFollow, MonthsAre
    <3> QED
      BY <2>1, <3>1 DEF DaysOf
  <2>3. ~(m < n)
    <3>1. m < n => m \in 1..n /\ FirstDay[m] + MonthDays[m] <= FirstDay[n]
      BY MonthsFollow, MonthsAre
    <3> QED
      BY <2>1, <3>1 DEF DaysOf
  <2> QED
    BY <2>2, <2>3, MonthsAre
<1> QED
  BY <1>1, MonthsAre DEF Month, DaysOf

-----------------------------------------------------------------------------
\* Instants are ordered by day, then by time of day.
LEMMA DayOf ==
  ASSUME NEW i \in Nat
  PROVE  Day(i) \in Nat /\ i % DayParts \in 0..DayParts - 1 /\ i = At(Day(i), i % DayParts)
BY CalendarAssumption DEF Day, At

LEMMA AtOrder ==
  ASSUME NEW d \in Nat, NEW e \in Nat, NEW t \in 0..DayParts - 1, NEW u \in 0..DayParts - 1
  PROVE  /\ At(d, t) \in Nat
         /\ d < e => At(d, t) < At(e, u)
         /\ At(d, t) < At(e, u) => d <= e
         /\ At(d + 1, t) = At(d, t) + DayParts
         /\ At(d, t) = At(e, u) => d = e /\ t = u
<1>1. DayParts \in Nat /\ d * DayParts \in Nat /\ e * DayParts \in Nat /\ At(d, t) \in Nat
  BY CalendarAssumption DEF At
<1>2. ASSUME NEW a \in Nat, NEW b \in Nat, NEW v \in 0..DayParts - 1, NEW w \in 0..DayParts - 1, a < b
      PROVE  At(a, v) < At(b, w)
  <2>1. PICK k \in Nat : b = a + 1 + k
    <3>1. b - a - 1 \in Nat /\ b = a + 1 + (b - a - 1)
      BY <1>2
    <3> QED
      BY <3>1
  <2>2. b * DayParts = a * DayParts + DayParts + k * DayParts /\ k * DayParts \in Nat
    BY <1>1, <2>1
  <2>3. a * DayParts \in Nat /\ b * DayParts \in Nat
    BY <1>1
  <2> QED
    BY <1>1, <2>2, <2>3 DEF At
<1>3. (d + 1) * DayParts = d * DayParts + DayParts
  BY <1>1
<1>4. At(d, t) < At(e, u) => d <= e
  <2>1. e < d => At(e, u) < At(d, t)
    BY <1>2
  <2>2. At(e, u) \in Nat
    BY <1>1 DEF At
  <2> QED
    BY <1>1, <2>1, <2>2
<1>5. At(d, t) = At(e, u) => d = e /\ t = u
  <2>1. At(d, t) = At(e, u) => ~(e < d) /\ ~(d < e)
    <3>1. e < d => At(e, u) < At(d, t)
      BY <1>2
    <3>2. d < e => At(d, t) < At(e, u)
      BY <1>2
    <3> QED
      BY <1>1, <3>1, <3>2
  <2>2. d = e /\ At(d, t) = At(e, u) => t = u
    BY <1>1 DEF At
  <2> QED
    BY <2>1, <2>2
<1> QED
  BY <1>1, <1>2, <1>3, <1>4, <1>5 DEF At

LEMMA AtIs ==
  ASSUME NEW d \in Nat, NEW t \in 0..DayParts - 1
  PROVE  At(d, t) \in Nat /\ Day(At(d, t)) = d /\ At(d, t) % DayParts = t
<1>1. At(d, t) \in Nat
  BY AtOrder
<1>2. /\ Day(At(d, t)) \in Nat /\ At(d, t) % DayParts \in 0..DayParts - 1
      /\ At(d, t) = At(Day(At(d, t)), At(d, t) % DayParts)
  BY <1>1, DayOf
<1> QED
  BY <1>1, <1>2, AtOrder

\* The next instant of a set of days at a time of day is the only one up to it.
LEMMA FirstAsked ==
  ASSUME NEW now \in Nat, NEW t \in 0..DayParts - 1, NEW D, NEW n \in Nat, n \in D,
         At(n, t) > now, \A d \in Nat : d \in D /\ d < n => At(d, t) <= now
  PROVE  /\ At(n, t) \in Nat
         /\ \A i \in now + 1..At(n, t) :
              (i % DayParts = t /\ Day(i) \in D) <=> i = At(n, t)
<1>1. At(n, t) \in Nat /\ Day(At(n, t)) = n /\ At(n, t) % DayParts = t
  BY AtIs
<1>2. ASSUME NEW i \in now + 1..At(n, t), i % DayParts = t, Day(i) \in D
      PROVE  i = At(n, t)
  <2>1. i \in Nat
    BY <1>1
  <2>2. Day(i) \in Nat /\ i = At(Day(i), t)
    BY <1>2, <2>1, DayOf
  <2>3. ~(Day(i) < n)
    BY <1>2, <2>1, <2>2
  <2>4. ~(n < Day(i))
    <3>1. n < Day(i) => At(n, t) < At(Day(i), t)
      BY <2>2, AtOrder
    <3> QED
      BY <1>1, <2>1, <2>2, <3>1
  <2> QED
    BY <2>2, <2>3, <2>4
<1> QED
  BY <1>1, <1>2

-----------------------------------------------------------------------------
(* The three kinds of schedules. *)

LEMMA LeastOf ==
  ASSUME NEW T, T \subseteq Nat, T # {}
  PROVE  Min(T) \in T /\ \A m \in T : Min(T) <= m
BY Least DEF Min

\* What an instant computed has to be.
Following(now, s, next) ==
  /\ next > now
  /\ \A i \in now + 1..next : Asked(i, s) <=> i = next

\* The day before the clock's has no instant left, each later one has all.
LEMMA Ahead ==
  ASSUME NEW now \in Nat, NEW t \in 0..DayParts - 1, NEW d \in Nat
  PROVE  /\ d < Day(now) => At(d, t) <= now
         /\ d > Day(now) => At(d, t) > now
<1>1. Day(now) \in Nat /\ now % DayParts \in 0..DayParts - 1 /\ now = At(Day(now), now % DayParts)
  BY DayOf
<1> DEFINE u == now % DayParts
<1>2. At(d, t) \in Nat /\ (d < Day(now) => At(d, t) < now)
  <2>1. At(d, t) \in Nat
    BY AtIs
  <2>2. d < Day(now) => At(d, t) < At(Day(now), u)
    BY <1>1, AtOrder
  <2> QED
    BY <1>1, <2>1, <2>2
<1>3. Day(now) < d => now < At(d, t)
  <2>1. Day(now) < d => At(Day(now), u) < At(d, t)
    BY <1>1, AtOrder
  <2> QED
    BY <1>1, <2>1
<1> HIDE DEF u
<1> QED
  BY <1>1, <1>2, <1>3

LEMMA DailyFollows ==
  ASSUME NEW now \in Nat, NEW s \in [type: {"daily"}, time: 0..DayParts - 1]
  PROVE  Following(now, s, NextRun(now, s))
<1> DEFINE d == Day(now)
           t == s.time
<1>1. d \in Nat /\ t \in 0..DayParts - 1 /\ DayParts \in Nat
  BY DayOf, CalendarAssumption
<1>2. NextRun(now, s) = IF At(d, t) <= now THEN At(d, t) + DayParts ELSE At(d, t)
  BY DEF NextRun, DailyRun
<1>3. \A i : Asked(i, s) <=> i % DayParts = t
  BY DEF Asked
<1> HIDE DEF d, t
<1>4. ASSUME NEW n \in Nat, At(n, t) > now, \A e \in Nat : e < n => At(e, t) <= now
      PROVE  Following(now, s, At(n, t))
  <2> DEFINE D == Nat
  <2>1. \A i \in now + 1..At(n, t) : (i % DayParts = t /\ Day(i) \in D) <=> i = At(n, t)
    <3>1. n \in D /\ \A e \in Nat : e \in D /\ e < n => At(e, t) <= now
      BY <1>4
    <3> HIDE DEF D
    <3> QED
      BY <1>1, <1>4, <3>1, FirstAsked
  <2>2. \A i \in now + 1..At(n, t) : Day(i) \in Nat
    <3>1. At(n, t) \in Nat
      BY <1>1, AtOrder
    <3> QED
      BY <3>1, DayOf
  <2> QED
    BY <1>3, <1>4, <2>1, <2>2 DEF Following
<1>5. CASE At(d, t) <= now
  <2>1. d + 1 \in Nat /\ At(d + 1, t) = At(d, t) + DayParts
    BY <1>1, AtOrder
  <2>2. At(d + 1, t) > now
    BY <1>1, <2>1, Ahead DEF d
  <2>3. \A e \in Nat : e < d + 1 => At(e, t) <= now
    <3> SUFFICES ASSUME NEW e \in Nat, e < d + 1 PROVE At(e, t) <= now
      OBVIOUS
    <3>1. e < d \/ e = d
      BY <1>1
    <3> QED
      BY <1>1, <1>5, <3>1, Ahead DEF d
  <2> QED
    BY <1>2, <1>4, <1>5, <2>1, <2>2, <2>3
<1>6. CASE ~(At(d, t) <= now)
  <2>1. At(d, t) > now
    BY <1>1, <1>6, AtOrder
  <2>2. \A e \in Nat : e < d => At(e, t) <= now
    BY <1>1, Ahead DEF d
  <2> QED
    BY <1>1, <1>2, <1>4, <1>6, <2>1, <2>2
<1> QED
  BY <1>5, <1>6

\* Each day of the week comes within seven days.
LEMMA WeekdayComes ==
  ASSUME NEW d \in Nat, NEW w \in 1..7
  PROVE  \E e \in d + 1..d + 7 : Weekday(e) = w
<1>1. \E k \in 1..7 : ((d + k) % 7) + 1 = w
  <2>1. d % 7 \in 0..6
    OBVIOUS
  <2>2. CASE w - 1 - (d % 7) > 0
    <3>1. w - 1 - (d % 7) \in 1..7 /\ ((d + (w - 1 - (d % 7))) % 7) + 1 = w
      BY <2>1, <2>2
    <3> QED
      BY <3>1
  <2>3. CASE ~(w - 1 - (d % 7) > 0)
    <3>1. w + 6 - (d % 7) \in 1..7 /\ ((d + (w + 6 - (d % 7))) % 7) + 1 = w
      BY <2>1, <2>3
    <3> QED
      BY <3>1
  <2> QED
    BY <2>2, <2>3
<1>2. PICK k \in 1..7 : ((d + k) % 7) + 1 = w
  BY <1>1
<1>3. d + k \in d + 1..d + 7 /\ Weekday(d + k) = w
  BY <1>2 DEF Weekday
<1> QED
  BY <1>3

LEMMA WeeklyFollows ==
  ASSUME NEW now \in Nat,
         NEW s \in [type: {"weekly"}, time: 0..DayParts - 1, days: SUBSET (1..7)],
         s.days # {}
  PROVE  Following(now, s, NextRun(now, s))
<1> DEFINE d == Day(now)
           t == s.time
           Open == {e \in d..d + 7 : Weekday(e) \in s.days /\ (At(e, t) > now \/ e > d)}
           D == {e \in Nat : Weekday(e) \in s.days}
           n == Min(Open)
<1>1. d \in Nat /\ t \in 0..DayParts - 1 /\ s.days \subseteq 1..7 /\ s.type = "weekly"
  BY DayOf
<1>2. NextRun(now, s) = CASE s.days = {} -> now + 1
                          [] s.days # {} /\ Open = {} -> now + 7 * DayParts
                          [] OTHER -> At(n, t)
  BY <1>1 DEF NextRun, WeeklyRun
<1>3. \A i : Asked(i, s) <=> i % DayParts = t /\ Weekday(Day(i)) \in s.days
  BY <1>1 DEF Asked
<1> HIDE DEF d, t
<1>4. Open # {}
  <2>1. PICK w \in 1..7 : w \in s.days
    BY <1>1
  <2>2. PICK e \in d + 1..d + 7 : Weekday(e) = w
    BY <1>1, WeekdayComes
  <2>3. e \in d..d + 7 /\ e > d
    BY <1>1
  <2> QED
    BY <2>1, <2>2, <2>3
<1>5. NextRun(now, s) = At(n, t)
  BY <1>2, <1>4
<1>6. Open \subseteq Nat
  BY <1>1
<1>7. n \in Open /\ \A e \in Open : n <= e
  <2> HIDE DEF Open
  <2> QED
    BY <1>4, <1>6, LeastOf
<1> HIDE DEF n
<1>8. n \in Nat /\ n \in D /\ n \in d..d + 7
  BY <1>1, <1>7
<1>9. At(n, t) > now
  BY <1>1, <1>7, <1>8, Ahead DEF d
<1>10. ASSUME NEW e \in Nat, e \in D, e < n PROVE At(e, t) <= now
  <2>1. At(e, t) \in Nat
    BY <1>1, AtOrder
  <2>2. CASE e < d
    BY <1>1, <2>2, Ahead DEF d
  <2>3. CASE ~(e < d)
    <3>1. e \in d..d + 7
      BY <1>1, <1>8, <1>10, <2>3
    <3>2. e \notin Open
      BY <1>7, <1>8, <1>10
    <3> QED
      BY <1>10, <2>1, <3>1, <3>2
  <2> QED
    BY <2>2, <2>3
<1> HIDE DEF D
<1>11. /\ At(n, t) \in Nat
       /\ \A i \in now + 1..At(n, t) : (i % DayParts = t /\ Day(i) \in D) <=> i = At(n, t)
  BY <1>1, <1>8, <1>9, <1>10, FirstAsked
<1>12. \A i \in now + 1..At(n, t) : Day(i) \in D <=> Weekday(Day(i)) \in s.days
  BY <1>11, DayOf DEF D
<1> QED
  BY <1>3, <1>5, <1>9, <1>11, <1>12 DEF Following

\* The day of the month is cut to one that each month has.
LEMMA CutDay ==
  ASSUME NEW dom \in 1..31
  PROVE  /\ Min({28, dom}) \in 1..28
         /\ Max({1, Min({28, dom})}) = Min({28, dom})
<1>1. Min({28, dom}) \in {28, dom} /\ Min({28, dom}) <= 28 /\ Min({28, dom}) <= dom
  <2>1. {28, dom} \subseteq Nat /\ {28, dom} # {}
    OBVIOUS
  <2> QED
    BY <2>1, LeastOf
<1> DEFINE k == Min({28, dom})
<1>2. k \in 1..28
  BY <1>1
<1> HIDE DEF k
<1>3. Max({1, k}) = k
  BY <1>2 DEF Max
<1> QED
  BY <1>2, <1>3 DEF k

\* ... and so is the k-th day of a month that has n days and begins on day f.
LEMMA DayOfMonth ==
  ASSUME NEW f \in Nat, NEW n \in Nat, n >= 28, NEW k \in 1..28
  PROVE  /\ f + k - 1 \in Nat /\ f + k - 1 \in f..f + n - 1
         /\ f + k - 1 - f + 1 = k
         /\ \A e \in f..f + n - 1 : e - f + 1 = k => e = f + k - 1
OBVIOUS

\* A day up to one in the next month is before d, in the month of d or in the next.
LEMMA DaysBefore ==
  ASSUME NEW f \in Nat, NEW n \in Nat, NEW g \in Nat, NEW h \in Nat, g = f + n,
         NEW d \in f..f + n - 1, NEW e \in Nat
  PROVE  /\ \A last \in f..f + n - 1 : e < last => e < d \/ e \in f..f + n - 1
         /\ \A last \in g..g + h - 1 :
              /\ last > d
              /\ e < last => e < d \/ e \in f..f + n - 1 \/ e \in g..g + h - 1
OBVIOUS

\* In each month one day has the number k.
LEMMA DayOfEachMonth ==
  ASSUME NEW k \in 1..28, NEW m \in 1..Len(MonthDays)
  PROVE  /\ FirstDay[m] + k - 1 \in Nat /\ FirstDay[m] + k - 1 \in DaysOf(m)
         /\ \A e \in DaysOf(m) : e - FirstDay[Month(e)] + 1 = k <=> e = FirstDay[m] + k - 1
<1> DEFINE f == FirstDay[m]
           n == MonthDays[m]
<1>1. f \in Nat /\ n \in Nat /\ n >= 28
  BY DaysTyped
<1>2. \A e \in DaysOf(m) : e - FirstDay[Month(e)] + 1 = e - f + 1
  BY MonthOf
<1>3. DaysOf(m) = f..f + n - 1
  BY DEF DaysOf
<1> HIDE DEF f, n
<1>4. /\ f + k - 1 \in Nat /\ f + k - 1 \in f..f + n - 1 /\ f + k - 1 - f + 1 = k
      /\ \A e \in f..f + n - 1 : e - f + 1 = k => e = f + k - 1
  BY <1>1, DayOfMonth
<1>5. ASSUME NEW e \in DaysOf(m)
      PROVE  e - FirstDay[Month(e)] + 1 = k <=> e = f + k - 1
  <2>1. e - FirstDay[Month(e)] + 1 = e - f + 1
    BY <1>2
  <2>2. e - f + 1 = k => e = f + k - 1
    BY <1>3, <1>4
  <2>3. e = f + k - 1 => e - f + 1 = k
    BY <1>1, <1>4
  <2>4. (e - f + 1 = k) \in BOOLEAN /\ (e = f + k - 1) \in BOOLEAN
    OBVIOUS
  <2> QED
    BY <2>1, <2>2, <2>3, <2>4
<1>6. f + k - 1 \in Nat /\ f + k - 1 \in DaysOf(m)
  BY <1>3, <1>4
<1> QED
  BY <1>5, <1>6 DEF f

\* A day before one of the next month lies before d, in the month of d or in the next.
LEMMA BeforeInNext ==
  ASSUME NEW m \in 1..Len(MonthDays) - 1, NEW d \in DaysOf(m), NEW e \in Nat
  PROVE  /\ \A last \in DaysOf(m) : e < last => e < d \/ e \in DaysOf(m)
         /\ \A last \in DaysOf(m + 1) :
              /\ last > d
              /\ e < last => e < d \/ e \in DaysOf(m) \/ e \in DaysOf(m + 1)
<1> DEFINE f == FirstDay[m]
           n == MonthDays[m]
           g == FirstDay[m + 1]
           h == MonthDays[m + 1]
<1>1. m \in 1..Len(MonthDays) /\ m + 1 \in 1..Len(MonthDays)
  BY MonthsAre
<1>2. f \in Nat /\ n \in Nat /\ g \in Nat /\ h \in Nat /\ g = f + n
  BY <1>1, DaysTyped, FirstDays
<1>3. DaysOf(m) = f..f + n - 1 /\ DaysOf(m + 1) = g..g + h - 1
  BY DEF DaysOf
<1> HIDE DEF f, n, g, h
<1>4. d \in f..f + n - 1
  BY <1>3
<1>5. /\ \A last \in f..f + n - 1 : e < last => e < d \/ e \in f..f + n - 1
      /\ \A last \in g..g + h - 1 :
           /\ last > d
           /\ e < last => e < d \/ e \in f..f + n - 1 \/ e \in g..g + h - 1
  BY <1>2, <1>4, DaysBefore
<1> QED
  BY <1>3, <1>5

LEMMA MonthlyFollows ==
  ASSUME NEW now \in Nat,
         NEW s \in [type: {"monthly"}, time: 0..DayParts - 1, dom: 1..31],
         NEW this \in 1..Len(MonthDays) - 1, Day(now) \in DaysOf(this)
  PROVE  Following(now, s, NextRun(now, s))
<1> DEFINE d == Day(now)
           t == s.time
           k == Min({28, s.dom})
           D == {e \in Nat : e - FirstDay[Month(e)] + 1 = k}
           On(m) == FirstDay[m] + k - 1
<1>1. d \in Nat /\ t \in 0..DayParts - 1 /\ s.type = "monthly" /\ s.dom \in 1..31
  BY DayOf
<1>2. k \in 1..28 /\ Max({1, k}) = k
  BY <1>1, CutDay
<1>3. this \in 1..Len(MonthDays) /\ this + 1 \in 1..Len(MonthDays) /\ Month(d) = this
  BY MonthsAre, MonthOf
<1>4. NextRun(now, s) = IF At(On(this), t) <= now THEN At(On(this + 1), t) ELSE At(On(this), t)
  BY <1>1, <1>2, <1>3 DEF NextRun, MonthlyRun
<1>5. \A i : Asked(i, s) <=> i % DayParts = t /\ Day(i) - FirstDay[Month(Day(i))] + 1 = k
  BY <1>1 DEF Asked
<1>6. d \in DaysOf(this)
  OBVIOUS
<1> HIDE DEF d, t, k
<1>7. ASSUME NEW m \in 1..Len(MonthDays)
      PROVE  /\ On(m) \in Nat /\ On(m) \in DaysOf(m)
             /\ \A e \in DaysOf(m) : e - FirstDay[Month(e)] + 1 = k <=> e = On(m)
  BY <1>2, DayOfEachMonth
<1> HIDE DEF On
<1>8. ASSUME NEW m \in 1..Len(MonthDays)
      PROVE  /\ On(m) \in Nat /\ On(m) \in DaysOf(m) /\ On(m) \in D
             /\ \A e \in DaysOf(m) : e \in D => e = On(m)
             /\ At(On(m), t) \in Nat
  BY <1>1, <1>7, AtIs
<1>9. \A e \in Nat : e \in D <=> e - FirstDay[Month(e)] + 1 = k
  OBVIOUS
<1> HIDE DEF D
<1>10. ASSUME NEW n \in Nat, n \in D, At(n, t) > now,
              \A e \in Nat : e \in D /\ e < n => At(e, t) <= now
       PROVE  Following(now, s, At(n, t))
  <2>1. /\ At(n, t) \in Nat
        /\ \A i \in now + 1..At(n, t) : (i % DayParts = t /\ Day(i) \in D) <=> i = At(n, t)
    BY <1>1, <1>10, FirstAsked
  <2>2. \A i \in now + 1..At(n, t) : i \in Nat
    BY <2>1
  <2>3. \A i \in Nat : Day(i) \in Nat
    BY DayOf
  <2>4. \A i \in now + 1..At(n, t) : Asked(i, s) <=> i % DayParts = t /\ Day(i) \in D
    BY <1>5, <1>9, <2>2, <2>3
  <2> QED
    BY <1>10, <2>1, <2>4 DEF Following
<1>11. CASE At(On(this), t) <= now
  <2>1. /\ On(this + 1) \in Nat /\ On(this + 1) \in D /\ On(this + 1) \in DaysOf(this + 1)
    BY <1>3, <1>8
  <2>2. On(this + 1) > d
    BY <1>1, <1>6, <2>1, BeforeInNext
  <2>3. At(On(this + 1), t) > now
    BY <1>1, <2>1, <2>2, Ahead DEF d
  <2>4. ASSUME NEW e \in Nat, e \in D, e < On(this + 1) PROVE At(e, t) <= now
    <3>1. CASE e < d
      BY <1>1, <3>1, Ahead DEF d
    <3>2. CASE e \in DaysOf(this)
      BY <1>3, <1>8, <1>11, <2>4, <3>2
    <3>3. CASE e \in DaysOf(this + 1)
      BY <1>3, <1>8, <2>1, <2>4, <3>3
    <3>4. e < d \/ e \in DaysOf(this) \/ e \in DaysOf(this + 1)
      BY <1>6, <2>1, <2>4, BeforeInNext
    <3> QED
      BY <3>1, <3>2, <3>3, <3>4
  <2> QED
    BY <1>4, <1>10, <1>11, <2>1, <2>3, <2>4
<1>12. CASE ~(At(On(this), t) <= now)
  <2>1. On(this) \in Nat /\ On(this) \in D /\ On(this) \in DaysOf(this)
    BY <1>3, <1>8
  <2>2. At(On(this), t) > now
    BY <1>3, <1>8, <1>12
  <2>3. ASSUME NEW e \in Nat, e \in D, e < On(this) PROVE At(e, t) <= now
    <3>1. CASE e < d
      BY <1>1, <3>1, Ahead DEF d
    <3>2. CASE e \in DaysOf(this)
      BY <1>3, <1>8, <2>1, <2>3, <3>2
    <3>3. e < d \/ e \in DaysOf(this)
      BY <1>6, <2>1, <2>3, BeforeInNext
    <3> QED
      BY <3>1, <3>2, <3>3
  <2> QED
    BY <1>4, <1>10, <1>12, <2>1, <2>2, <2>3
<1> QED
  BY <1>11, <1>12

-----------------------------------------------------------------------------
\* The clock stands in a month that is not the last.
CalendarInv ==
  /\ clock \in Nat /\ schedule \in Schedules
  /\ \E m \in 1..Len(MonthDays) - 1 : Day(clock) \in DaysOf(m)

LEMMA CalendarInitInv == CalendarInit => CalendarInv
<1> SUFFICES ASSUME CalendarInit PROVE CalendarInv
  OBVIOUS
<1>1. Day(0) = 0
  BY CalendarAssumption DEF Day
<1>2. 1 \in 1..Len(MonthDays) - 1 /\ MonthDays[1] \in Nat /\ MonthDays[1] >= 28
  BY MonthsAre
<1>3. 0 \in DaysOf(1)
  BY <1>2, FirstDays DEF DaysOf
<1> QED
  BY <1>1, <1>2, <1>3 DEF CalendarInit, CalendarInv

\* The day after one of a stretch lies in it or in the one that follows.
LEMMA DayAfter ==
  ASSUME NEW f \in Nat, NEW n \in Nat, NEW h \in Nat, h >= 28,
         NEW d \in f..f + n - 1, NEW e, e = d \/ e = d + 1
  PROVE  e \in f..f + n - 1 \/ e \in f + n..f + n + h - 1
OBVIOUS

LEMMA CalendarStep == CalendarInv /\ [Tick]_calendarVars => CalendarInv'
<1> SUFFICES ASSUME CalendarInv, Tick PROVE CalendarInv'
  BY DEF CalendarInv, calendarVars, Day
<1>1. PICK m \in 1..Len(MonthDays) - 1 : Day(clock) \in DaysOf(m)
  BY DEF CalendarInv
<1>2. clock \in Nat /\ clock' = clock + 1 /\ clock + 1 \in Nat
  BY DEF CalendarInv, Tick
<1>3. Day(clock + 1) = Day(clock) \/ Day(clock + 1) = Day(clock) + 1
  <2> DEFINE d == Day(clock)
             u == clock % DayParts
  <2>1. d \in Nat /\ u \in 0..DayParts - 1 /\ clock = At(d, u) /\ DayParts \in Nat \ {0}
    BY <1>2, DayOf, CalendarAssumption
  <2> HIDE DEF d, u
  <2>2. CASE u < DayParts - 1
    <3>1. u + 1 \in 0..DayParts - 1
      BY <2>1, <2>2
    <3>2. clock + 1 = At(d, u + 1)
      BY <2>1 DEF At
    <3> QED
      BY <2>1, <3>1, <3>2, AtIs DEF d
  <2>3. CASE u = DayParts - 1
    <3>1. 0 \in 0..DayParts - 1 /\ d + 1 \in Nat /\ At(d + 1, u) = At(d, u) + DayParts
      BY <2>1, AtOrder
    <3>2. clock + 1 = At(d + 1, 0)
      BY <2>1, <2>3, <3>1 DEF At
    <3> QED
      BY <2>1, <3>1, <3>2, AtIs DEF d
  <2> QED
    BY <2>1, <2>2, <2>3
<1>4. Day(clock) \in Nat /\ m \in 1..Len(MonthDays) /\ m + 1 \in 1..Len(MonthDays)
  <2>1. Day(clock) \in Nat
    BY <1>2, DayOf
  <2>2. m \in 1..Len(MonthDays) /\ m + 1 \in 1..Len(MonthDays)
    BY MonthsAre
  <2> QED
    BY <2>1, <2>2
<1>5. Day(clock + 1) \in DaysOf(m) \/ Day(clock + 1) \in DaysOf(m + 1)
  <2>1. /\ FirstDay[m + 1] = FirstDay[m] + MonthDays[m]
        /\ FirstDay[m] \in Nat /\ MonthDays[m] \in Nat
        /\ FirstDay[m + 1] \in Nat /\ MonthDays[m + 1] \in Nat /\ MonthDays[m + 1] >= 28
    BY <1>1, <1>4, FirstDays, DaysTyped
  <2>2. Day(clock) \in FirstDay[m]..FirstDay[m] + MonthDays[m] - 1
    BY <1>1 DEF DaysOf
  <2>3. Day(clock + 1) \in FirstDay[m]..FirstDay[m] + MonthDays[m] - 1
        \/ Day(clock + 1) \in FirstDay[m + 1]..FirstDay[m + 1] + MonthDays[m + 1] - 1
    BY <1>3, <2>1, <2>2, DayAfter
  <2> QED
    BY <2>3 DEF DaysOf
<1>6. Day(clock + 1) \in DaysOf(m + 1) => m + 1 \in 1..Len(MonthDays) - 1
  BY <1>4, MonthOf, MonthsAre DEF Tick
<1>7. \E k \in 1..Len(MonthDays) - 1 : Day(clock + 1) \in DaysOf(k)
  BY <1>1, <1>5, <1>6
<1> QED
  BY <1>2, <1>7 DEF CalendarInv, Tick

\* A schedule's next instant is the first after now that it asks for.
THEOREM NextRunsFollow == CalendarSpec => []NextRunIsNextAsked
<1>1. CalendarInv => NextRunIsNextAsked
  <2> SUFFICES ASSUME CalendarInv, ~(schedule.type = "weekly" /\ schedule.days = {})
               PROVE  Following(clock, schedule, NextRun(clock, schedule))
    BY DEF NextRunIsNextAsked, Following
  <2>1. clock \in Nat /\ schedule \in ScheduleData
    BY CalendarAssumption DEF CalendarInv
  <2>2. CASE schedule \in [type: {"daily"}, time: 0..DayParts - 1]
    BY <2>1, <2>2, DailyFollows
  <2>3. CASE schedule \in [type: {"weekly"}, time: 0..DayParts - 1, days: SUBSET (1..7)]
    BY <2>1, <2>3, WeeklyFollows
  <2>4. CASE schedule \in [type: {"monthly"}, time: 0..DayParts - 1, dom: 1..31]
    BY <2>1, <2>4, MonthlyFollows DEF CalendarInv
  <2> QED
    BY <2>1, <2>2, <2>3, <2>4 DEF ScheduleData
<1> QED
  BY <1>1, CalendarInitInv, CalendarStep, PTL DEF CalendarSpec

-----------------------------------------------------------------------------
(* Settings and the nightly clean-up: types. *)

LEMMA RetentionInitTypes == RetentionInit => RetentionTypeOK
BY RetentionAssumption DEF RetentionInit, RetentionTypeOK, Waiting

\* What a start of the server writes to the settings.
LEMMA DefaultsTyped ==
  ASSUME RetentionTypeOK, EnsureDefaultConfigs
  PROVE  /\ settings' \in [Setting -> SettingRow \cup {NoSetting}]
         /\ server' \in {"starting", "up", "failed"}
<1>1. DefaultRow \in SettingRow
  BY DEF DefaultRow, SettingRow, DefaultKeys
<1>2. CASE UNCHANGED settings /\ server' = "failed"
  BY <1>2 DEF RetentionTypeOK
<1>3. CASE /\ \E i \in Setting : settings' = [settings EXCEPT ![i] = DefaultRow]
           /\ server' = "up"
  BY <1>1, <1>3 DEF RetentionTypeOK
<1>4. ASSUME NEW i \in Setting, RowsOf("refresh") = {i}, server' = "up",
             settings' = [settings EXCEPT ![i].value = IF @ = "30" THEN "5" ELSE @]
      PROVE  settings' \in [Setting -> SettingRow \cup {NoSetting}]
  <2> DEFINE row == [settings[i] EXCEPT !.value = IF settings[i].value = "30"
                                                  THEN "5" ELSE settings[i].value]
  <2>1. settings[i] \in SettingRow /\ settings[i].key = "refresh"
    <3>1. settings[i].key = "refresh"
      BY <1>4 DEF RowsOf
    <3>2. NoSetting.key # "refresh"
      BY DEF NoSetting
    <3>3. settings[i] \in SettingRow \cup {NoSetting}
      BY DEF RetentionTypeOK
    <3> QED
      BY <3>1, <3>2, <3>3
  <2>2. settings[i] \in [key: DefaultKeys, value: {"30", "5"}]
    BY <2>1 DEF SettingRow
  <2>3. row \in SettingRow
    <3>1. [settings[i] EXCEPT !.value = "5"] \in [key: DefaultKeys, value: {"30", "5"}]
      BY <2>2
    <3>2. [settings[i] EXCEPT !.value = settings[i].value] = settings[i]
      BY <2>2
    <3>3. row \in {[settings[i] EXCEPT !.value = "5"],
                  [settings[i] EXCEPT !.value = settings[i].value]}
      BY Zenon
    <3> QED
      BY <2>2, <3>1, <3>2, <3>3 DEF SettingRow
  <2>4. settings' = [settings EXCEPT ![i] = row]
    BY <1>4
  <2> HIDE DEF row
  <2> QED
    BY <2>3, <2>4 DEF RetentionTypeOK
<1> QED
  BY <1>2, <1>3, <1>4 DEF EnsureDefaultConfigs

LEMMA RetentionStep == RetentionTypeOK /\ [RetentionNext]_retentionVars => RetentionTypeOK'
<1> SUFFICES ASSUME RetentionTypeOK, [RetentionNext]_retentionVars PROVE RetentionTypeOK'
  OBVIOUS
<1>0. /\ settingEdits \in 0..MaxSettingEdit /\ nightFaults \in 0..MaxNightFault
      /\ settingEdits < MaxSettingEdit => settingEdits + 1 \in 0..MaxSettingEdit
      /\ nightFaults < MaxNightFault => nightFaults + 1 \in 0..MaxNightFault
  BY RetentionAssumption DEF RetentionTypeOK
<1>1. ASSUME NEW c \in Editor, CheckNewSetting(c) \/ ReadSetting(c)
      PROVE  RetentionTypeOK'
  <2>1. PICK call \in EditCall : EditBegins(c, call)
    BY <1>1 DEF CheckNewSetting, ReadSetting, EditCall
  <2> QED
    BY <1>0, <2>1 DEF EditBegins, RetentionTypeOK
<1>2. ASSUME NEW c \in Editor, AddConfig(c) \/ UpdateConfig(c)
      PROVE  RetentionTypeOK'
  <2>1. editor[c].row \in SettingRow
    BY <1>2 DEF AddConfig, UpdateConfig, RetentionTypeOK, NoEdit, EditCall
  <2>2. settings' \in [Setting -> SettingRow \cup {NoSetting}]
    BY <1>2, <2>1 DEF AddConfig, UpdateConfig, RetentionTypeOK
  <2> QED
    BY <1>0, <1>2, <2>2 DEF AddConfig, UpdateConfig, EditEnds, RetentionTypeOK
<1>3. ASSUME NEW i \in Setting, DeleteConfig(i)
      PROVE  RetentionTypeOK'
  BY <1>0, <1>3 DEF DeleteConfig, RetentionTypeOK
<1>4. CASE ServerStarts
  BY <1>0, <1>4, DefaultsTyped DEF ServerStarts, RetentionTypeOK
<1>5. CASE ServerRestarts
  BY <1>0, <1>5, DefaultsTyped DEF ServerRestarts, RetentionTypeOK, Waiting
<1>6. CASE CleanupWakes \/ CleanupReportsDone \/ CleanupLogs
  <2>1. night' \in [pc: {"asleep", "reports", "logs"}, list: SUBSET Kept, broken: BOOLEAN]
    <3>1. CASE CleanupWakes
      BY <3>1 DEF CleanupWakes
    <3>2. CASE CleanupReportsDone
      BY <3>2 DEF CleanupReportsDone, RetentionTypeOK
    <3>3. CASE CleanupLogs
      BY <3>3 DEF CleanupLogs, Waiting
    <3> QED
      BY <1>6, <3>1, <3>2, <3>3
  <2> QED
    BY <1>6, <2>1 DEF CleanupWakes, CleanupReportsDone, CleanupLogs, RetentionTypeOK
<1>7. ASSUME NEW r \in Kept, CleanupReport(r)
      PROVE  RetentionTypeOK'
  BY <1>0, <1>7 DEF CleanupReport, RetentionTypeOK
<1>8. ASSUME NEW r \in Kept, CleanupReportFails(r)
      PROVE  RetentionTypeOK'
  <2>1. night' \in [pc: {"asleep", "reports", "logs"}, list: SUBSET Kept, broken: BOOLEAN]
    BY <1>8 DEF CleanupReportFails, RetentionTypeOK
  <2>2. nightFaults' \in 0..MaxNightFault
    BY <1>0, <1>8 DEF CleanupReportFails, RetentionTypeOK
  <2> QED
    BY <1>8, <2>1, <2>2 DEF CleanupReportFails, RetentionTypeOK
<1>9. ASSUME NEW r \in Kept, RunEnds(r) \/ ReportExpires(r) \/ ReportDeleted(r)
      PROVE  RetentionTypeOK'
  BY <1>0, <1>9 DEF RunEnds, ReportExpires, ReportDeleted, RetentionTypeOK
<1>10. CASE UNCHANGED retentionVars
  BY <1>10 DEF retentionVars, RetentionTypeOK
<1> QED
  BY <1>1, <1>2, <1>3, <1>4, <1>5, <1>6, <1>7, <1>8, <1>9, <1>10
     DEF RetentionNext, CleanupStep

-----------------------------------------------------------------------------
(* All services of the process together. *)

\* The tables a crash cut off, and the count of the crashes.
CutOK == cut \subseteq SchemaTables /\ stops \in 0..MaxStop

LEMMA CutStep == UpgradeInv /\ CutOK /\ [SchemaNext]_schemaVars => CutOK'
<1> SUFFICES ASSUME UpgradeInv, CutOK, [SchemaNext]_schemaVars PROVE CutOK'
  OBVIOUS
<1>1. schema.tables \subseteq SchemaTables
  BY DEF UpgradeInv, UpgradeTypeOK
<1>2. stops < MaxStop => stops + 1 \in 0..MaxStop
  BY SchemaAssumption DEF CutOK
<1>3. CASE StatementFails \/ ProcessStops
  BY <1>1, <1>2, <1>3 DEF StatementFails, ProcessStops, Unfinished, CutOK
<1> QED
  BY <1>3 DEF SchemaNext, StartupStep, NextMigration, ExecuteStatement, StepFails,
              MigrateNodePasswords, DuplicateStored, schemaVars, CutOK

ServicesInv ==
    /\ service \in Services
    /\ SchedulerInv /\ AiInv /\ AccountsInv /\ UpgradeInv
    /\ InheritedInv /\ CutOK /\ RetentionTypeOK

LEMMA ServicesInitInv == Init => ServicesInv
<1>1. SchemaInit => CutOK
  BY SchemaAssumption DEF SchemaInit, CutOK
<1> QED
  BY <1>1, SchedulerInitInv, AiInitInv, AccountsInitInv, InitUpgrade, InheritedInit,
     RetentionInitTypes
     DEF Init, ServicesInv

LEMMA ServicesStep == ServicesInv /\ [Next]_vars => ServicesInv'
<1> SUFFICES ASSUME ServicesInv, [Next]_vars PROVE ServicesInv'
  OBVIOUS
<1>1. /\ service' = service
      /\ [SchedulerNext]_schedulerVars /\ [AiNext]_aiVars /\ [AccountsNext]_accountVars
      /\ [SchemaNext]_schemaVars /\ [RetentionNext]_retentionVars
  BY DEF Next, vars
<1> QED
  BY <1>1, SchedulerStep, AiStep, AccountsStep, UpgradeStep, InheritedStep, CutStep, RetentionStep
     DEF ServicesInv

\* Rows, loops and calls of the services keep their types, whichever of the
\* services moves.
THEOREM ServicesTyped == FairSpec => []TypeOK
<1>1. ServicesInv => TypeOK
  BY DEF ServicesInv, SchedulerInv, AiInv, AccountsInv, UpgradeInv, UpgradeTypeOK,
         InheritedInv, CutOK, SchemaTypeOK, Serving, TypeOK
<1> QED
  BY <1>1, ServicesInitInv, ServicesStep, PTL DEF FairSpec
=============================================================================
