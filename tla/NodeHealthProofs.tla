-------------------------- MODULE NodeHealthProofs --------------------------
(***************************************************************************)
(* Theorems about NodeHealth, for any numbers of nodes, hosts, sessions,   *)
(* edits and faults.                                                       *)
(***************************************************************************)
EXTENDS NodeHealth, TLAPS

USE DEF NoProbe, Idle

-----------------------------------------------------------------------------
(* Types. *)

\* What the assignments of the sessions need to know about a busy one.
LEMMA BusyRequest ==
    ASSUME TypeOK, NEW c \in Caller, request[c].pc # "idle"
    PROVE  /\ request[c] \in Request
           /\ request[c].node \in Node /\ request[c].host \in Host
           /\ request[c].row \in Row /\ HostOf(c) \in Host
BY DEF TypeOK, Request, HostOf, Row

\* ... and those of the heartbeat about a probe on its way.
LEMMA BusyProbe ==
    ASSUME TypeOK, NEW n \in Node, probe[n].pc # "none"
    PROVE  /\ probe[n] \in Probe
           /\ probe[n].row \in Row /\ ProbedHost(n) \in Host
BY DEF TypeOK, Probe, ProbedHost, Row

\* A request ends, goes on, or begins.
LEMMA EndTyped ==
    ASSUME TypeOK, NEW c \in Caller, End(c)
    PROVE  request' \in [Caller -> {Idle} \cup Request]
BY DEF TypeOK, End

LEMMA GotoTyped ==
    ASSUME TypeOK, NEW c \in Caller, request[c].pc # "idle",
           NEW pc \in {"check", "start", "verify", "fail", "inspect", "kill",
                       "again", "rekill", "restart", "sick"},
           Goto(c, pc)
    PROVE  request' \in [Caller -> {Idle} \cup Request]
<1>1. request[c] \in Request
  BY BusyRequest
<1>2. [request[c] EXCEPT !.pc = pc] \in Request
  BY <1>1 DEF Request
<1> QED
  BY <1>2 DEF TypeOK, Goto

LEMMA BeginTyped ==
    ASSUME TypeOK, NEW c \in Caller, NEW n \in Node, NEW h \in Host,
           NEW pc \in {"add", "update", "enable", "disable", "run"},
           Begin(c, n, pc, h)
    PROVE  request' \in [Caller -> {Idle} \cup Request]
<1>1. [pc |-> pc, node |-> n, row |-> row[n], host |-> h] \in Request
  BY DEF TypeOK, Request
<1> QED
  BY <1>1 DEF Begin, TypeOK

\* A commit keeps the type of the table, and stamps and counts alike.
LEMMA CommitTyped ==
    ASSUME TypeOK, NEW c \in Caller, request[c].pc # "idle",
           NEW new \in Row, Commit(c, new)
    PROVE  row' \in [Node -> Row]
<1>1. request[c].node \in Node
  BY BusyRequest
<1> DEFINE n == request[c].node
<1>2. PICK t \in Stamps(row[n]) :
        row' = [row EXCEPT ![n] = [new EXCEPT !.modified = t, !.edits = @ + 1]]
  BY DEF Commit, Save
<1>3. t \in Nat
  BY <1>1 DEF Stamps, TypeOK, Row
<1>4. [new EXCEPT !.modified = t, !.edits = @ + 1] \in Row
  <2>1. new.edits \in Nat /\ new.edits + 1 \in Nat
    BY DEF Row
  <2>2. [new EXCEPT !.modified = t] \in Row
    BY <1>3 DEF Row
  <2> QED
    BY <2>1, <2>2 DEF Row
<1> QED
  BY <1>2, <1>4 DEF TypeOK

\* Administration: what a request loads, what it commits, how it goes on.
LEMMA AdministrateTyped ==
    ASSUME TypeOK, NEW c \in Caller, Administrate(c)
    PROVE  TypeOK'
<1> USE DEF rows
<1>1. CASE RequestAdd(c) \/ RequestUpdate(c) \/ RequestEnable(c) \/ RequestDisable(c)
  <2>1. request' \in [Caller -> {Idle} \cup Request]
    <3>1. PICK n \in Node, h \in Host, pc \in {"add", "update", "enable", "disable"} :
            Begin(c, n, pc, h)
      BY <1>1 DEF RequestAdd, RequestUpdate, RequestEnable, RequestDisable
    <3> QED
      BY <3>1, BeginTyped
  <2> QED
    BY <1>1, <2>1
       DEF TypeOK, Begin, RequestAdd, RequestUpdate, RequestEnable, RequestDisable
<1>2. CASE Delete(c)
  <2>1. PICK n \in Node : row' = [row EXCEPT ![n].state = "deleted"]
    BY <1>2 DEF Delete
  <2>2. [row[n] EXCEPT !.state = "deleted"] \in Row
    BY DEF TypeOK, Row
  <2> QED
    BY <1>2, <2>1, <2>2 DEF TypeOK, Delete
<1> QED
  BY <1>1, <1>2 DEF Administrate

LEMMA AddTyped ==
    ASSUME TypeOK, NEW c \in Caller, Add(c)
    PROVE  TypeOK'
<1>1. request[c].node \in Node /\ request[c].host \in Host
  BY BusyRequest DEF Add
<1>2. [NewRow(request[c].host) EXCEPT !.state = "disabled"] \in Row
  BY <1>1 DEF NewRow, Row
<1>3. request' \in [Caller -> {Idle} \cup Request]
  BY EndTyped DEF Add
<1> QED
  BY <1>1, <1>2, <1>3 DEF Add, TypeOK

\* update, enable, the failure of enable, and disable commit a changed row.
LEMMA EditCommits ==
    ASSUME TypeOK, NEW c \in Caller,
           Update(c) \/ Enable(c) \/ EnableFails(c) \/ Disable(c)
    PROVE  /\ request[c].pc # "idle" /\ request[c].node \in Node
           /\ \E new \in Row :
                Commit(c, new) /\ new.edits = row[request[c].node].edits
<1> DEFINE n == request[c].node
<1>1. request[c].pc # "idle" /\ n \in Node /\ request[c].host \in Host
  BY BusyRequest DEF Update, Enable, EnableFails, Disable
<1>2. row[n] \in Row
  BY <1>1 DEF TypeOK
<1>3. \E new \in Row : Commit(c, new) /\ new.edits = row[n].edits
  <2>1. CASE Update(c)
    <3>1. /\ [row[n] EXCEPT !.host = request[c].host] \in Row
          /\ [row[n] EXCEPT !.host = request[c].host].edits = row[n].edits
      BY <1>1, <1>2 DEF Row
    <3> QED
      BY <1>2, <2>1, <3>1 DEF Update
  <2>2. CASE Enable(c)
    <3>1. /\ [row[n] EXCEPT !.state = "enabled"] \in Row
          /\ [row[n] EXCEPT !.state = "enabled"].edits = row[n].edits
      BY <1>2 DEF Row
    <3> QED
      BY <2>2, <3>1 DEF Enable
  <2>3. CASE EnableFails(c)
    <3>1. /\ [row[n] EXCEPT !.state = "failed"] \in Row
          /\ [row[n] EXCEPT !.state = "failed"].edits = row[n].edits
      BY <1>2 DEF Row
    <3> QED
      BY <2>3, <3>1 DEF EnableFails
  <2>4. CASE Disable(c)
    <3> DEFINE loaded == request[c].row
               s == IF loaded.state = "disabled" THEN row[n].state ELSE "disabled"
               h == IF loaded.health THEN FALSE ELSE row[n].health
    <3>1. /\ s \in {"new", "disabled", "enabled", "failed", "deleted"}
          /\ h \in BOOLEAN
      BY <1>2 DEF Row
    <3>2. /\ [row[n] EXCEPT !.state = s, !.health = h] \in Row
          /\ [row[n] EXCEPT !.state = s, !.health = h].edits = row[n].edits
      <4>1. /\ [row[n] EXCEPT !.state = s] \in Row
            /\ [row[n] EXCEPT !.state = s].edits = row[n].edits
        BY <1>2, <3>1 DEF Row
      <4> QED
        BY <3>1, <4>1 DEF Row
    <3>3. Commit(c, [row[n] EXCEPT !.state = s, !.health = h])
      BY <2>4, <1>2 DEF Disable, Row
    <3> QED
      BY <3>2, <3>3
  <2> QED
    BY <2>1, <2>2, <2>3, <2>4
<1> QED
  BY <1>1, <1>3

LEMMA EditTyped ==
    ASSUME TypeOK, NEW c \in Caller,
           Update(c) \/ Enable(c) \/ EnableFails(c) \/ Disable(c)
    PROVE  TypeOK'
<1>1. PICK new \in Row : Commit(c, new)
  BY EditCommits
<1>2. request' \in [Caller -> {Idle} \cup Request]
  BY EditCommits, EndTyped, GotoTyped DEF Update, Enable, EnableFails, Disable
<1>3. row' \in [Node -> Row]
  BY <1>1, EditCommits, CommitTyped
<1> QED
  BY <1>1, <1>2, <1>3 DEF TypeOK, Commit

\* The SSH steps of a session touch its position, engines and faults.
LEMMA SshTyped ==
    ASSUME TypeOK, NEW c \in Caller,
           \/ CommitLost(c) \/ EnableChecks(c) \/ EnableStarts(c)
           \/ EnableVerifies(c) \/ DisableInspects(c) \/ DisableKills(c)
           \/ StopShutsDown(c) \/ StopRestarts(c)
    PROVE  TypeOK'
<1> USE DEF CommitLost, EnableChecks, EnableStarts, EnableVerifies,
            DisableInspects, DisableKills, StopShutsDown, StopRestarts, Fault, rows
<1>1. request[c].pc # "idle" /\ HostOf(c) \in Host
  BY BusyRequest
<1>2. request' \in [Caller -> {Idle} \cup Request]
  <2>1. End(c) \/ \E pc \in {"check", "start", "verify", "fail", "inspect", "kill",
                            "again", "rekill", "restart", "sick"} : Goto(c, pc)
    OBVIOUS
  <2> QED
    BY <1>1, <2>1, EndTyped, GotoTyped
<1>3. engine' \in SUBSET Host
  BY <1>1 DEF TypeOK
<1> QED
  BY <1>2, <1>3 DEF TypeOK

\* A run reads the node it uses; its stop writes health alone.
LEMMA RunTyped ==
    ASSUME TypeOK, NEW c \in Caller,
           RequestRun(c) \/ RunEnds(c) \/ RequestStop(c) \/ StopMarksSick(c)
    PROVE  TypeOK'
<1> USE DEF rows
<1>1. CASE RequestRun(c)
  <2>1. request' \in [Caller -> {Idle} \cup Request]
    <3>1. PICK n \in Node, h \in Host : Begin(c, n, "run", h)
      BY <1>1 DEF RequestRun
    <3> QED
      BY <3>1, BeginTyped
  <2> QED
    BY <1>1, <2>1 DEF RequestRun, Begin, TypeOK
<1>2. CASE RunEnds(c)
  BY <1>2 DEF RunEnds, End, TypeOK
<1>3. CASE RequestStop(c)
  <2>1. PICK n \in Node :
          request' = [request EXCEPT ![c] =
            [@ EXCEPT !.pc = "shutdown", !.node = n, !.row = row[n]]]
    BY <1>3 DEF RequestStop
  <2>2. request[c] \in Request /\ row[n] \in Row
    BY <1>3, BusyRequest DEF RequestStop, TypeOK
  <2>3. [request[c] EXCEPT !.pc = "shutdown", !.node = n, !.row = row[n]] \in Request
    <3>1. [request[c] EXCEPT !.pc = "shutdown"] \in Request
      BY <2>2 DEF Request
    <3>2. [request[c] EXCEPT !.pc = "shutdown", !.node = n] \in Request
      BY <3>1 DEF Request
    <3> QED
      BY <2>2, <3>2 DEF Request
  <2> QED
    BY <1>3, <2>1, <2>3 DEF RequestStop, TypeOK
<1>4. CASE StopMarksSick(c)
  <2>1. request[c].node \in Node /\ row[request[c].node] \in Row
    BY <1>4, BusyRequest DEF StopMarksSick, TypeOK
  <2>2. [row[request[c].node] EXCEPT !.health = FALSE] \in Row
    BY <2>1 DEF Row
  <2> QED
    BY <1>4, <2>1, <2>2 DEF StopMarksSick, End, TypeOK
<1> QED
  BY <1>1, <1>2, <1>3, <1>4

\* A probe moves to another position.
LEMMA GoesTyped ==
    ASSUME TypeOK, NEW n \in Node, probe[n].pc # "none",
           NEW pc \in {"connect", "start", "verify", "done"}, NEW up \in BOOLEAN,
           Goes(n, pc, up)
    PROVE  probe' \in [Node -> {NoProbe} \cup Probe]
<1>1. probe[n] \in Probe
  BY BusyProbe
<1>2. [probe[n] EXCEPT !.pc = pc, !.up = up] \in Probe
  <2>1. [probe[n] EXCEPT !.pc = pc] \in Probe
    BY <1>1 DEF Probe
  <2> QED
    BY <2>1 DEF Probe
<1> QED
  BY <1>2 DEF Goes, TypeOK

LEMMA ProbeTyped ==
    ASSUME TypeOK, NEW n \in Node,
           ProbeLooks(n) \/ ProbeStarts(n) \/ ProbeVerifies(n)
    PROVE  TypeOK'
<1> USE DEF ProbeLooks, ProbeStarts, ProbeVerifies, Fault
<1>1. probe[n].pc # "none" /\ ProbedHost(n) \in Host
  BY BusyProbe
<1>2. probe[n].up \in BOOLEAN
  BY <1>1, BusyProbe DEF Probe
<1>3. PICK pc \in {"connect", "start", "verify", "done"}, up \in BOOLEAN :
        Goes(n, pc, up)
  <2>1. CASE ProbeLooks(n)
    BY <2>1
  <2>2. CASE ProbeStarts(n)
    BY <2>2
  <2>3. CASE ProbeVerifies(n)
    <3>1. (probe[n].up \/ ProbedHost(n) \in engine) \in BOOLEAN
      BY <1>2
    <3> QED
      BY <2>3, <3>1
  <2> QED
    BY <2>1, <2>2, <2>3
<1>4. probe' \in [Node -> {NoProbe} \cup Probe]
  BY <1>1, <1>3, GoesTyped
<1>5. engine' \in SUBSET Host
  BY <1>1 DEF TypeOK
<1>6. faults' \in Nat
  <2>1. faults' = faults \/ faults' = faults + 1
    OBVIOUS
  <2> QED
    BY <2>1 DEF TypeOK
<1>7. UNCHANGED <<row, request>>
  OBVIOUS
<1> HIDE DEF ProbeLooks, ProbeStarts, ProbeVerifies, Fault
<1> QED
  BY <1>4, <1>5, <1>6, <1>7 DEF TypeOK

LEMMA RoundTyped ==
    ASSUME TypeOK, BeginRound \/ WriteRound \/ RoundLost
    PROVE  TypeOK'
<1>1. CASE BeginRound
  <2>1. \A n \in Node : [pc |-> "connect", row |-> row[n], up |-> FALSE] \in Probe
    BY DEF TypeOK, Probe
  <2> QED
    BY <1>1, <2>1 DEF BeginRound, TypeOK
<1>2. CASE WriteRound
  <2>1. ASSUME NEW n \in Node, probe[n].pc = "done"
        PROVE  [row[n] EXCEPT !.health = probe[n].up] \in Row
    <3>1. probe[n].up \in BOOLEAN /\ row[n] \in Row
      BY <2>1, BusyProbe DEF Probe, TypeOK
    <3> QED
      BY <3>1 DEF Row
  <2> QED
    BY <1>2, <2>1 DEF WriteRound, RoundOver, TypeOK
<1>3. CASE RoundLost
  BY <1>3 DEF RoundLost, RoundOver, Fault, TypeOK
<1> QED
  BY <1>1, <1>2, <1>3

\* Rows, engines, probes and requests keep their types in every behaviour.
THEOREM TypeCorrect == Spec => []TypeOK
<1>1. Init => TypeOK
  BY DEF Init, TypeOK, NewRow, Row
<1>2. TypeOK /\ [Next]_vars => TypeOK'
  <2> SUFFICES ASSUME TypeOK, [Next]_vars PROVE TypeOK'
    OBVIOUS
  <2>1. CASE UNCHANGED vars
    BY <2>1 DEF vars, TypeOK
  <2>2. ASSUME NEW c \in Caller,
               \/ Administrate(c) \/ Proceed(c)
               \/ RequestRun(c) \/ RunEnds(c) \/ RequestStop(c)
        PROVE  TypeOK'
    BY <2>2, AdministrateTyped, AddTyped, EditTyped, SshTyped, RunTyped
       DEF Proceed
  <2>3. CASE Heartbeat \/ RoundLost
    BY <2>3, ProbeTyped, RoundTyped DEF Heartbeat
  <2>4. CASE EngineDies \/ Crash
    BY <2>4 DEF EngineDies, Crash, Fault, rows, TypeOK
  <2> QED
    BY <2>1, <2>2, <2>3, <2>4 DEF Next
<1> QED
  BY <1>1, <1>2, PTL DEF Spec

-----------------------------------------------------------------------------
(* The comparison of modify_time. *)

\* When two edits of a row never lie in one second, the stamp of a row, and of
\* the row a probe remembers, counts the edits.
StampInv ==
    \A n \in Node :
        /\ row[n].modified = row[n].edits
        /\ probe[n].pc # "none" => probe[n].row.modified = probe[n].row.edits

\* The sessions leave the heartbeat alone.
LEMMA SessionsOnly ==
    ASSUME NEW c \in Caller,
           \/ Administrate(c) \/ Proceed(c)
           \/ RequestRun(c) \/ RunEnds(c) \/ RequestStop(c)
    PROVE  UNCHANGED probe
<1> USE DEF rows
<1>1. CASE Administrate(c)
  BY <1>1 DEF Administrate, RequestAdd, RequestUpdate, Delete, RequestEnable,
              RequestDisable, Begin
<1>2. CASE Add(c) \/ Update(c) \/ CommitLost(c) \/ Enable(c) \/ EnableFails(c)
           \/ Disable(c) \/ StopMarksSick(c)
  BY <1>2 DEF Add, Update, CommitLost, Enable, EnableFails, Disable,
              StopMarksSick, Commit
<1>3. CASE EnableChecks(c) \/ EnableStarts(c) \/ EnableVerifies(c)
           \/ DisableInspects(c) \/ DisableKills(c) \/ StopShutsDown(c)
           \/ StopRestarts(c)
  BY <1>3 DEF EnableChecks, EnableStarts, EnableVerifies, DisableInspects,
              DisableKills, StopShutsDown, StopRestarts
<1>4. CASE RequestRun(c) \/ RunEnds(c) \/ RequestStop(c)
  BY <1>4 DEF RequestRun, RunEnds, RequestStop, Begin
<1> QED
  BY <1>1, <1>2, <1>3, <1>4 DEF Proceed

\* A step moves the heartbeat or the rows, unless it ends a round.
LEMMA RoundAlone ==
    ASSUME TypeOK, [Next]_vars
    PROVE  UNCHANGED row \/ UNCHANGED probe \/ WriteRound
<1> USE DEF rows
<1>1. ASSUME BeginRound \/ RoundLost \/ EngineDies \/ Crash
             \/ \E n \in Node : ProbeLooks(n) \/ ProbeStarts(n) \/ ProbeVerifies(n)
      PROVE  UNCHANGED row
  BY <1>1 DEF BeginRound, RoundLost, EngineDies, Crash, ProbeLooks, ProbeStarts,
              ProbeVerifies
<1> QED
  BY <1>1, SessionsOnly DEF Next, Heartbeat, vars

\* An edit counts and stamps; what else writes a row leaves both alone.
LEMMA RowStamped ==
    ASSUME DistinctSeconds, TypeOK, StampInv, [Next]_vars, NEW n \in Node
    PROVE  row'[n].modified = row'[n].edits
<1> USE DEF rows
<1>1. row[n] \in Row /\ row[n].modified = row[n].edits
  BY DEF StampInv, TypeOK
<1>2. CASE UNCHANGED row
  BY <1>1, <1>2
<1>3. ASSUME NEW m \in Node, NEW new \in Row, Save(m, new),
             new.edits = row[m].edits
      PROVE  row'[n].modified = row'[n].edits
  <2>1. row' = [row EXCEPT ![m] =
                  [new EXCEPT !.modified = row[m].modified + 1, !.edits = @ + 1]]
    BY <1>3 DEF Save, Stamps
  <2>2. row[m].modified = row[m].edits
    BY DEF StampInv
  <2>3. [new EXCEPT !.modified = row[m].modified + 1, !.edits = @ + 1].modified
          = [new EXCEPT !.modified = row[m].modified + 1, !.edits = @ + 1].edits
    BY <1>3, <2>2 DEF Row
  <2> QED
    BY <1>1, <2>1, <2>3 DEF TypeOK
<1>4. ASSUME NEW c \in Caller,
             Update(c) \/ Enable(c) \/ EnableFails(c) \/ Disable(c)
      PROVE  row'[n].modified = row'[n].edits
  <2>1. request[c].node \in Node /\ request[c].host \in Host
    BY <1>4, BusyRequest DEF Update, Enable, EnableFails, Disable
  <2>2. row[request[c].node] \in Row
    BY <2>1 DEF TypeOK
  <2>3. PICK new \in Row : Commit(c, new) /\ new.edits = row[request[c].node].edits
    BY <1>4, <2>1, <2>2, EditCommits
  <2> QED
    BY <1>3, <2>1, <2>3 DEF Commit
<1>5. ASSUME NEW c \in Caller, Add(c)
      PROVE  row'[n].modified = row'[n].edits
  BY <1>1, <1>5 DEF Add, NewRow, TypeOK
<1>6. ASSUME NEW c \in Caller, Delete(c) \/ StopMarksSick(c)
      PROVE  row'[n].modified = row'[n].edits
  BY <1>1, <1>6 DEF Delete, StopMarksSick, TypeOK, Row
<1>7. CASE WriteRound
  BY <1>1, <1>7 DEF WriteRound, Row
<1>8. ASSUME NEW c \in Caller,
             \/ Administrate(c) \/ Proceed(c)
             \/ RequestRun(c) \/ RunEnds(c) \/ RequestStop(c)
      PROVE  row'[n].modified = row'[n].edits
  <2>1. CASE CommitLost(c) \/ EnableChecks(c) \/ EnableStarts(c) \/ EnableVerifies(c)
             \/ DisableInspects(c) \/ DisableKills(c) \/ StopShutsDown(c)
             \/ StopRestarts(c)
    BY <1>2, <2>1
       DEF CommitLost, EnableChecks, EnableStarts, EnableVerifies,
           DisableInspects, DisableKills, StopShutsDown, StopRestarts
  <2>2. CASE RequestAdd(c) \/ RequestUpdate(c) \/ RequestEnable(c)
             \/ RequestDisable(c) \/ RequestRun(c) \/ RunEnds(c) \/ RequestStop(c)
    BY <1>2, <2>2
       DEF RequestAdd, RequestUpdate, RequestEnable, RequestDisable, RequestRun,
           RunEnds, RequestStop, Begin
  <2> QED
    BY <1>4, <1>5, <1>6, <1>8, <2>1, <2>2 DEF Administrate, Proceed
<1>9. CASE Heartbeat \/ RoundLost \/ EngineDies \/ Crash
  BY <1>2, <1>7, <1>9
     DEF Heartbeat, BeginRound, RoundLost, EngineDies, Crash, ProbeLooks,
         ProbeStarts, ProbeVerifies
<1> QED
  BY <1>2, <1>8, <1>9 DEF Next, vars

\* A probe remembers the row as it was: the snapshot is stamped as the row is.
LEMMA ProbeStamped ==
    ASSUME TypeOK, StampInv, [Next]_vars, NEW n \in Node,
           probe'[n].pc # "none"
    PROVE  probe'[n].row.modified = probe'[n].row.edits
<1>1. CASE UNCHANGED probe
  BY <1>1 DEF StampInv
<1>2. CASE WriteRound \/ RoundLost \/ Crash
  BY <1>2 DEF WriteRound, RoundLost, RoundOver, Crash
<1>3. CASE BeginRound
  BY <1>3 DEF BeginRound, StampInv
<1>4. ASSUME NEW m \in Node, ProbeLooks(m) \/ ProbeStarts(m) \/ ProbeVerifies(m)
      PROVE  probe'[n].row.modified = probe'[n].row.edits
  <2>1. probe[m].pc # "none"
    BY <1>4 DEF ProbeLooks, ProbeStarts, ProbeVerifies
  <2>2. \E pc, up : Goes(m, pc, up)
    BY <1>4 DEF ProbeLooks, ProbeStarts, ProbeVerifies
  <2>3. PICK pc, up : probe' = [probe EXCEPT ![m] = [@ EXCEPT !.pc = pc, !.up = up]]
    BY <2>2 DEF Goes
  <2>4. CASE n = m
    <3>1. probe[m] \in Probe
      BY <2>1, BusyProbe
    <3>2. probe'[n] = [probe[m] EXCEPT !.pc = pc, !.up = up]
      BY <2>3, <2>4 DEF TypeOK
    <3>3. probe'[n].row = probe[m].row
      BY <3>1, <3>2 DEF Probe
    <3> QED
      BY <2>1, <3>3 DEF StampInv
  <2>5. CASE n # m
    <3>1. probe'[n] = probe[n]
      BY <2>3, <2>5 DEF TypeOK
    <3> QED
      BY <3>1 DEF StampInv
  <2> QED
    BY <2>4, <2>5
<1>5. CASE UNCHANGED row
  <2>1. Next \/ UNCHANGED vars
    OBVIOUS
  <2>2. CASE \E c \in Caller :
               \/ Administrate(c) \/ Proceed(c)
               \/ RequestRun(c) \/ RunEnds(c) \/ RequestStop(c)
    BY <1>1, <2>2, SessionsOnly
  <2>3. CASE EngineDies \/ UNCHANGED vars
    BY <1>1, <2>3 DEF EngineDies, rows, vars
  <2> QED
    BY <1>2, <1>3, <1>4, <2>1, <2>2, <2>3 DEF Next, Heartbeat
<1> QED
  BY <1>1, <1>2, <1>5, RoundAlone

LEMMA StampsCount ==
    ASSUME DistinctSeconds
    PROVE  Spec => []StampInv
<1>1. Init => StampInv
  <2> SUFFICES ASSUME Init, NEW n \in Node
               PROVE  /\ row[n].modified = row[n].edits
                      /\ probe[n].pc = "none"
    BY DEF StampInv
  <2>1. PICK h \in Host : row = [m \in Node |-> NewRow(h)]
    BY DEF Init
  <2>2. NewRow(h).modified = NewRow(h).edits
    BY DEF NewRow
  <2>3. row[n] = NewRow(h) /\ probe[n] = NoProbe
    BY <2>1 DEF Init
  <2> QED
    BY <2>2, <2>3
<1>2. TypeOK /\ StampInv /\ [Next]_vars => StampInv'
  <2> SUFFICES ASSUME TypeOK, StampInv, [Next]_vars PROVE StampInv'
    OBVIOUS
  <2> QED
    BY RowStamped, ProbeStamped DEF StampInv
<1> QED
  BY <1>1, <1>2, TypeCorrect, PTL DEF Spec

\* However slow its probes are, a round writes its result only over a row that
\* no administrator edited since the round took its snapshot, provided that two
\* edits of one row lie in different seconds (_heartbeat_round).
THEOREM HeartbeatRespectsEdits ==
    ASSUME DistinctSeconds
    PROVE  Spec => EditsRespected
<1>1. TypeOK /\ StampInv /\ [Next]_vars
        => [\A n \in Node : Written(n) => row[n].edits = probe[n].row.edits]_vars
  <2> SUFFICES ASSUME TypeOK, StampInv, [Next]_vars, NEW n \in Node, Written(n)
               PROVE  row[n].edits = probe[n].row.edits
    OBVIOUS
  <2>1. probe'[n] # probe[n] /\ row' # row
    BY DEF Written
  <2>2. WriteRound
    BY <2>1, RoundAlone
  <2>3. LooksTheSame(n)
    BY <2>2 DEF WriteRound, Written, TypeOK
  <2> QED
    BY <2>3 DEF LooksTheSame, StampInv, Written
<1> QED
  BY <1>1, TypeCorrect, StampsCount, PTL DEF Spec, EditsRespected
=============================================================================
