----------------------------- MODULE NodeHealth -----------------------------
(***************************************************************************)
(* The slave nodes: their rows, the jmeter-server processes on their       *)
(* hosts, the administration of services/node.py, the heartbeat round of   *)
(* services/node_heartbeat.py, and the restart of remote engines by a stop *)
(* (services/testcase.py).                                                 *)
(*                                                                         *)
(* Everybody works from a copy of the row: an API session from the object  *)
(* it loaded, the round from the snapshot it took before its SSH probes.   *)
(* A commit of a session writes the columns it changed with respect to its *)
(* copy, the round writes health only over a row that looks as it did.     *)
(*                                                                         *)
(* host stands for host, port, user and password.  modified stands for     *)
(* modify_time: DATETIME keeps whole seconds, so unless DistinctSeconds    *)
(* holds a later write may leave the same stamp.  last_heartbeat is left   *)
(* out of the comparison: nobody but the one heartbeat loop writes it.     *)
(***************************************************************************)
EXTENDS Naturals

CONSTANTS
    Node,             \* ids of node rows
    Host,             \* hosts a slave may live on
    Caller,           \* API sessions
    DistinctSeconds,  \* TRUE: two edits of a row lie in different seconds
    MaxEdit,          \* bound: a row with fewer edits may be edited
    MaxFault          \* bound: SSH failures, engines that die or do not start

ASSUME NodeHealthAssumption ==
    DistinctSeconds \in BOOLEAN /\ MaxEdit \in Nat /\ MaxFault \in Nat

VARIABLES
    row,      \* the node table
    engine,   \* hosts on which jmeter-server runs
    probe,    \* the heartbeat round, one probe per node
    request,  \* the API sessions
    faults

vars == <<row, engine, probe, request, faults>>

Row == [state : {"new", "disabled", "enabled", "failed", "deleted"},
        health : BOOLEAN, host : Host,
        modified : Nat,
        edits : Nat]       \* history: commits by API sessions
NoProbe == [pc |-> "none"]
Probe == [pc : {"connect", "start", "verify", "done"}, row : Row, up : BOOLEAN]
Idle == [pc |-> "idle"]
Request == [pc : {"add", "update", "enable", "check", "start", "verify", "fail",
                  "disable", "inspect", "kill", "again", "rekill",
                  "run", "shutdown", "restart", "sick"},
            node : Node,
            row : Row,     \* as the session loaded it
            host : Host]   \* what an add or update sends, what a run uses

TypeOK ==
    /\ row \in [Node -> Row]
    /\ engine \in SUBSET Host
    /\ probe \in [Node -> {NoProbe} \cup Probe]
    /\ request \in [Caller -> {Idle} \cup Request]
    /\ faults \in Nat

NewRow(h) == [state |-> "new", health |-> FALSE, host |-> h, modified |-> 0,
              edits |-> 0]

Init ==
    /\ \E h \in Host : row = [n \in Node |-> NewRow(h)]
    /\ engine = {}
    /\ probe = [n \in Node |-> NoProbe]
    /\ request = [c \in Caller |-> Idle]
    /\ faults = 0

Exists(n) == row[n].state \notin {"new", "deleted"}
Editable(n) == Exists(n) /\ row[n].edits < MaxEdit

\* An SSH command fails, an engine dies or does not come up.
Fault == faults < MaxFault /\ faults' = faults + 1

-----------------------------------------------------------------------------
(* What the sessions share. *)

rows == <<row, probe>>
Goto(c, pc) == request' = [request EXCEPT ![c].pc = pc]
End(c) == request' = [request EXCEPT ![c] = Idle]
HostOf(c) == request[c].row.host

\* A request takes up node n and goes to pc.
Begin(c, n, pc, h) ==
    /\ request[c] = Idle
    /\ request' = [request EXCEPT ![c] =
                     [pc |-> pc, node |-> n, row |-> row[n], host |-> h]]
    /\ UNCHANGED <<rows, engine, faults>>

\* stamp_modify; the row keeps the second it was written in.
Stamps(r) == IF DistinctSeconds THEN {r.modified + 1}
             ELSE {r.modified, r.modified + 1}
Save(n, new) ==
    \E t \in Stamps(row[n]) :
        row' = [row EXCEPT ![n] = [new EXCEPT !.modified = t, !.edits = @ + 1]]

\* The commit of a session: new is the row with the columns it changed.
Commit(c, new) ==
    /\ Exists(request[c].node)
    /\ Save(request[c].node, new)
    /\ UNCHANGED <<engine, probe, faults>>

\* The row was deleted meanwhile: the UPDATE finds nothing, the request fails.
CommitLost(c) ==
    /\ request[c].pc \in {"update", "enable", "fail", "disable", "sick"}
    /\ ~Exists(request[c].node)
    /\ End(c)
    /\ UNCHANGED <<rows, engine, faults>>

-----------------------------------------------------------------------------
(* Administration. *)

\* add_node: no row has this host ...
RequestAdd(c) ==
    \E n \in Node, h \in Host :
        /\ row[n].state = "new"
        /\ \A m \in Node : Exists(m) => row[m].host # h
        /\ n \notin {request[d].node : d \in {e \in Caller : request[e] # Idle}}
        /\ Begin(c, n, "add", h)

\* ... and the row is inserted.
Add(c) ==
    /\ request[c].pc = "add"
    /\ row' = [row EXCEPT ![request[c].node] =
                 [NewRow(request[c].host) EXCEPT !.state = "disabled"]]
    /\ End(c)
    /\ UNCHANGED <<engine, probe, faults>>

RequestUpdate(c) ==
    \E n \in Node, h \in Host : Editable(n) /\ Begin(c, n, "update", h)

\* update_node writes the columns that differ from what it loaded.
Update(c) ==
    LET n == request[c].node IN
    /\ request[c].pc = "update"
    /\ Commit(c, IF request[c].host = HostOf(c) THEN row[n]
                 ELSE [row[n] EXCEPT !.host = request[c].host])
    /\ End(c)

Delete(c) ==
    /\ request[c] = Idle
    /\ \E n \in Node : Exists(n) /\ row' = [row EXCEPT ![n].state = "deleted"]
    /\ UNCHANGED <<engine, probe, request, faults>>

RequestEnable(c) ==
    \E n \in Node, h \in Host :
        /\ row[n].state \in {"disabled", "failed"} /\ Editable(n)
        /\ h = row[n].host
        /\ Begin(c, n, "enable", h)

\* enable_node commits the status before it looks at the host.
Enable(c) ==
    /\ request[c].pc = "enable"
    /\ Commit(c, [row[request[c].node] EXCEPT !.state = "enabled"])
    /\ Goto(c, "check")

\* telnet, md5sum and ps: no engine may run yet.
EnableChecks(c) ==
    /\ request[c].pc = "check"
    /\ \/ HostOf(c) \notin engine /\ Goto(c, "start") /\ UNCHANGED faults
       \/ HostOf(c) \in engine /\ Goto(c, "fail") /\ UNCHANGED faults
       \/ Fault /\ Goto(c, "fail")
    /\ UNCHANGED <<rows, engine>>

EnableStarts(c) ==
    /\ request[c].pc = "start"
    /\ \/ engine' = engine \cup {HostOf(c)} /\ Goto(c, "verify") /\ UNCHANGED faults
       \/ Fault /\ Goto(c, "fail") /\ UNCHANGED engine
    /\ UNCHANGED rows

EnableVerifies(c) ==
    /\ request[c].pc = "verify"
    /\ \/ HostOf(c) \in engine /\ End(c) /\ UNCHANGED faults
       \/ HostOf(c) \notin engine /\ Goto(c, "fail") /\ UNCHANGED faults
       \/ Fault /\ Goto(c, "fail")
    /\ UNCHANGED <<rows, engine>>

\* Fault: the node gets the status of a failed run.
EnableFailsAsRun(c) ==
    /\ request[c].pc = "fail"
    /\ Commit(c, [row[request[c].node] EXCEPT !.state = "RUN_FAILED"])
    /\ End(c)

\* _mark_failed, whatever the row says by now.
EnableFails(c) ==
    /\ request[c].pc = "fail"
    /\ Commit(c, [row[request[c].node] EXCEPT !.state = "failed"])
    /\ End(c)

RequestDisable(c) ==
    \E n \in Node, h \in Host :
        Editable(n) /\ h = row[n].host /\ Begin(c, n, "disable", h)

\* disable_node commits status and health, as far as they are news to it.
Disable(c) ==
    LET n == request[c].node
        loaded == request[c].row IN
    /\ request[c].pc = "disable"
    /\ Commit(c, [row[n] EXCEPT
         !.state = IF loaded.state = "disabled" THEN @ ELSE "disabled",
         !.health = IF loaded.health THEN FALSE ELSE @])
    /\ Goto(c, "inspect")

\* ps: without an engine there is nothing to kill; so too after the kill.
DisableInspects(c) ==
    /\ request[c].pc \in {"inspect", "again"}
    /\ \/ /\ HostOf(c) \in engine
          /\ Goto(c, IF request[c].pc = "inspect" THEN "kill" ELSE "rekill")
          /\ UNCHANGED faults
       \/ HostOf(c) \notin engine /\ End(c) /\ UNCHANGED faults
       \/ Fault /\ End(c)
    /\ UNCHANGED <<rows, engine>>

\* kill -9; after the second one nobody looks.
DisableKills(c) ==
    /\ request[c].pc \in {"kill", "rekill"}
    /\ \/ /\ engine' = engine \ {HostOf(c)}
          /\ IF request[c].pc = "kill" THEN Goto(c, "again") ELSE End(c)
          /\ UNCHANGED faults
       \/ Fault /\ End(c) /\ UNCHANGED engine
    /\ UNCHANGED rows

-----------------------------------------------------------------------------
(* A run that uses a node, and its stop. *)

\* list_available_slaves: the node is enabled and healthy.
RequestRun(c) ==
    \E n \in Node, h \in Host :
        /\ row[n].state = "enabled" /\ row[n].health /\ h = row[n].host
        /\ Begin(c, n, "run", h)

\* The run ends by itself, or the node it used is no longer there by its host.
RunEnds(c) ==
    /\ request[c].pc = "run"
    /\ End(c)
    /\ UNCHANGED <<rows, engine, faults>>

\* _stop_remote_engines looks the node up by the host the run used.
RequestStop(c) ==
    /\ request[c].pc = "run"
    /\ \E n \in Node :
         /\ Exists(n) /\ row[n].host = request[c].host
         /\ request' = [request EXCEPT ![c] =
                          [@ EXCEPT !.pc = "shutdown", !.node = n, !.row = row[n]]]
    /\ UNCHANGED <<rows, engine, faults>>

\* shutdown.sh, and the kill when that does not help.
StopShutsDown(c) ==
    /\ request[c].pc = "shutdown"
    /\ \/ engine' = engine \ {HostOf(c)} /\ Goto(c, "restart") /\ UNCHANGED faults
       \/ Fault /\ Goto(c, "sick") /\ UNCHANGED engine
    /\ UNCHANGED rows

\* The restart; its output may look right although nothing runs.
StopRestarts(c) ==
    /\ request[c].pc = "restart"
    /\ \/ engine' = engine \cup {HostOf(c)} /\ End(c) /\ UNCHANGED faults
       \/ Fault /\ (Goto(c, "sick") \/ End(c)) /\ UNCHANGED engine
    /\ UNCHANGED rows

\* The stop commits health_status = 0, if that is news to it, without a stamp.
StopMarksSick(c) ==
    LET n == request[c].node IN
    /\ request[c].pc = "sick"
    /\ IF request[c].row.health THEN Exists(n) /\ row' = [row EXCEPT ![n].health = FALSE]
       ELSE UNCHANGED row
    /\ End(c)
    /\ UNCHANGED <<engine, probe, faults>>

-----------------------------------------------------------------------------
(* The heartbeat. *)

Resting == probe = [n \in Node |-> NoProbe]
Goes(n, pc, up) == probe' = [probe EXCEPT ![n] = [@ EXCEPT !.pc = pc, !.up = up]]
ProbedHost(n) == probe[n].row.host

\* A round starts from a snapshot of the enabled nodes.
BeginRound ==
    /\ Resting
    /\ \E n \in Node : row[n].state = "enabled"
    /\ probe' = [n \in Node |->
                   IF row[n].state # "enabled" THEN NoProbe
                   ELSE [pc |-> "connect", row |-> row[n], up |-> FALSE]]
    /\ UNCHANGED <<row, engine, request, faults>>

\* Fault: a missing engine is reported, not started.
ProbeLooksOnly(n) ==
    /\ probe[n].pc = "connect"
    /\ \/ Goes(n, "done", ProbedHost(n) \in engine) /\ UNCHANGED faults
       \/ Fault /\ Goes(n, "done", FALSE)
    /\ UNCHANGED <<row, engine, request>>

\* telnet, the load, and ps: is there an engine?
ProbeLooks(n) ==
    /\ probe[n].pc = "connect"
    /\ \/ ProbedHost(n) \in engine /\ Goes(n, "done", TRUE) /\ UNCHANGED faults
       \/ ProbedHost(n) \notin engine /\ Goes(n, "start", FALSE) /\ UNCHANGED faults
       \/ Fault /\ Goes(n, "done", FALSE)
    /\ UNCHANGED <<row, engine, request>>

\* _ensure_jmeter_server_running; up: the output names the host.
ProbeStarts(n) ==
    /\ probe[n].pc = "start"
    /\ \/ /\ engine' = engine \cup {ProbedHost(n)} /\ UNCHANGED faults
          /\ \E up \in BOOLEAN : Goes(n, "verify", up)
       \/ /\ Fault /\ UNCHANGED engine
          /\ (\E up \in BOOLEAN : Goes(n, "verify", up)) \/ Goes(n, "done", FALSE)
    /\ UNCHANGED <<row, request>>

\* ps again, or the output of the start.
ProbeVerifies(n) ==
    /\ probe[n].pc = "verify"
    /\ \/ /\ Goes(n, "done", probe[n].up \/ ProbedHost(n) \in engine)
          /\ UNCHANGED faults
       \/ Fault /\ Goes(n, "done", FALSE)
    /\ UNCHANGED <<row, engine, request>>

\* Fault: the comparison of modify_time is missing.
LooksAlike(n) == row[n].state = "enabled" /\ row[n].host = probe[n].row.host

\* The row still looks as in the snapshot.
LooksTheSame(n) ==
    /\ row[n].state = "enabled"
    /\ row[n].host = probe[n].row.host
    /\ row[n].modified = probe[n].row.modified

RoundOver ==
    /\ ~Resting
    /\ \A n \in Node : probe[n].pc \in {"none", "done"}
    /\ probe' = [n \in Node |-> NoProbe]

\* All probes are back: one conditional update per node, one commit.
WriteRound ==
    /\ RoundOver
    /\ row' = [n \in Node |->
                 IF probe[n].pc = "done" /\ LooksTheSame(n)
                 THEN [row[n] EXCEPT !.health = probe[n].up] ELSE row[n]]
    /\ UNCHANGED <<engine, request, faults>>

\* The transaction is rolled back; the next round tries again.
RoundLost ==
    /\ RoundOver
    /\ Fault
    /\ UNCHANGED <<row, engine, request>>

-----------------------------------------------------------------------------
(* The world. *)

EngineDies ==
    /\ Fault
    /\ \E h \in engine : engine' = engine \ {h}
    /\ UNCHANGED <<rows, request>>

\* The master dies and is started again; the engines live on.
Crash ==
    /\ Fault
    /\ probe' = [n \in Node |-> NoProbe]
    /\ request' = [c \in Caller |-> Idle]
    /\ UNCHANGED <<row, engine>>

Administrate(c) == RequestAdd(c) \/ RequestUpdate(c) \/ Delete(c)
                   \/ RequestEnable(c) \/ RequestDisable(c)
Proceed(c) ==
    \/ Add(c) \/ Update(c) \/ CommitLost(c)
    \/ Enable(c) \/ EnableChecks(c) \/ EnableStarts(c) \/ EnableVerifies(c)
    \/ EnableFails(c)
    \/ Disable(c) \/ DisableInspects(c) \/ DisableKills(c)
    \/ StopShutsDown(c) \/ StopRestarts(c) \/ StopMarksSick(c)
Heartbeat ==
    \/ BeginRound \/ WriteRound
    \/ \E n \in Node : ProbeLooks(n) \/ ProbeStarts(n) \/ ProbeVerifies(n)

Next ==
    \/ \E c \in Caller :
         Administrate(c) \/ Proceed(c) \/ RequestRun(c) \/ RunEnds(c) \/ RequestStop(c)
    \/ Heartbeat \/ RoundLost \/ EngineDies \/ Crash

Spec == Init /\ [][Next]_vars

(***************************************************************************)
(* The heartbeat loop comes back every minute and survives a failed round; *)
(* asyncio resumes a request whose await is done.  Nothing is assumed of   *)
(* administrators and runs.                                                *)
(***************************************************************************)
Fairness == WF_vars(Heartbeat) /\ \A c \in Caller : WF_vars(Proceed(c))
FairSpec == Spec /\ Fairness

-----------------------------------------------------------------------------
Written(n) == probe[n].pc = "done" /\ row'[n] # row[n] /\ probe'[n] = NoProbe

\* A round never writes its result over a row that an administrator edited
\* since the round took its snapshot, however slow its probes were
\* (_heartbeat_round against add, update, enable, disable and delete).
EditsRespected ==
    [][\A n \in Node : Written(n) => row[n].edits = probe[n].row.edits]_vars

\* A round never overwrites a health that somebody else set since it took its
\* snapshot: "Atomic conditions prevent a stale probe from overwriting a user
\* action or a newer heartbeat" (node_heartbeat.py).
UserActionKept ==
    [][\A n \in Node : Written(n) => row[n].health = probe[n].row.health]_vars

\* Under FairSpec: a node that stays enabled is, again and again, shown as
\* healthy while its engine runs, whatever failed, died or was stopped before:
\* the heartbeat starts a missing engine and corrects the health.
SelfHealing ==
    \A n \in Node :
        <>[](row[n].state = "enabled") =>
            []<>(row[n].health /\ row[n].host \in engine)
=============================================================================
