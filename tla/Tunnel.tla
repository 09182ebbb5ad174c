------------------------------- MODULE Tunnel -------------------------------
(***************************************************************************)
(* The reverse tunnel: server.rs and the client.rs at its other end.       *)
(*                                                                         *)
(* A session is one control connection.  The server runs three threads for *)
(* it: run_session itself (allocation, handshake, then the accept loop of  *)
(* the public port), control_reader and data_acceptor, which share the     *)
(* session's pending map; all sessions share used_ports.  A step is one    *)
(* critical section, one frame, or one socket call.  The client reads      *)
(* frames one after the other and starts a thread per OPEN, which dials    *)
(* the data port.                                                          *)
(*                                                                         *)
(* A port can be bound when no listener of this process has it.  PING and  *)
(* PONG change no state while they succeed: control_reader ignores PONG,   *)
(* and nothing remembers when one was last seen.  The bytes of a spliced   *)
(* stream, the read timeout on the visitor's socket and frames with an     *)
(* unknown tag are left out.                                               *)
(***************************************************************************)
EXTENDS Integers, Sequences, FiniteSets, Maps

CONSTANTS
  Sessions,     \* control connections, numbered as they are accepted
  Ports,        \* PORT_RANGE_START ..= PORT_RANGE_END
  Visitors,     \* connections to public ports, numbered as they are accepted
  Wrap,         \* stream ids are 0 .. Wrap - 1 (u16: 65536)
  None,         \* Option::None
  Env,          \* which failures may happen
  MaxFaults     \* bound on the number of failures

ASSUME TunnelAssumption ==
  /\ Ports \subseteq Int /\ Sessions \subseteq Int /\ Visitors \subseteq Int
  /\ None \notin Ports \cup Sessions
  /\ Wrap \in Nat \ {0}
  /\ Env \subseteq {"gone", "hang", "clone_err", "accept_err", "dial_err",
                    "close", "crash"}
  /\ MaxFaults \in Nat

VARIABLES
  used,         \* used_ports
  sess,         \* run_session of each control connection, with its two ports
  lsn,          \* listeners each session has open
  ctrl,         \* the agent's end of the control connection
  wire,         \* OPEN frames the agent has yet to read
  streams,      \* handle_stream threads of the agent that have yet to dial
  pend,         \* pending: stream id -> visitor
  counter,      \* stream_counter
  visit,        \* what has become of each visitor
  joined,       \* ghost: splices, as the visitor OPENed and the visitor got
  reissued,     \* ghost: sessions with an id that is in use twice
  undialled,    \* ghost: visitors whose stream the agent failed to dial
  faults        \* failures so far

portVars == <<used, sess, lsn>>
streamVars == <<wire, streams, pend, counter, visit, joined, reissued,
                undialled>>
vars == <<portVars, ctrl, streamVars, faults>>

Kinds == {"public", "data"}
StreamIds == 0 .. (Wrap - 1)
Opt(S) == S \cup {None}

\* none, accepted, data (public port held), handshake (both held), running,
\* open (OPEN to be written), end_public, end_data (the two release_port
\* calls), ended; fail_public, fail_data, reject, drop on the error paths.
SessionPC == {"none", "accepted", "data", "handshake", "running", "open",
              "end_public", "end_data", "ended",
              "fail_public", "fail_data", "reject", "drop"}

\* An OPEN on its way: its id, and (ghost) the visitor it was sent for.
Opened == [sid : StreamIds, visitor : Visitors]

Session == [pc : SessionPC, public : Opt(Ports), data : Opt(Ports),
            opening : Opt(Opened)]

\* Type invariant.
TypeOK ==
  /\ used \in SUBSET Ports
  /\ sess \in [Sessions -> Session]
  /\ lsn \in [Sessions -> SUBSET Kinds]
  /\ ctrl \in [Sessions -> {"none", "up", "hung", "down"}]
  /\ wire \in [Sessions -> Seq(Opened)]
  /\ streams \in [Sessions -> SUBSET Opened]
  /\ pend \in [Sessions -> MapsOf(StreamIds, Visitors)]
  /\ counter \in [Sessions -> StreamIds]
  /\ visit \in [Visitors -> {"away", "pending", "spliced", "dropped"}]
  /\ joined \in SUBSET [opened : Visitors, got : Visitors]
  /\ reissued \in SUBSET Sessions
  /\ undialled \in SUBSET Visitors
  /\ faults \in Nat

Init ==
  /\ used = {}
  /\ sess = [s \in Sessions |-> [pc |-> "none", public |-> None, data |-> None,
                                 opening |-> None]]
  /\ lsn = [s \in Sessions |-> {}]
  /\ ctrl = [s \in Sessions |-> "none"]
  /\ wire = [s \in Sessions |-> <<>>]
  /\ streams = [s \in Sessions |-> {}]
  /\ pend = [s \in Sessions |-> EmptyMap]
  /\ counter = [s \in Sessions |-> 0]
  /\ visit = [v \in Visitors |-> "away"]
  /\ joined = {}
  /\ reissued = {}
  /\ undialled = {}
  /\ faults = 0

At(s, l) == sess[s].pc = l
Goto(s, l) == sess' = [sess EXCEPT ![s].pc = l]

Fault(e) ==
  /\ e \in Env
  /\ faults < MaxFaults
  /\ faults' = faults + 1

\* A write to the control channel fails only when the other end is gone.
Broken(s) == ctrl[s] = "down"

-----------------------------------------------------------------------------
(* Port pool.                                                              *)

PortOf(s, k) == IF k = "public" THEN sess[s].public ELSE sess[s].data

Bound == {p \in Ports : \E s \in Sessions : \E k \in lsn[s] : PortOf(s, k) = p}

\* What allocate_port may return: neither used nor refused by bind().
Allocatable == Ports \ (used \cup Bound)

\* Mutant: bind() never fails (SO_REUSEPORT).
allocate_port_reuse(p) ==
  /\ p \in Ports \ used
  /\ \A q \in Ports \ used : p <= q
  /\ used' = used \cup {p}

\* allocate_port, under the lock: the first such port.
allocate_port(p) ==
  /\ p \in Allocatable
  /\ \A q \in Allocatable : p <= q
  /\ used' = used \cup {p}

release_port(p) == used' = used \ {p}

-----------------------------------------------------------------------------
(* run_session                                                             *)

\* The client connects; main() accepts and spawns run_session.
Connect(s) ==
  /\ At(s, "none")
  /\ \A t \in Sessions : At(t, "none") => s <= t
  /\ Goto(s, "accepted")
  /\ ctrl' = [ctrl EXCEPT ![s] = "up"]
  /\ UNCHANGED <<used, lsn, streamVars, faults>>

AllocPublic(s) ==
  /\ At(s, "accepted")
  /\ \/ \E p \in Ports :
          /\ allocate_port(p)
          /\ sess' = [sess EXCEPT ![s].pc = "data", ![s].public = p]
          /\ lsn' = [lsn EXCEPT ![s] = @ \cup {"public"}]
          /\ UNCHANGED ctrl
     \/ /\ Allocatable = {}
        /\ Goto(s, "ended")
        /\ ctrl' = [ctrl EXCEPT ![s] = "down"]
        /\ UNCHANGED <<used, lsn>>
  /\ UNCHANGED <<streamVars, faults>>

AllocData(s) ==
  /\ At(s, "data")
  /\ \/ \E p \in Ports :
          /\ allocate_port(p)
          /\ sess' = [sess EXCEPT ![s].pc = "handshake", ![s].data = p]
          /\ lsn' = [lsn EXCEPT ![s] = @ \cup {"data"}]
     \/ /\ Allocatable = {}
        /\ Goto(s, "reject")
        /\ UNCHANGED <<used, lsn>>
  /\ UNCHANGED <<ctrl, streamVars, faults>>

\* The four bytes are written, the threads are spawned and data_acceptor
\* takes the data listener; or the write or try_clone fails.
Handshake(s) ==
  /\ At(s, "handshake")
  /\ \/ Goto(s, "running") /\ UNCHANGED faults
     \/ Broken(s) /\ Goto(s, "fail_public") /\ UNCHANGED faults
     \/ Fault("clone_err") /\ Goto(s, "fail_public")
  /\ UNCHANGED <<used, lsn, ctrl, streamVars>>

\* Mutant: the session rejected for want of a data port keeps the public one.
ReleaseForgets(s) ==
  /\ \/ /\ At(s, "end_public") /\ Goto(s, "end_data")
        /\ release_port(sess[s].public)
     \/ /\ At(s, "end_data") /\ Goto(s, "ended")
        /\ release_port(sess[s].data)
     \/ /\ At(s, "fail_public") /\ Goto(s, "fail_data")
        /\ release_port(sess[s].public)
     \/ /\ At(s, "fail_data") /\ Goto(s, "drop")
        /\ release_port(sess[s].data)
     \/ At(s, "reject") /\ Goto(s, "drop") /\ UNCHANGED used
  /\ UNCHANGED <<lsn, ctrl, streamVars, faults>>

\* The calls of release_port, one critical section each.
Release(s) ==
  /\ \/ /\ At(s, "end_public") /\ Goto(s, "end_data")
        /\ release_port(sess[s].public)
     \/ /\ At(s, "end_data") /\ Goto(s, "ended")
        /\ release_port(sess[s].data)
     \/ /\ At(s, "fail_public") /\ Goto(s, "fail_data")
        /\ release_port(sess[s].public)
     \/ /\ At(s, "fail_data") /\ Goto(s, "drop")
        /\ release_port(sess[s].data)
     \/ /\ At(s, "reject") /\ Goto(s, "drop")
        /\ release_port(sess[s].public)
  /\ UNCHANGED <<lsn, ctrl, streamVars, faults>>

\* run_session returns on an error path: listeners and connection go.
Return(s) ==
  /\ At(s, "drop")
  /\ Goto(s, "ended")
  /\ lsn' = [lsn EXCEPT ![s] = {}]
  /\ ctrl' = [ctrl EXCEPT ![s] = "down"]
  /\ UNCHANGED <<used, streamVars, faults>>

-----------------------------------------------------------------------------
(* public_acceptor                                                         *)

\* Mutant: the data listener is closed together with the public one.
EndSessionClosesData(s) ==
  /\ Goto(s, "end_public")
  /\ lsn' = [lsn EXCEPT ![s] = {}]
  /\ UNCHANGED <<used, ctrl, streamVars>>

\* It returns: its listener is dropped, data_acceptor's is not.
EndSession(s) ==
  /\ Goto(s, "end_public")
  /\ lsn' = [lsn EXCEPT ![s] = @ \ {"public"}]
  /\ UNCHANGED <<used, ctrl, streamVars>>

\* Mutant: a failed PING is only logged.
PingIgnored(s) == At(s, "running") /\ Broken(s) /\ UNCHANGED vars

PingFails(s) ==
  At(s, "running") /\ Broken(s) /\ EndSession(s) /\ UNCHANGED faults

AcceptFails(s) == At(s, "running") /\ Fault("accept_err") /\ EndSession(s)

InUse(s, i) ==
  \/ i \in DOMAIN pend[s]
  \/ \E k \in DOMAIN wire[s] : wire[s][k].sid = i
  \/ \E o \in streams[s] : o.sid = i

\* Mutant: the counter does not wrap.
PublicAcceptNoWrap(s, v) ==
  /\ At(s, "running")
  /\ visit[v] = "away"
  /\ \A u \in Visitors : visit[u] = "away" => v <= u
  /\ LET i == counter[s]
     IN  /\ counter' = [counter EXCEPT ![s] = i + 1]
         /\ pend' = [pend EXCEPT ![s] = Put(@, i, v)]
         /\ visit' = [visit EXCEPT ![v] = "pending"]
         /\ sess' = [sess EXCEPT ![s].pc = "open",
                                 ![s].opening = [sid |-> i, visitor |-> v]]
  /\ UNCHANGED <<used, lsn, ctrl, wire, streams, joined, reissued, undialled,
                 faults>>

\* accept: the next id, and pending.insert, which closes the visitor that a
\* wrapped counter finds there.
PublicAccept(s, v) ==
  /\ At(s, "running")
  /\ visit[v] = "away"
  /\ \A u \in Visitors : visit[u] = "away" => v <= u
  /\ LET i == counter[s]
     IN  /\ counter' = [counter EXCEPT ![s] = (i + 1) % Wrap]
         /\ pend' = [pend EXCEPT ![s] = Put(@, i, v)]
         /\ visit' = [u \in Visitors |->
                        IF u = v THEN "pending"
                        ELSE IF i \in DOMAIN pend[s] /\ pend[s][i] = u
                               THEN "dropped" ELSE visit[u]]
         /\ sess' = [sess EXCEPT ![s].pc = "open",
                                 ![s].opening = [sid |-> i, visitor |-> v]]
         /\ reissued' = IF InUse(s, i) THEN reissued \cup {s} ELSE reissued
  /\ UNCHANGED <<used, lsn, ctrl, wire, streams, joined, undialled, faults>>

\* OPEN is written; what is written to an end that is gone is never read.
OpenWritten(s) ==
  /\ At(s, "open")
  /\ wire' = IF Broken(s) THEN wire
             ELSE [wire EXCEPT ![s] = Append(@, sess[s].opening)]
  /\ sess' = [sess EXCEPT ![s].pc = "running", ![s].opening = None]
  /\ UNCHANGED <<used, lsn, ctrl, streams, pend, counter, visit, joined,
                 reissued, undialled, faults>>

OpenFails(s) ==
  At(s, "open") /\ Broken(s) /\ EndSession(s) /\ UNCHANGED faults

SessionStep(s) ==
  \/ AllocPublic(s) \/ AllocData(s) \/ Handshake(s) \/ Release(s) \/ Return(s)
  \/ PingFails(s) \/ OpenWritten(s) \/ OpenFails(s)

-----------------------------------------------------------------------------
(* data_acceptor and control_reader, which outlive public_acceptor         *)

\* A visitor leaves the pending map.
Unpend(s, i) == pend' = [pend EXCEPT ![s] = Drop(@, i)]

\* The session whose listener answers the data port that s was told.
Answers(u, s) == "data" \in lsn[u] /\ sess[u].data = sess[s].data

\* Mutant: pending.get instead of pending.remove.
DataAcceptKeeps(s, o, u) ==
  /\ Answers(u, s)
  /\ o \in streams[s]
  /\ streams' = [streams EXCEPT ![s] = @ \ {o}]
  /\ IF o.sid \in DOMAIN pend[u]
       THEN /\ visit' = [visit EXCEPT ![pend[u][o.sid]] = "spliced"]
            /\ joined' = joined \cup {[opened |-> o.visitor,
                                       got |-> pend[u][o.sid]]}
       ELSE UNCHANGED <<visit, joined>>
  /\ UNCHANGED <<portVars, ctrl, wire, pend, counter, reissued, undialled, faults>>

\* Stream o of session s is dialled and accepted by u, its id read, and
\* pending.remove: the visitor is spliced, or there is none and the
\* connection is dropped.
DataAccept(s, o, u) ==
  /\ Answers(u, s)
  /\ o \in streams[s]
  /\ streams' = [streams EXCEPT ![s] = @ \ {o}]
  /\ IF o.sid \in DOMAIN pend[u]
       THEN /\ Unpend(u, o.sid)
            /\ visit' = [visit EXCEPT ![pend[u][o.sid]] = "spliced"]
            /\ joined' = joined \cup {[opened |-> o.visitor,
                                       got |-> pend[u][o.sid]]}
       ELSE UNCHANGED <<pend, visit, joined>>
  /\ UNCHANGED <<portVars, ctrl, wire, counter, reissued, undialled, faults>>

\* CLOSE(i): the visitor that waits for stream i is closed.
ControlClose(s, i) ==
  /\ Fault("close")
  /\ ctrl[s] = "up"
  /\ sess[s].pc \notin {"none", "accepted", "data", "handshake",
                        "fail_public", "fail_data", "reject", "drop"}
  /\ i \in DOMAIN pend[s]
  /\ Unpend(s, i)
  /\ visit' = [visit EXCEPT ![pend[s][i]] = "dropped"]
  /\ UNCHANGED <<portVars, ctrl, wire, streams, counter, joined, reissued,
                 undialled>>

-----------------------------------------------------------------------------
(* The client                                                              *)

\* OPEN is read and a handle_stream thread started.
ClientOpen(s) ==
  /\ ctrl[s] = "up"
  /\ wire[s] # <<>>
  /\ wire' = [wire EXCEPT ![s] = Tail(@)]
  /\ streams' = [streams EXCEPT ![s] = @ \cup {Head(wire[s])}]
  /\ UNCHANGED <<portVars, ctrl, pend, counter, visit, joined, reissued,
                 undialled, faults>>

\* handle_stream cannot connect or cannot send its id, and just returns.
DialFails(s, o) ==
  /\ o \in streams[s]
  /\ \/ Fault("dial_err")
     \/ (\A u \in Sessions : ~Answers(u, s)) /\ UNCHANGED faults
  /\ streams' = [streams EXCEPT ![s] = @ \ {o}]
  /\ undialled' = undialled \cup {o.visitor}
  /\ UNCHANGED <<portVars, ctrl, wire, pend, counter, visit, joined, reissued>>

\* The node, its client or the network between is gone.
AgentGone(s) ==
  /\ Fault("gone")
  /\ ctrl[s] \in {"up", "hung"}
  /\ ctrl' = [ctrl EXCEPT ![s] = "down"]
  /\ wire' = [wire EXCEPT ![s] = <<>>]
  /\ UNCHANGED <<portVars, streams, pend, counter, visit, joined, reissued,
                 undialled>>

\* The client stops reading and answering; its host keeps the connection.
AgentHangs(s) ==
  /\ Fault("hang")
  /\ ctrl[s] = "up"
  /\ ctrl' = [ctrl EXCEPT ![s] = "hung"]
  /\ UNCHANGED <<portVars, streamVars>>

\* The server dies and is started again: all it knew is gone.  A client
\* thread that was about to dial goes on with the data port it was told, and
\* with an id that the next server may give out again.
ServerCrash ==
  /\ Fault("crash")
  /\ used' = {}
  /\ sess' = [s \in Sessions |->
                IF At(s, "none") THEN sess[s]
                ELSE [sess[s] EXCEPT !.pc = "ended", !.opening = None]]
  /\ lsn' = [s \in Sessions |-> {}]
  /\ ctrl' = [s \in Sessions |->
                IF ctrl[s] = "none" THEN "none" ELSE "down"]
  /\ wire' = [s \in Sessions |-> <<>>]
  /\ pend' = [s \in Sessions |-> EmptyMap]
  /\ visit' = [v \in Visitors |->
                 IF visit[v] = "pending" THEN "dropped" ELSE visit[v]]
  /\ reissued' = reissued \cup {s \in Sessions : streams[s] # {}}
  /\ UNCHANGED <<streams, counter, joined, undialled>>

-----------------------------------------------------------------------------
(* Specification.                                                          *)

StreamStep(s) == \E o \in streams[s], u \in Sessions : DataAccept(s, o, u)

Next ==
  \/ \E s \in Sessions :
       \/ Connect(s) \/ SessionStep(s) \/ AcceptFails(s)
       \/ \E v \in Visitors : PublicAccept(s, v)
       \/ StreamStep(s)
       \/ \E i \in StreamIds : ControlClose(s, i)
       \/ ClientOpen(s)
       \/ \E o \in streams[s] : DialFails(s, o)
       \/ AgentGone(s) \/ AgentHangs(s)
  \/ ServerCrash

Spec == Init /\ [][Next]_vars

\* The threads of server and client run; TCP reports a dead peer in the end.
Fairness ==
  \A s \in Sessions :
    WF_vars(SessionStep(s)) /\ WF_vars(StreamStep(s)) /\ WF_vars(ClientOpen(s))

FairSpec == Spec /\ Fairness

-----------------------------------------------------------------------------
(* Safety.                                                                 *)

\* From allocate_port to release_port, on every path through run_session.
Holds(s, k) ==
  sess[s].pc \in {"handshake", "running", "open", "end_public", "fail_public"}
                   \cup IF k = "public" THEN {"data", "reject"}
                                       ELSE {"end_data", "fail_data"}
Claims(s, k) == Holds(s, k) \/ k \in lsn[s]

\* used_ports is the set of ports the sessions hold now: no path through
\* run_session forgets a release, and none releases another session's port.
PoolExact ==
  used = {p \in Ports : \E s \in Sessions, k \in Kinds :
                          Holds(s, k) /\ PortOf(s, k) = p}

\* No port serves two purposes at once, although listeners are dropped
\* before the release on one path and after it on the others.
PortsExclusive ==
  \A s, t \in Sessions, k, l \in Kinds :
    Claims(s, k) /\ Claims(t, l) /\ PortOf(s, k) = PortOf(t, l)
      => s = t /\ k = l

\* What run_session has in hand at each point, for the two invariants above.
PhaseOK ==
  \A s \in Sessions :
    /\ sess[s].pc \in {"none", "accepted"} => lsn[s] = {}
    /\ At(s, "data") => "data" \notin lsn[s]
    /\ At(s, "open") => sess[s].opening \in Opened

PoolInv == TypeOK /\ PhaseOK /\ PoolExact /\ PortsExclusive

\* A session has port p: it holds it, or a listener of it has it.
HasPort(s, p) == \E k \in Kinds : Claims(s, k) /\ PortOf(s, k) = p

\* The session that has the port, if any.
Owner == [p \in Ports |-> IF \E s \in Sessions : HasPort(s, p)
                            THEN CHOOSE s \in Sessions : HasPort(s, p)
                            ELSE None]

Pool == INSTANCE PortPool WITH Holders <- Sessions, owner <- Owner

\* allocate_port and release_port, with the listeners and threads around
\* them, implement a pool: no port goes from one session to another without
\* having been free in between, although it is marked, bound, unbound and
\* unmarked in separate steps.
PoolImplemented == Pool!Spec

\* A data connection reaches the visitor its OPEN was sent for, and no
\* visitor is spliced twice, as long as no id in use is given out again:
\* by the u16 counter coming round, or by a server started anew.
SplicedToItsVisitor ==
  reissued = {} =>
    /\ \A j \in joined : j.opened = j.got
    /\ \A s \in Sessions, i \in StreamIds :
         i \in DOMAIN pend[s] => visit[pend[s][i]] = "pending"

\* The OPENs of a session that are still to be answered: written next, on the
\* wire, or in the hands of a client thread.
InFlight(s) ==
  {o \in Opened : \/ At(s, "open") /\ sess[s].opening = o
                  \/ \E k \in DOMAIN wire[s] : wire[s][k] = o
                  \/ o \in streams[s]}

\* An id leads to the visitor it was given out for, or to none.
IdsLead ==
  \A s \in Sessions : \A o \in InFlight(s) :
    o.sid \in DOMAIN pend[s] => pend[s][o.sid] = o.visitor

\* A visitor waits once.
WaitsOnce ==
  \A s, t \in Sessions : \A i \in DOMAIN pend[s], j \in DOMAIN pend[t] :
    pend[s][i] = pend[t][j] => s = t /\ i = j

\* data_acceptor listens where the client was told to dial.
DataListening ==
  \A s \in Sessions :
    \/ "data" \in lsn[s]
    \/ wire[s] = <<>> /\ streams[s] = {}

\* Frames and streams come only after the handshake.
Spoken ==
  \A s \in Sessions :
    /\ sess[s].pc \in {"handshake", "running", "open"} => "data" \in lsn[s]
    /\ sess[s].pc \in {"none", "accepted", "data", "handshake", "fail_public",
                       "fail_data", "reject", "drop"}
         => wire[s] = <<>> /\ streams[s] = {}

\* The inductive invariant behind SplicedToItsVisitor.
StreamInv ==
  /\ Spoken
  /\ SplicedToItsVisitor
  /\ reissued = {} => IdsLead /\ WaitsOnce /\ DataListening

-----------------------------------------------------------------------------
(* Liveness.                                                               *)

\* "drop the session" on a failed PING: a session whose agent is gone ends,
\* and what it held is released.
GoneEnds == \A s \in Sessions : ctrl[s] = "down" ~> At(s, "ended")

\* A visitor that waits for an agent which reads its frames and can dial.
WaitsOnHealthy(v) ==
  /\ visit[v] = "pending"
  /\ v \notin undialled
  /\ \A s \in Sessions :
       (\E i \in DOMAIN pend[s] : pend[s][i] = v) => ctrl[s] = "up"

\* No visitor waits for ever on a healthy agent: whatever happens to the
\* session in between, its OPEN is written, read, dialled and accepted.
VisitorServed == \A v \in Visitors : WaitsOnHealthy(v) ~> ~WaitsOnHealthy(v)

-----------------------------------------------------------------------------
(* Statements of the repository that the code does not keep.               *)

\* "On session end, release both ports back to the pool": once no session
\* holds a port, it can be allocated.
BothPortsReturn ==
  \A s \in Sessions :
    At(s, "ended") =>
      \A p \in {sess[s].public, sess[s].data} \ {None} :
        \/ p \in Allocatable
        \/ \E t \in Sessions, k \in Kinds : Holds(t, k) /\ PortOf(t, k) = p

=============================================================================
