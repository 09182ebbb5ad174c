---------------------------- MODULE TunnelProofs ----------------------------
(***************************************************************************)
(* Type correctness of Tunnel, the exactness of its port pool, and that it *)
(* implements PortPool, for any number of sessions, ports and visitors.    *)
(***************************************************************************)
EXTENDS Tunnel, MapTheorems

-----------------------------------------------------------------------------
(* Types.                                                                  *)

TypeInv == TypeOK /\ PhaseOK

\* A step of run_session that only moves on.
LEMMA GotoType ==
  ASSUME TypeOK, NEW s \in Sessions, NEW l \in SessionPC, Goto(s, l)
  PROVE  /\ sess' \in [Sessions -> Session]
         /\ sess'[s].pc = l
         /\ sess'[s].public = sess[s].public
         /\ sess'[s].data = sess[s].data
         /\ sess'[s].opening = sess[s].opening
         /\ \A t \in Sessions \ {s} : sess'[t] = sess[t]
BY DEF TypeOK, Goto, Session

\* An allocated port is stored in the session.
LEMMA StoreType ==
  ASSUME TypeOK, NEW s \in Sessions, NEW p \in Ports,
         \/ sess' = [sess EXCEPT ![s].pc = "data", ![s].public = p]
         \/ sess' = [sess EXCEPT ![s].pc = "handshake", ![s].data = p]
  PROVE  /\ sess' \in [Sessions -> Session]
         /\ sess'[s].pc \in {"data", "handshake"}
         /\ \A t \in Sessions \ {s} : sess'[t] = sess[t]
<1>1. sess \in [Sessions -> Session] /\ sess[s] \in Session
  BY DEF TypeOK
<1>2. /\ [sess[s] EXCEPT !.pc = "data", !.public = p] \in Session
      /\ [sess[s] EXCEPT !.pc = "handshake", !.data = p] \in Session
      /\ [sess[s] EXCEPT !.pc = "data", !.public = p].pc = "data"
      /\ [sess[s] EXCEPT !.pc = "handshake", !.data = p].pc = "handshake"
  BY <1>1 DEF Session, SessionPC, Opt
<1>3. CASE sess' = [sess EXCEPT ![s].pc = "data", ![s].public = p]
  BY <1>1, <1>2, <1>3
<1>4. CASE sess' = [sess EXCEPT ![s].pc = "handshake", ![s].data = p]
  BY <1>1, <1>2, <1>4
<1> QED
  BY <1>3, <1>4

LEMMA AllocType ==
  ASSUME TypeInv, NEW s \in Sessions, AllocPublic(s) \/ AllocData(s)
  PROVE  TypeInv'
<1>0. TypeOK /\ PhaseOK
  BY DEF TypeInv
<1>1. ASSUME NEW p \in Ports, allocate_port(p), NEW k \in Kinds,
             lsn' = [lsn EXCEPT ![s] = @ \cup {k}],
             UNCHANGED <<ctrl, streamVars, faults>>,
             \/ /\ k = "public" /\ At(s, "accepted")
                /\ sess' = [sess EXCEPT ![s].pc = "data", ![s].public = p]
             \/ /\ k = "data"
                /\ sess' = [sess EXCEPT ![s].pc = "handshake", ![s].data = p]
      PROVE  TypeInv'
  <2>1. /\ sess' \in [Sessions -> Session]
        /\ sess'[s].pc \in {"data", "handshake"}
        /\ \A t \in Sessions \ {s} : sess'[t] = sess[t]
    BY <1>0, <1>1, StoreType
  <2>2. used' \in SUBSET Ports
    BY <1>0, <1>1 DEF allocate_port, TypeOK
  <2>3. /\ lsn' \in [Sessions -> SUBSET Kinds]
        /\ lsn'[s] = lsn[s] \cup {k}
        /\ \A t \in Sessions \ {s} : lsn'[t] = lsn[t]
    BY <1>0, <1>1 DEF TypeOK
  <2>4. TypeOK'
    BY <1>0, <1>1, <2>1, <2>2, <2>3 DEF TypeOK, streamVars
  <2>5. sess'[s].pc = "data" => "data" \notin lsn'[s]
    BY <1>0, <1>1, <2>3 DEF TypeOK, Session, PhaseOK, At
  <2>6. PhaseOK'
    BY <1>0, <2>1, <2>3, <2>5 DEF PhaseOK, At
  <2> QED
    BY <2>4, <2>6 DEF TypeInv
<1>2. ASSUME NEW l \in {"ended", "reject"}, Goto(s, l),
             ctrl' \in {ctrl, [ctrl EXCEPT ![s] = "down"]},
             UNCHANGED <<used, lsn, streamVars, faults>>
      PROVE  TypeInv'
  <2>1. /\ sess' \in [Sessions -> Session]
        /\ sess'[s].pc = l
        /\ \A t \in Sessions \ {s} : sess'[t] = sess[t]
    BY <1>0, <1>2, GotoType DEF SessionPC
  <2>2. TypeOK'
    BY <1>0, <1>2, <2>1 DEF TypeOK, streamVars
  <2>3. PhaseOK'
    BY <1>0, <1>2, <2>1 DEF PhaseOK, At
  <2> QED
    BY <2>2, <2>3 DEF TypeInv
<1> QED
  BY <1>1, <1>2 DEF AllocPublic, AllocData, Kinds

\* The other steps of run_session, up to and including its return.
LEMMA SessionType ==
  ASSUME TypeInv, NEW s \in Sessions,
         \/ Connect(s) \/ Handshake(s) \/ Release(s) \/ Return(s)
         \/ PingFails(s) \/ AcceptFails(s) \/ OpenFails(s)
  PROVE  TypeInv'
<1>0. TypeOK /\ PhaseOK
  BY DEF TypeInv
<1>1. PICK l \in SessionPC :
        /\ Goto(s, l)
        /\ l \notin {"none", "data", "open"}
        /\ l = "accepted" => sess[s].pc = "none"
  BY DEF Connect, Handshake, Release, Return, PingFails, AcceptFails, OpenFails,
     EndSession, SessionPC, At
<1>2. /\ sess' \in [Sessions -> Session]
      /\ sess'[s].pc = l
      /\ \A t \in Sessions \ {s} : sess'[t] = sess[t]
  BY <1>0, <1>1, GotoType
<1>3. /\ lsn' \in [Sessions -> SUBSET Kinds]
      /\ \A t \in Sessions : lsn'[t] \subseteq lsn[t]
  BY <1>0 DEF TypeOK, Connect, Handshake, Release, Return, PingFails,
     AcceptFails, OpenFails, EndSession
<1>4. used' \in SUBSET Ports
  BY <1>0 DEF TypeOK, Connect, Handshake, Release, Return, PingFails,
     AcceptFails, OpenFails, EndSession, release_port
<1>5. /\ ctrl' \in [Sessions -> {"none", "up", "hung", "down"}]
      /\ faults' \in Nat
      /\ UNCHANGED streamVars
  <2>1. UNCHANGED streamVars
    BY DEF Connect, Handshake, Release, Return, PingFails, AcceptFails,
       OpenFails, EndSession
  <2>2. UNCHANGED faults \/ faults' = faults + 1
    BY DEF Connect, Handshake, Release, Return, PingFails, AcceptFails,
       OpenFails, EndSession, Fault
  <2>3. ctrl' = ctrl \/ \E c \in {"up", "down"} : ctrl' = [ctrl EXCEPT ![s] = c]
    BY DEF Connect, Handshake, Release, Return, PingFails, AcceptFails,
       OpenFails, EndSession
  <2> QED
    BY <1>0, <2>1, <2>2, <2>3 DEF TypeOK
<1>6. TypeOK'
  BY <1>0, <1>2, <1>3, <1>4, <1>5 DEF TypeOK, streamVars
<1>7. PhaseOK'
  BY <1>0, <1>1, <1>2, <1>3 DEF PhaseOK, At
<1> QED
  BY <1>6, <1>7 DEF TypeInv

LEMMA AcceptType ==
  ASSUME TypeInv, NEW s \in Sessions, NEW v \in Visitors, PublicAccept(s, v)
  PROVE  TypeInv'
<1> DEFINE i == counter[s]
           o == [sid |-> i, visitor |-> v]
<1>0. TypeOK /\ PhaseOK
  BY DEF TypeInv
<1>1. i \in StreamIds /\ (i + 1) % Wrap \in StreamIds
  BY <1>0, TunnelAssumption DEF TypeOK, StreamIds
<1>2. o \in Opened
  BY <1>1 DEF Opened
<1> HIDE DEF o
<1>3. /\ sess' \in [Sessions -> Session]
      /\ sess'[s].pc = "open" /\ sess'[s].opening = o
      /\ \A t \in Sessions \ {s} : sess'[t] = sess[t]
  <2>1. sess' = [sess EXCEPT ![s].pc = "open", ![s].opening = o]
    BY DEF PublicAccept, o
  <2>2. sess \in [Sessions -> Session] /\ sess[s] \in Session
    BY <1>0 DEF TypeOK
  <2>3. /\ [sess[s] EXCEPT !.pc = "open", !.opening = o] \in Session
        /\ [sess[s] EXCEPT !.pc = "open", !.opening = o].pc = "open"
        /\ [sess[s] EXCEPT !.pc = "open", !.opening = o].opening = o
    BY <1>2, <2>2 DEF Session, SessionPC, Opt
  <2> QED
    BY <2>1, <2>2, <2>3
<1>4. pend' \in [Sessions -> MapsOf(StreamIds, Visitors)]
  <2>1. Put(pend[s], i, v) \in MapsOf(StreamIds, Visitors)
    BY <1>0, <1>1, PutType DEF TypeOK
  <2> QED
    BY <1>0, <2>1 DEF PublicAccept, TypeOK
<1>5. counter' \in [Sessions -> StreamIds]
  BY <1>0, <1>1 DEF PublicAccept, TypeOK
<1>6. visit' \in [Visitors -> {"away", "pending", "spliced", "dropped"}]
  BY <1>0 DEF PublicAccept, TypeOK
<1>7. reissued' \in SUBSET Sessions
  BY <1>0 DEF PublicAccept, TypeOK
<1>8. TypeOK'
  BY <1>0, <1>3, <1>4, <1>5, <1>6, <1>7 DEF PublicAccept, TypeOK
<1>9. PhaseOK'
  BY <1>0, <1>2, <1>3 DEF PublicAccept, PhaseOK, At
<1> QED
  BY <1>8, <1>9 DEF TypeInv

LEMMA OpenWrittenType ==
  ASSUME TypeInv, NEW s \in Sessions, OpenWritten(s)
  PROVE  TypeInv'
<1>0. TypeOK /\ PhaseOK
  BY DEF TypeInv
<1>1. sess[s].opening \in Opened
  BY <1>0 DEF OpenWritten, PhaseOK
<1>2. wire' \in [Sessions -> Seq(Opened)]
  <2>1. Append(wire[s], sess[s].opening) \in Seq(Opened)
    BY <1>0, <1>1 DEF TypeOK
  <2> QED
    BY <1>0, <2>1 DEF OpenWritten, TypeOK
<1>3. /\ sess' \in [Sessions -> Session]
      /\ sess'[s].pc = "running"
      /\ \A t \in Sessions \ {s} : sess'[t] = sess[t]
  <2>1. sess \in [Sessions -> Session] /\ sess[s] \in Session
    BY <1>0 DEF TypeOK
  <2>2. /\ [sess[s] EXCEPT !.pc = "running", !.opening = None] \in Session
        /\ [sess[s] EXCEPT !.pc = "running", !.opening = None].pc = "running"
    BY <2>1 DEF Session, SessionPC, Opt
  <2> QED
    BY <2>1, <2>2 DEF OpenWritten
<1>4. TypeOK'
  BY <1>0, <1>2, <1>3 DEF OpenWritten, TypeOK
<1>5. PhaseOK'
  BY <1>0, <1>3 DEF OpenWritten, PhaseOK, At
<1> QED
  BY <1>4, <1>5 DEF TypeInv

\* The steps of data_acceptor, control_reader, the client and its host.
LEMMA StreamType ==
  ASSUME TypeInv, NEW s \in Sessions,
         \/ \E o \in streams[s], u \in Sessions : DataAccept(s, o, u)
         \/ \E i \in StreamIds : ControlClose(s, i)
         \/ ClientOpen(s)
         \/ \E o \in streams[s] : DialFails(s, o)
         \/ AgentGone(s) \/ AgentHangs(s)
  PROVE  TypeInv' /\ UNCHANGED portVars
<1>0. TypeOK /\ PhaseOK
  BY DEF TypeInv
<1>1. UNCHANGED portVars
  BY DEF DataAccept, ControlClose, ClientOpen, DialFails, AgentGone, AgentHangs
<1>2. PhaseOK'
  BY <1>0, <1>1 DEF PhaseOK, At, portVars
<1>3. \A u \in Sessions : \A i \in DOMAIN pend[u] : pend[u][i] \in Visitors
  BY <1>0, MapElim DEF TypeOK
<1>4. \A u \in Sessions : \A i : Drop(pend[u], i) \in MapsOf(StreamIds, Visitors)
  BY <1>0, DropType DEF TypeOK
<1>5. ASSUME NEW o \in streams[s], NEW u \in Sessions, DataAccept(s, o, u)
      PROVE  TypeOK'
  <2>1. o \in Opened
    BY <1>0 DEF TypeOK
  <2>2. streams' \in [Sessions -> SUBSET Opened]
    BY <1>0, <1>5 DEF DataAccept, TypeOK
  <2>3. CASE o.sid \in DOMAIN pend[u]
    <3>1. pend' \in [Sessions -> MapsOf(StreamIds, Visitors)]
      <4>1. Unpend(u, o.sid)
        BY <1>5, <2>3 DEF DataAccept
      <4> QED
        BY <1>0, <1>4, <4>1 DEF Unpend, TypeOK
    <3>2. visit' \in [Visitors -> {"away", "pending", "spliced", "dropped"}]
      BY <1>0, <1>5, <2>3 DEF DataAccept, TypeOK
    <3>3. joined' \in SUBSET [opened : Visitors, got : Visitors]
      BY <1>0, <1>3, <1>5, <2>1, <2>3 DEF DataAccept, Opened, TypeOK
    <3> QED
      BY <1>0, <1>5, <2>2, <3>1, <3>2, <3>3 DEF DataAccept, TypeOK, portVars
  <2>4. CASE o.sid \notin DOMAIN pend[u]
    BY <1>0, <1>5, <2>2, <2>4 DEF DataAccept, TypeOK, portVars
  <2> QED
    BY <2>3, <2>4
<1>6. ASSUME NEW i \in StreamIds, ControlClose(s, i)
      PROVE  TypeOK'
  <2>1. pend' \in [Sessions -> MapsOf(StreamIds, Visitors)]
    BY <1>0, <1>4, <1>6 DEF ControlClose, Unpend, TypeOK
  <2>2. visit' \in [Visitors -> {"away", "pending", "spliced", "dropped"}]
    BY <1>0, <1>6 DEF ControlClose, TypeOK
  <2> QED
    BY <1>0, <1>6, <2>1, <2>2 DEF ControlClose, Fault, TypeOK, portVars
<1>7. ASSUME ClientOpen(s)
      PROVE  TypeOK'
  <2>1. wire[s] \in Seq(Opened) /\ wire[s] # <<>>
    BY <1>0, <1>7 DEF ClientOpen, TypeOK
  <2>2. Head(wire[s]) \in Opened /\ Tail(wire[s]) \in Seq(Opened)
    BY <2>1
  <2>3. /\ wire' \in [Sessions -> Seq(Opened)]
        /\ streams' \in [Sessions -> SUBSET Opened]
    BY <1>0, <1>7, <2>2 DEF ClientOpen, TypeOK
  <2> QED
    BY <1>0, <1>7, <2>3 DEF ClientOpen, TypeOK, portVars
<1>8. ASSUME NEW o \in streams[s], DialFails(s, o)
      PROVE  TypeOK'
  <2>1. o.visitor \in Visitors
    BY <1>0 DEF TypeOK, Opened
  <2> QED
    BY <1>0, <1>8, <2>1 DEF DialFails, Fault, TypeOK, portVars
<1>9. ASSUME AgentGone(s)
      PROVE  TypeOK'
  <2>1. /\ wire' \in [Sessions -> Seq(Opened)]
        /\ ctrl' \in [Sessions -> {"none", "up", "hung", "down"}]
    BY <1>0, <1>9 DEF AgentGone, TypeOK
  <2>2. faults' \in Nat
    BY <1>0, <1>9 DEF AgentGone, Fault, TypeOK
  <2> QED
    BY <1>0, <1>9, <2>1, <2>2 DEF AgentGone, TypeOK, portVars
<1>10. ASSUME AgentHangs(s)
      PROVE  TypeOK'
  BY <1>0, <1>10 DEF AgentHangs, Fault, TypeOK, portVars, streamVars
<1> QED
  BY <1>1, <1>2, <1>5, <1>6, <1>7, <1>8, <1>9, <1>10 DEF TypeInv

\* A crash of the server leaves no listener.
LEMMA CrashType ==
  ASSUME TypeInv, ServerCrash
  PROVE  TypeInv'
<1>0. TypeOK /\ PhaseOK
  BY DEF TypeInv
<1>1. sess' \in [Sessions -> Session]
  <2>1. ASSUME NEW s \in Sessions
        PROVE  /\ sess[s] \in Session
               /\ [sess[s] EXCEPT !.pc = "ended", !.opening = None] \in Session
    <3>1. sess[s] \in Session
      BY <1>0 DEF TypeOK
    <3> QED
      BY <3>1 DEF Session, SessionPC, Opt
  <2>2. sess' = [s \in Sessions |->
                   IF At(s, "none") THEN sess[s]
                   ELSE [sess[s] EXCEPT !.pc = "ended", !.opening = None]]
    BY DEF ServerCrash
  <2> QED
    BY <2>1, <2>2
<1>2. /\ ctrl' \in [Sessions -> {"none", "up", "hung", "down"}]
      /\ pend' \in [Sessions -> MapsOf(StreamIds, Visitors)]
      /\ wire' \in [Sessions -> Seq(Opened)]
  <2>1. EmptyMap \in MapsOf(StreamIds, Visitors)
    BY EmptyMapType
  <2>2. pend' = [s \in Sessions |-> EmptyMap] /\ wire' = [s \in Sessions |-> <<>>]
    BY DEF ServerCrash
  <2>3. ctrl' \in [Sessions -> {"none", "up", "hung", "down"}]
    BY <1>0 DEF ServerCrash, TypeOK
  <2> QED
    BY <2>1, <2>2, <2>3
<1>3. /\ visit' \in [Visitors -> {"away", "pending", "spliced", "dropped"}]
      /\ reissued' \in SUBSET Sessions
      /\ lsn' \in [Sessions -> SUBSET Kinds]
      /\ used' \in SUBSET Ports
      /\ faults' \in Nat
  <2>1. visit' \in [Visitors -> {"away", "pending", "spliced", "dropped"}]
    BY <1>0 DEF ServerCrash, TypeOK
  <2>2. reissued' \in SUBSET Sessions
    BY <1>0 DEF ServerCrash, TypeOK
  <2>3. lsn' \in [Sessions -> SUBSET Kinds] /\ used' \in SUBSET Ports
    BY DEF ServerCrash
  <2>4. faults' \in Nat
    <3>1. faults \in Nat /\ faults' = faults + 1
      BY <1>0 DEF ServerCrash, Fault, TypeOK
    <3> QED
      BY <3>1
  <2> QED
    BY <2>1, <2>2, <2>3, <2>4
<1>4. TypeOK'
  <2>1. UNCHANGED <<streams, counter, joined, undialled>>
    BY DEF ServerCrash
  <2> QED
    BY <1>0, <1>1, <1>2, <1>3, <2>1 DEF TypeOK
<1>5. \A s \in Sessions : lsn'[s] = {} /\ sess'[s].pc \in {"none", "ended"}
  BY <1>0 DEF ServerCrash, TypeOK, Session, At
<1>6. PhaseOK'
  BY <1>5 DEF PhaseOK, At
<1> QED
  BY <1>4, <1>6 DEF TypeInv

-----------------------------------------------------------------------------
(* The pool, and the pool it implements.                                   *)

\* A step that allocates and releases nothing, opens no listener and moves
\* no port keeps the pool exact.
LEMMA PoolFrame ==
  ASSUME PoolInv, TypeInv', UNCHANGED used,
         \A t \in Sessions, k \in Kinds :
           /\ Holds(t, k)' = Holds(t, k)
           /\ PortOf(t, k)' = PortOf(t, k)
           /\ k \in lsn'[t] => k \in lsn[t]
  PROVE  PoolInv'
<1>1. PoolExact'
  BY DEF PoolInv, PoolExact
<1>2. PortsExclusive'
  BY DEF PoolInv, PortsExclusive, Claims
<1> QED
  BY <1>1, <1>2 DEF PoolInv, TypeInv

LEMMA PoolInit == Init => PoolInv
<1> SUFFICES ASSUME Init PROVE PoolInv
  OBVIOUS
<1>1. \A s \in Sessions : sess[s].pc = "none" /\ lsn[s] = {}
  BY DEF Init
<1>2. TypeOK
  <2>1. 0 \in StreamIds
    BY TunnelAssumption DEF StreamIds
  <2>2. EmptyMap \in MapsOf(StreamIds, Visitors)
    BY EmptyMapType
  <2>3. sess \in [Sessions -> Session]
    BY DEF Init, Session, SessionPC, Opt
  <2> QED
    BY <2>1, <2>2, <2>3 DEF Init, TypeOK
<1>3. PhaseOK
  BY <1>1 DEF PhaseOK, At
<1>4. \A s \in Sessions, k \in Kinds : ~Holds(s, k) /\ ~Claims(s, k)
  BY <1>1 DEF Holds, Claims
<1>5. PoolExact /\ PortsExclusive
  BY <1>4 DEF Init, PoolExact, PortsExclusive
<1> QED
  BY <1>2, <1>3, <1>5 DEF PoolInv

\* Owner names the one session that has the port.
OwnerExact ==
  /\ \A p \in Ports, s \in Sessions : HasPort(s, p) <=> Owner[p] = s
  /\ \A p \in Ports : (\A s \in Sessions : ~HasPort(s, p)) => Owner[p] = None
  /\ \A p \in Ports : Owner[p] = None => \A s \in Sessions : ~HasPort(s, p)

LEMMA OwnerIs == PoolInv => OwnerExact
<1> SUFFICES ASSUME PoolInv, NEW p \in Ports
             PROVE  /\ \A s \in Sessions : HasPort(s, p) <=> Owner[p] = s
                    /\ (\A s \in Sessions : ~HasPort(s, p)) => Owner[p] = None
                    /\ Owner[p] = None => \A s \in Sessions : ~HasPort(s, p)
  BY DEF OwnerExact
<1>1. \A s, t \in Sessions : HasPort(s, p) /\ HasPort(t, p) => s = t
  BY DEF PoolInv, PortsExclusive, HasPort
<1>2. None \notin Sessions
  BY TunnelAssumption
<1>3. CASE \E s \in Sessions : HasPort(s, p)
  <2>1. Owner[p] \in Sessions /\ HasPort(Owner[p], p)
    BY <1>3 DEF Owner
  <2> QED
    BY <1>1, <1>2, <2>1
<1>4. CASE ~ \E s \in Sessions : HasPort(s, p)
  <2>1. Owner[p] = None
    BY <1>4 DEF Owner
  <2> QED
    BY <1>2, <1>4, <2>1
<1> QED
  BY <1>3, <1>4

\* The same of the next state.
LEMMA OwnerIsNext == PoolInv' => OwnerExact'
  BY OwnerIs, PTL

\* A step in which one session gives up some ports, or none.
LEMMA GiveStep ==
  ASSUME PoolInv, PoolInv', NEW s \in Sessions,
         \A t \in Sessions \ {s}, p \in Ports : HasPort(t, p)' <=> HasPort(t, p),
         \A p \in Ports : HasPort(s, p)' => HasPort(s, p)
  PROVE  Pool!Next
<1> DEFINE given == {p \in Ports : HasPort(s, p) /\ ~HasPort(s, p)'}
<1>1. given \subseteq {p \in Ports : Owner[p] = s}
  BY OwnerIs DEF OwnerExact
<1>2. ASSUME NEW p \in Ports
      PROVE  Owner'[p] = IF p \in given THEN None ELSE Owner[p]
  <2>1. CASE p \in given
    <3>1. \A t \in Sessions : ~HasPort(t, p)'
      BY <2>1, <1>1, OwnerIs DEF OwnerExact
    <3>2. Owner'[p] = None
      BY <3>1, OwnerIsNext DEF OwnerExact
    <3> QED
      BY <2>1, <3>2
  <2>2. CASE p \notin given
    <3>1. \A t \in Sessions : HasPort(t, p)' <=> HasPort(t, p)
      BY <2>2
    <3>2. CASE \E t \in Sessions : HasPort(t, p)
      <4>1. PICK t \in Sessions : HasPort(t, p)
        BY <3>2
      <4>2. Owner[p] = t /\ Owner'[p] = t
        BY <3>1, <4>1, OwnerIs, OwnerIsNext DEF OwnerExact
      <4> QED
        BY <2>2, <4>2
    <3>3. CASE \A t \in Sessions : ~HasPort(t, p)
      <4>1. Owner[p] = None /\ Owner'[p] = None
        BY <3>1, <3>3, OwnerIs, OwnerIsNext DEF OwnerExact
      <4> QED
        BY <2>2, <4>1
    <3> QED
      BY <3>2, <3>3
  <2> QED
    BY <2>1, <2>2
<1>3. Owner' = [p \in Ports |-> IF p \in given THEN None ELSE Owner[p]]
  <2>1. Owner' = [p \in Ports |-> Owner'[p]]
    BY DEF Owner
  <2> QED
    BY <1>2, <2>1
<1>4. Pool!Give(s, given)
  BY <1>1, <1>3 DEF Pool!Give
<1> QED
  BY <1>4 DEF Pool!Next

\* A step in which one session gets one port, which nobody had.
LEMMA TakeStep ==
  ASSUME PoolInv, PoolInv', NEW s \in Sessions, NEW q \in Ports,
         \A t \in Sessions : ~HasPort(t, q),
         HasPort(s, q)',
         \A t \in Sessions, p \in Ports \ {q} : HasPort(t, p)' <=> HasPort(t, p)
  PROVE  Pool!Next
<1>1. Owner[q] = None /\ Owner'[q] = s
  BY OwnerIs, OwnerIsNext DEF OwnerExact
<1>2. ASSUME NEW p \in Ports \ {q}
      PROVE  Owner'[p] = Owner[p]
  <2>1. CASE \E t \in Sessions : HasPort(t, p)
    <3>1. PICK t \in Sessions : HasPort(t, p)
      BY <2>1
    <3>2. Owner[p] = t /\ Owner'[p] = t
      BY <3>1, OwnerIs, OwnerIsNext DEF OwnerExact
    <3> QED
      BY <3>2
  <2>2. CASE \A t \in Sessions : ~HasPort(t, p)
    BY <2>2, OwnerIs, OwnerIsNext DEF OwnerExact
  <2> QED
    BY <2>1, <2>2
<1>3. Owner' = [Owner EXCEPT ![q] = s]
  <2>1. Owner' = [p \in Ports |-> Owner'[p]] /\ Owner = [p \in Ports |-> Owner[p]]
    BY DEF Owner
  <2> QED
    BY <1>1, <1>2, <2>1
<1>4. Pool!Take(s, q)
  BY <1>1, <1>3 DEF Pool!Take
<1> QED
  BY <1>4 DEF Pool!Next

\* A step of run_session between the two places where it holds both ports, or
\* where it holds none.
LEMMA PoolMove ==
  ASSUME PoolInv, TypeInv', NEW s \in Sessions, UNCHANGED used,
         lsn'[s] \subseteq lsn[s],
         \A t \in Sessions \ {s} : sess'[t] = sess[t] /\ lsn'[t] = lsn[t],
         sess'[s].public = sess[s].public, sess'[s].data = sess[s].data,
         \A k \in Kinds : Holds(s, k)' = Holds(s, k)
  PROVE  PoolInv' /\ Pool!Next
<1>1. ASSUME NEW t \in Sessions, NEW k \in Kinds
      PROVE  /\ Holds(t, k)' = Holds(t, k)
             /\ PortOf(t, k)' = PortOf(t, k)
             /\ k \in lsn'[t] => k \in lsn[t]
  BY DEF Holds, PortOf
<1>2. PoolInv'
  BY <1>1, PoolFrame
<1>3. \A t \in Sessions \ {s}, p \in Ports : HasPort(t, p)' <=> HasPort(t, p)
  BY DEF HasPort, Claims, Holds, PortOf
<1>4. \A p \in Ports : HasPort(s, p)' => HasPort(s, p)
  BY <1>1 DEF HasPort, Claims
<1> QED
  BY <1>2, <1>3, <1>4, GiveStep

\* allocate_port: the new port is in no one's hands.
LEMMA PoolAllocate ==
  ASSUME PoolInv, TypeInv', NEW s \in Sessions, NEW p \in Ports, allocate_port(p),
         NEW k \in Kinds, PortOf(s, k)' = p, Holds(s, k)', ~Claims(s, k),
         lsn' = [lsn EXCEPT ![s] = @ \cup {k}],
         \A t \in Sessions, l \in Kinds :
           <<t, l>> # <<s, k>> =>
             PortOf(t, l)' = PortOf(t, l) /\ Holds(t, l)' = Holds(t, l)
  PROVE  PoolInv' /\ Pool!Next
<1>1. p \notin used /\ p \notin Bound /\ used' = used \cup {p}
  BY DEF allocate_port, Allocatable
<1>2. ASSUME NEW t \in Sessions, NEW l \in Kinds, Claims(t, l)
      PROVE  PortOf(t, l) # p
  <2>1. CASE Holds(t, l)
    BY <1>1, <2>1 DEF PoolInv, PoolExact
  <2>2. CASE l \in lsn[t]
    BY <1>1, <2>2 DEF Bound
  <2> QED
    BY <1>2, <2>1, <2>2 DEF Claims
<1>3. ASSUME NEW t \in Sessions, NEW l \in Kinds, <<t, l>> # <<s, k>>, Claims(t, l)'
      PROVE  Claims(t, l) /\ PortOf(t, l)' = PortOf(t, l)
  <2>1. l \in lsn'[t] => l \in lsn[t]
    BY <1>3 DEF PoolInv, TypeOK
  <2> QED
    BY <1>3, <2>1 DEF Claims
<1>4. PoolExact'
  <2>1. ~Holds(s, k)
    BY DEF Claims
  <2> QED
    BY <1>1, <2>1 DEF PoolInv, PoolExact
<1>5. PortsExclusive'
  <2> SUFFICES ASSUME NEW t \in Sessions, NEW u \in Sessions, NEW l \in Kinds,
                      NEW m \in Kinds, Claims(t, l)', Claims(u, m)',
                      PortOf(t, l)' = PortOf(u, m)'
               PROVE  t = u /\ l = m
    BY DEF PortsExclusive
  <2>1. CASE <<t, l>> = <<s, k>> /\ <<u, m>> # <<s, k>>
    BY <1>2, <1>3, <2>1
  <2>2. CASE <<t, l>> # <<s, k>> /\ <<u, m>> = <<s, k>>
    BY <1>2, <1>3, <2>2
  <2>3. CASE <<t, l>> # <<s, k>> /\ <<u, m>> # <<s, k>>
    BY <1>3, <2>3 DEF PoolInv, PortsExclusive
  <2> QED
    BY <2>1, <2>2, <2>3
<1>6. PoolInv'
  BY <1>4, <1>5 DEF PoolInv, TypeInv
<1>7. \A t \in Sessions : ~HasPort(t, p)
  BY <1>2 DEF HasPort
<1>8. HasPort(s, p)'
  BY DEF HasPort, Claims
<1>9. ASSUME NEW t \in Sessions, NEW q \in Ports \ {p}
      PROVE  HasPort(t, q)' <=> HasPort(t, q)
  <2>1. ASSUME NEW l \in Kinds, <<t, l>> # <<s, k>>
        PROVE  Claims(t, l)' <=> Claims(t, l)
    <3>1. l \in lsn'[t] <=> l \in lsn[t]
      BY <2>1 DEF PoolInv, TypeOK
    <3> QED
      BY <2>1, <3>1 DEF Claims
  <2> QED
    BY <2>1 DEF HasPort
<1> QED
  BY <1>6, <1>7, <1>8, <1>9, TakeStep

\* release_port: nobody else holds the port.
LEMMA PoolRelease ==
  ASSUME PoolInv, TypeInv', NEW s \in Sessions, NEW k \in Kinds,
         release_port(PortOf(s, k)), Holds(s, k), ~Holds(s, k)', UNCHANGED lsn,
         \A t \in Sessions, l \in Kinds : PortOf(t, l)' = PortOf(t, l),
         \A t \in Sessions, l \in Kinds :
           <<t, l>> # <<s, k>> => Holds(t, l)' = Holds(t, l)
  PROVE  PoolInv' /\ Pool!Next
<1>1. \A t \in Sessions, l \in Kinds :
        Holds(t, l) /\ PortOf(t, l) = PortOf(s, k) => t = s /\ l = k
  BY DEF PoolInv, PortsExclusive, Claims
<1>2. PoolExact'
  BY <1>1 DEF PoolInv, PoolExact, release_port
<1>3. ASSUME NEW t \in Sessions, NEW l \in Kinds, Claims(t, l)'
      PROVE  Claims(t, l)
  BY <1>3 DEF Claims
<1>4. PortsExclusive'
  BY <1>3 DEF PoolInv, PortsExclusive
<1>5. PoolInv'
  BY <1>2, <1>4 DEF PoolInv, TypeInv
<1>6. \A t \in Sessions \ {s}, p \in Ports : HasPort(t, p)' <=> HasPort(t, p)
  BY DEF HasPort, Claims
<1>7. \A p \in Ports : HasPort(s, p)' => HasPort(s, p)
  BY <1>3 DEF HasPort
<1> QED
  BY <1>5, <1>6, <1>7, GiveStep

LEMMA PoolAllocStep ==
  ASSUME PoolInv, TypeInv', NEW s \in Sessions, AllocPublic(s) \/ AllocData(s)
  PROVE  PoolInv' /\ Pool!Next
<1>0. TypeOK /\ PhaseOK /\ sess[s] \in Session
  BY DEF PoolInv, TypeOK
<1>1. ASSUME NEW p \in Ports, At(s, "accepted"), allocate_port(p),
             sess' = [sess EXCEPT ![s].pc = "data", ![s].public = p],
             lsn' = [lsn EXCEPT ![s] = @ \cup {"public"}]
      PROVE  PoolInv' /\ Pool!Next
  <2>1. /\ sess'[s].pc = "data" /\ sess'[s].public = p
        /\ sess'[s].data = sess[s].data
        /\ \A t \in Sessions \ {s} : sess'[t] = sess[t]
    BY <1>0, <1>1 DEF TypeOK, Session
  <2>2. PortOf(s, "public")' = p /\ Holds(s, "public")'
    BY <2>1 DEF PortOf, Holds
  <2>3. ~Claims(s, "public")
    BY <1>0, <1>1 DEF Claims, Holds, PhaseOK, At
  <2>4. ASSUME NEW t \in Sessions, NEW l \in Kinds, <<t, l>> # <<s, "public">>
        PROVE  PortOf(t, l)' = PortOf(t, l) /\ Holds(t, l)' = Holds(t, l)
    <3>1. CASE t # s
      BY <2>1, <3>1 DEF PortOf, Holds
    <3>2. CASE t = s
      <4>1. l = "data"
        BY <2>4, <3>2 DEF Kinds
      <4> QED
        BY <1>1, <2>1, <3>2, <4>1 DEF PortOf, Holds, At
    <3> QED
      BY <3>1, <3>2
  <2> QED
    BY <1>1, <2>2, <2>3, <2>4, PoolAllocate DEF Kinds
<1>2. ASSUME NEW p \in Ports, At(s, "data"), allocate_port(p),
             sess' = [sess EXCEPT ![s].pc = "handshake", ![s].data = p],
             lsn' = [lsn EXCEPT ![s] = @ \cup {"data"}]
      PROVE  PoolInv' /\ Pool!Next
  <2>1. /\ sess'[s].pc = "handshake" /\ sess'[s].data = p
        /\ sess'[s].public = sess[s].public
        /\ \A t \in Sessions \ {s} : sess'[t] = sess[t]
    BY <1>0, <1>2 DEF TypeOK, Session
  <2>2. PortOf(s, "data")' = p /\ Holds(s, "data")'
    BY <2>1 DEF PortOf, Holds
  <2>3. ~Claims(s, "data")
    BY <1>0, <1>2 DEF Claims, Holds, PhaseOK, At
  <2>4. ASSUME NEW t \in Sessions, NEW l \in Kinds, <<t, l>> # <<s, "data">>
        PROVE  PortOf(t, l)' = PortOf(t, l) /\ Holds(t, l)' = Holds(t, l)
    <3>1. CASE t # s
      BY <2>1, <3>1 DEF PortOf, Holds
    <3>2. CASE t = s
      <4>1. l = "public"
        BY <2>4, <3>2 DEF Kinds
      <4> QED
        BY <1>2, <2>1, <3>2, <4>1 DEF PortOf, Holds, At
    <3> QED
      BY <3>1, <3>2
  <2> QED
    BY <1>2, <2>2, <2>3, <2>4, PoolAllocate DEF Kinds
<1>3. ASSUME NEW l \in {"ended", "reject"}, Goto(s, l), UNCHANGED <<used, lsn>>,
             l = "ended" => At(s, "accepted"), l = "reject" => At(s, "data")
      PROVE  PoolInv' /\ Pool!Next
  <2>1. /\ sess'[s].pc = l
        /\ sess'[s].public = sess[s].public
        /\ sess'[s].data = sess[s].data
        /\ \A t \in Sessions \ {s} : sess'[t] = sess[t]
    BY <1>0, <1>3, GotoType DEF SessionPC
  <2>2. \A k \in Kinds : Holds(s, k)' = Holds(s, k)
    BY <1>3, <2>1 DEF Holds, Kinds, At
  <2> QED
    BY <1>3, <2>1, <2>2, PoolMove
<1> QED
  BY <1>1, <1>2, <1>3 DEF AllocPublic, AllocData

LEMMA PoolReleaseStep ==
  ASSUME PoolInv, TypeInv', NEW s \in Sessions, Release(s)
  PROVE  PoolInv' /\ Pool!Next
<1>0. TypeOK
  BY DEF PoolInv
<1>1. PICK k \in Kinds, l \in SessionPC :
        /\ Goto(s, l)
        /\ release_port(PortOf(s, k))
        /\ \/ k = "public" /\ sess[s].pc = "end_public" /\ l = "end_data"
           \/ k = "data" /\ sess[s].pc = "end_data" /\ l = "ended"
           \/ k = "public" /\ sess[s].pc = "fail_public" /\ l = "fail_data"
           \/ k = "data" /\ sess[s].pc = "fail_data" /\ l = "drop"
           \/ k = "public" /\ sess[s].pc = "reject" /\ l = "drop"
  BY DEF Release, At, PortOf, Kinds, SessionPC
<1>2. /\ sess'[s].pc = l
      /\ sess'[s].public = sess[s].public
      /\ sess'[s].data = sess[s].data
      /\ \A t \in Sessions \ {s} : sess'[t] = sess[t]
  BY <1>0, <1>1, GotoType
<1>3. Holds(s, k) /\ ~Holds(s, k)'
  BY <1>1, <1>2 DEF Holds
<1>4. ASSUME NEW t \in Sessions, NEW m \in Kinds
      PROVE  /\ PortOf(t, m)' = PortOf(t, m)
             /\ <<t, m>> # <<s, k>> => Holds(t, m)' = Holds(t, m)
  BY <1>1, <1>2 DEF PortOf, Holds, Kinds
<1>5. UNCHANGED lsn
  BY DEF Release
<1> QED
  BY <1>1, <1>3, <1>4, <1>5, PoolRelease

\* run_session's other steps, and the accept loop.
LEMMA PoolMoveStep ==
  ASSUME PoolInv, TypeInv', NEW s \in Sessions,
         \/ Connect(s) \/ Handshake(s) \/ Return(s) \/ PingFails(s)
         \/ AcceptFails(s) \/ OpenFails(s) \/ OpenWritten(s)
         \/ \E v \in Visitors : PublicAccept(s, v)
  PROVE  PoolInv' /\ Pool!Next
<1>0. TypeOK /\ sess \in [Sessions -> Session] /\ sess[s] \in Session
  BY DEF PoolInv, TypeOK
<1>1. /\ UNCHANGED used
      /\ lsn'[s] \subseteq lsn[s]
      /\ \A t \in Sessions \ {s} : lsn'[t] = lsn[t]
  BY <1>0 DEF TypeOK, Connect, Handshake, Return, PingFails, AcceptFails,
     OpenFails, OpenWritten, PublicAccept, EndSession
<1>2. PICK l \in SessionPC :
        /\ \/ Goto(s, l)
           \/ \E o : sess' = [sess EXCEPT ![s].pc = l, ![s].opening = o]
        /\ \/ sess[s].pc = "none" /\ l = "accepted"
           \/ sess[s].pc = "drop" /\ l = "ended"
           \/ /\ sess[s].pc \in {"handshake", "running", "open"}
              /\ l \in {"running", "open", "fail_public", "end_public"}
  BY DEF Connect, Handshake, Return, PingFails, AcceptFails, OpenFails,
     OpenWritten, PublicAccept, EndSession, SessionPC, At
<1>3. /\ sess'[s].pc = l
      /\ sess'[s].public = sess[s].public
      /\ sess'[s].data = sess[s].data
      /\ \A t \in Sessions \ {s} : sess'[t] = sess[t]
  <2>1. CASE Goto(s, l)
    BY <1>0, <2>1, GotoType
  <2>2. CASE \E o : sess' = [sess EXCEPT ![s].pc = l, ![s].opening = o]
    BY <1>0, <2>2 DEF Session
  <2> QED
    BY <1>2, <2>1, <2>2
<1>4. \A k \in Kinds : Holds(s, k)' = Holds(s, k)
  BY <1>2, <1>3 DEF Holds, Kinds
<1> QED
  BY <1>1, <1>3, <1>4, PoolMove

\* After a crash nobody holds or claims a port.
LEMMA CrashClaims ==
  ASSUME TypeOK, ServerCrash
  PROVE  /\ used' = {}
         /\ \A s \in Sessions, k \in Kinds : ~Holds(s, k)' /\ ~Claims(s, k)'
<1>1. \A s \in Sessions : lsn'[s] = {} /\ sess'[s].pc \in {"none", "ended"}
  BY DEF ServerCrash, TypeOK, Session, At
<1>2. \A s \in Sessions, k \in Kinds : ~Holds(s, k)'
  BY <1>1 DEF Holds
<1> QED
  BY <1>1, <1>2 DEF Claims, ServerCrash

LEMMA PoolCrashStep ==
  ASSUME PoolInv, TypeInv', ServerCrash
  PROVE  PoolInv' /\ Pool!Next
<1>1. PoolExact' /\ PortsExclusive'
  BY CrashClaims DEF PoolInv, PoolExact, PortsExclusive
<1>2. PoolInv'
  BY <1>1 DEF PoolInv, TypeInv
<1>3. \A s \in Sessions, p \in Ports : ~HasPort(s, p)'
  BY CrashClaims DEF PoolInv, HasPort
<1>4. Owner' = [p \in Ports |-> None]
  BY <1>3 DEF Owner
<1> QED
  BY <1>2, <1>4 DEF Pool!Next, Pool!Reset

LEMMA TunnelTypeStep == TypeInv /\ [Next]_vars => TypeInv'
<1> SUFFICES ASSUME TypeInv, [Next]_vars PROVE TypeInv'
  OBVIOUS
<1>1. CASE UNCHANGED vars
  BY <1>1 DEF vars, portVars, streamVars, TypeInv, TypeOK, PhaseOK, At
<1>2. CASE Next
  BY <1>2, AllocType, SessionType, AcceptType, OpenWrittenType, StreamType,
     CrashType
     DEF Next, SessionStep, StreamStep
<1> QED
  BY <1>1, <1>2

LEMMA PoolStep == PoolInv /\ [Next]_vars => PoolInv' /\ [Pool!Next]_Owner
<1> SUFFICES ASSUME PoolInv, [Next]_vars PROVE PoolInv' /\ [Pool!Next]_Owner
  OBVIOUS
<1>0. TypeInv /\ TypeInv'
  BY TunnelTypeStep DEF PoolInv, TypeInv
<1>1. ASSUME UNCHANGED portVars
      PROVE  PoolInv' /\ UNCHANGED Owner
  <2>1. ASSUME NEW t \in Sessions, NEW k \in Kinds
        PROVE  /\ Holds(t, k)' = Holds(t, k)
               /\ PortOf(t, k)' = PortOf(t, k)
               /\ k \in lsn'[t] => k \in lsn[t]
    BY <1>1 DEF portVars, Holds, PortOf
  <2>2. PoolInv'
    BY <1>0, <1>1, <2>1, PoolFrame DEF portVars
  <2>3. UNCHANGED Owner
    BY <1>1 DEF portVars, Owner, HasPort, Claims, Holds, PortOf
  <2> QED
    BY <2>2, <2>3
<1>2. CASE UNCHANGED vars
  BY <1>1, <1>2 DEF vars
<1>3. CASE Next
  BY <1>0, <1>1, <1>3, PoolAllocStep, PoolReleaseStep, PoolMoveStep, StreamType,
     PoolCrashStep
     DEF Next, SessionStep, StreamStep
<1> QED
  BY <1>2, <1>3

\* The inductive invariant holds throughout, whatever fails.
LEMMA PoolInvariant == Spec => []PoolInv
  BY PoolInit, PoolStep, PTL DEF Spec

\* Type correctness of server and client, for every environment.
THEOREM TunnelTypeCorrect == Spec => []TypeOK
<1>1. PoolInv => TypeOK
  BY DEF PoolInv
<1> QED
  BY <1>1, PoolInvariant, PTL

\* used_ports is exactly what the sessions hold: allocate_port and
\* release_port neither leak a port nor hand out one that is in use, for
\* any number of sessions, ports and visitors, and whatever fails.
THEOREM PoolCorrect == Spec => []PoolExact
<1>1. PoolInv => PoolExact
  BY DEF PoolInv
<1> QED
  BY <1>1, PoolInvariant, PTL

\* No port is claimed by two sessions, or listened on by two acceptors: a
\* visitor of one volunteer's port never reaches another's session.
THEOREM PortsClaimedOnce == Spec => []PortsExclusive
<1>1. PoolInv => PortsExclusive
  BY DEF PoolInv
<1> QED
  BY <1>1, PoolInvariant, PTL

\* The server's allocation, binding and release of ports, step by step and
\* from several threads, is a pool in which a port has one holder and goes
\* from one to the next only through being free.
THEOREM PoolRefined == Spec => PoolImplemented
<1>1. Init => Pool!Init
  <2> SUFFICES ASSUME Init PROVE Pool!Init
    OBVIOUS
  <2>1. \A s \in Sessions : sess[s].pc = "none" /\ lsn[s] = {}
    BY DEF Init
  <2>2. \A s \in Sessions, p \in Ports : ~HasPort(s, p)
    BY <2>1 DEF HasPort, Claims, Holds
  <2> QED
    BY <2>2 DEF Pool!Init, Owner
<1> QED
  BY <1>1, PoolInit, PoolStep, PTL DEF Spec, PoolImplemented, Pool!Spec

=============================================================================
