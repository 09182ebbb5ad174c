---------------------------- MODULE StreamProofs ----------------------------
(***************************************************************************)
(* Streams of the tunnel reach the visitors they were opened for, for any  *)
(* number of sessions, ports, visitors and stream ids.                     *)
(***************************************************************************)
EXTENDS TunnelProofs, SequenceTheorems

Inv == PoolInv /\ StreamInv

\* What the steps of a session leave alone keeps the streams right: nothing
\* but positions and listeners changes, and data_acceptor's listener stays
\* open where a frame or a stream may need it.
LEMMA StreamFrame ==
  ASSUME StreamInv, UNCHANGED <<wire, streams, pend, visit, joined, reissued>>,
         Spoken',
         \A t \in Sessions : InFlight(t)' \subseteq InFlight(t),
         \A t \in Sessions :
           "data" \in lsn[t] /\ ~(wire[t] = <<>> /\ streams[t] = {})
             => "data" \in lsn'[t]
  PROVE  StreamInv'
<1>1. SplicedToItsVisitor'
  BY DEF StreamInv, SplicedToItsVisitor
<1>2. reissued = {} => IdsLead' /\ WaitsOnce' /\ DataListening'
  BY DEF StreamInv, IdsLead, WaitsOnce, DataListening
<1> QED
  BY <1>1, <1>2 DEF StreamInv

\* run_session up to its return, without the accept loop.
LEMMA SessionStreams ==
  ASSUME Inv, NEW s \in Sessions,
         \/ Connect(s) \/ AllocPublic(s) \/ AllocData(s) \/ Handshake(s)
         \/ Release(s) \/ Return(s) \/ PingFails(s) \/ AcceptFails(s)
         \/ OpenFails(s)
  PROVE  StreamInv'
<1>0. TypeOK /\ sess \in [Sessions -> Session] /\ lsn \in [Sessions -> SUBSET Kinds]
      /\ StreamInv /\ Spoken
  BY DEF Inv, PoolInv, TypeOK, StreamInv
<1>1. UNCHANGED <<wire, streams, pend, visit, joined, reissued>>
  BY DEF Connect, AllocPublic, AllocData, Handshake, Release, Return,
     PingFails, AcceptFails, OpenFails, EndSession, streamVars
<1>2. /\ \A t \in Sessions \ {s} : sess'[t] = sess[t] /\ lsn'[t] = lsn[t]
      /\ sess'[s].pc \notin {"none", "open"}
  BY <1>0 DEF Connect, AllocPublic, AllocData, Handshake, Release, Return,
     PingFails, AcceptFails, OpenFails, EndSession, Goto, Session, At
<1>3. /\ sess'[s].pc \in {"handshake", "running"} => "data" \in lsn'[s]
      /\ sess'[s].pc \in {"accepted", "data", "handshake", "fail_public",
                         "fail_data", "reject", "drop"}
           => sess[s].pc \in {"none", "accepted", "data", "handshake",
                              "fail_public", "fail_data", "reject", "drop"}
  BY <1>0 DEF Connect, AllocPublic, AllocData, Handshake, Release, Return,
     PingFails, AcceptFails, OpenFails, EndSession, Goto, Session, At, Spoken,
     Kinds
<1>4. Spoken'
  BY <1>0, <1>1, <1>2, <1>3 DEF Spoken
<1>5. \A t \in Sessions : InFlight(t)' \subseteq InFlight(t)
  BY <1>1, <1>2 DEF InFlight, At
<1>6. "data" \in lsn[s] /\ ~(wire[s] = <<>> /\ streams[s] = {})
        => "data" \in lsn'[s]
  BY <1>0 DEF Connect, AllocPublic, AllocData, Handshake, Release, Return,
     PingFails, AcceptFails, OpenFails, EndSession, At, Spoken
<1> QED
  BY <1>0, <1>1, <1>2, <1>4, <1>5, <1>6, StreamFrame

\* public_acceptor: the new id is not in use, unless it is recorded.
LEMMA AcceptStreams ==
  ASSUME Inv, NEW s \in Sessions, NEW v \in Visitors, PublicAccept(s, v)
  PROVE  StreamInv'
<1> DEFINE i == counter[s]
           o == [sid |-> i, visitor |-> v]
<1>0. /\ sess \in [Sessions -> Session] /\ pend \in [Sessions -> MapsOf(StreamIds, Visitors)]
      /\ visit \in [Visitors -> {"away", "pending", "spliced", "dropped"}]
      /\ i \in StreamIds /\ pend[s] \in MapsOf(StreamIds, Visitors)
      /\ StreamInv /\ Spoken
  BY DEF Inv, PoolInv, TypeOK, StreamInv
<1>1. /\ At(s, "running") /\ visit[v] = "away"
      /\ pend' = [pend EXCEPT ![s] = Put(@, i, v)]
      /\ sess' = [sess EXCEPT ![s].pc = "open", ![s].opening = o]
      /\ reissued' = IF InUse(s, i) THEN reissued \cup {s} ELSE reissued
      /\ UNCHANGED <<lsn, wire, streams, joined>>
  BY DEF PublicAccept
<1>2. /\ \A t \in Sessions \ {s} : sess'[t] = sess[t] /\ pend'[t] = pend[t]
      /\ sess'[s].pc = "open" /\ sess'[s].opening = o
      /\ pend'[s] = Put(pend[s], i, v)
  BY <1>0, <1>1 DEF Session
<1>3. Spoken'
  BY <1>0, <1>1, <1>2 DEF Spoken, At
<1>4. ASSUME reissued' = {}
      PROVE  SplicedToItsVisitor' /\ IdsLead' /\ WaitsOnce' /\ DataListening'
  <2>1. reissued = {} /\ ~InUse(s, i)
    BY <1>1, <1>4
  <2>2. SplicedToItsVisitor /\ IdsLead /\ WaitsOnce /\ DataListening
    BY <1>0, <2>1 DEF StreamInv
  <2>3. /\ i \notin DOMAIN pend[s]
        /\ \A k \in DOMAIN wire[s] : wire[s][k].sid # i
        /\ \A q \in streams[s] : q.sid # i
    BY <2>1 DEF InUse
  <2>4. /\ DOMAIN pend'[s] = DOMAIN pend[s] \cup {i}
        /\ pend'[s][i] = v
        /\ \A j \in DOMAIN pend[s] : pend'[s][j] = pend[s][j]
    BY <1>2, <2>3 DEF Put
  <2>5. \A t \in Sessions : \A j \in DOMAIN pend[t] :
          j \in StreamIds /\ pend[t][j] \in Visitors /\ visit[pend[t][j]] = "pending"
    <3> SUFFICES ASSUME NEW t \in Sessions, NEW j \in DOMAIN pend[t]
                 PROVE  j \in StreamIds /\ pend[t][j] \in Visitors /\ visit[pend[t][j]] = "pending"
      OBVIOUS
    <3>1. pend[t] \in MapsOf(StreamIds, Visitors)
      BY <1>0
    <3>2. j \in StreamIds /\ pend[t][j] \in Visitors
      BY <3>1, MapElim
    <3> QED
      BY <2>1, <2>2, <3>2 DEF SplicedToItsVisitor
  <2>6. visit' = [u \in Visitors |-> IF u = v THEN "pending" ELSE visit[u]]
    BY <2>3 DEF PublicAccept
  <2>7. \A t \in Sessions : \A j \in DOMAIN pend'[t] : visit'[pend'[t][j]] = "pending"
    BY <1>2, <2>4, <2>5, <2>6
  <2>8. SplicedToItsVisitor'
    BY <1>1, <2>1, <2>2, <2>7 DEF SplicedToItsVisitor
  <2>9. /\ \A q \in InFlight(s)' : q = o \/ (q \in InFlight(s) /\ q.sid # i)
        /\ \A t \in Sessions \ {s} : InFlight(t)' = InFlight(t)
    BY <1>1, <1>2, <2>3 DEF InFlight, At
  <2>10. IdsLead'
    BY <1>2, <2>2, <2>4, <2>9 DEF IdsLead
  <2>11. \A t \in Sessions : \A j \in DOMAIN pend[t] : pend[t][j] # v
    BY <1>1, <2>5
  <2>12. WaitsOnce'
    BY <1>2, <2>2, <2>4, <2>11 DEF WaitsOnce
  <2>13. DataListening'
    BY <1>1, <2>2 DEF DataListening
  <2> QED
    BY <2>8, <2>10, <2>12, <2>13
<1> QED
  BY <1>3, <1>4 DEF StreamInv, SplicedToItsVisitor

\* OPEN goes onto the wire of a client that was told its data port.
LEMMA OpenStreams ==
  ASSUME Inv, NEW s \in Sessions, OpenWritten(s)
  PROVE  StreamInv'
<1>0. /\ sess \in [Sessions -> Session] /\ wire \in [Sessions -> Seq(Opened)]
      /\ wire[s] \in Seq(Opened) /\ sess[s].opening \in Opened
      /\ StreamInv /\ Spoken /\ sess[s].pc = "open" /\ "data" \in lsn[s]
  BY DEF Inv, PoolInv, PhaseOK, TypeOK, StreamInv, OpenWritten, At, Spoken
<1>1. /\ UNCHANGED <<lsn, streams, pend, visit, joined, reissued>>
      /\ \A t \in Sessions \ {s} : sess'[t] = sess[t] /\ wire'[t] = wire[t]
      /\ sess'[s].pc = "running"
      /\ wire'[s] = wire[s] \/ wire'[s] = Append(wire[s], sess[s].opening)
  BY <1>0 DEF OpenWritten, Session
<1>2. Spoken'
  BY <1>0, <1>1 DEF Spoken
<1>3. \A k \in DOMAIN wire'[s] :
        wire'[s][k] = sess[s].opening \/ \E j \in DOMAIN wire[s] : wire'[s][k] = wire[s][j]
  <2>1. CASE wire'[s] = wire[s]
    BY <2>1
  <2>2. CASE wire'[s] = Append(wire[s], sess[s].opening)
    BY <1>0, <2>2, AppendProperties, LenProperties
  <2> QED
    BY <1>1, <2>1, <2>2
<1>4. \A t \in Sessions : InFlight(t)' \subseteq InFlight(t)
  <2>1. \A t \in Sessions \ {s} : InFlight(t)' \subseteq InFlight(t)
    BY <1>1 DEF InFlight, At
  <2>2. InFlight(s)' \subseteq InFlight(s)
    BY <1>0, <1>1, <1>3 DEF InFlight, At
  <2> QED
    BY <2>1, <2>2
<1>5. SplicedToItsVisitor'
  BY <1>0, <1>1 DEF StreamInv, SplicedToItsVisitor
<1>6. reissued' = {} => IdsLead' /\ WaitsOnce' /\ DataListening'
  BY <1>0, <1>1, <1>4 DEF StreamInv, IdsLead, WaitsOnce, DataListening
<1> QED
  BY <1>2, <1>5, <1>6 DEF StreamInv

\* A visitor leaves the pending map of session u by id i, for good.
LEMMA UnpendStreams ==
  ASSUME Inv, NEW u \in Sessions, NEW i \in DOMAIN pend[u], Unpend(u, i),
         NEW l \in {"spliced", "dropped"}, visit' = [visit EXCEPT ![pend[u][i]] = l],
         reissued = {}
  PROVE  /\ \A t \in Sessions : \A j \in DOMAIN pend'[t] :
              j \in DOMAIN pend[t] /\ pend'[t][j] = pend[t][j] /\ visit'[pend'[t][j]] = "pending"
         /\ WaitsOnce'
<1>0. /\ pend \in [Sessions -> MapsOf(StreamIds, Visitors)]
      /\ visit \in [Visitors -> {"away", "pending", "spliced", "dropped"}]
      /\ SplicedToItsVisitor /\ WaitsOnce
  BY DEF Inv, PoolInv, TypeOK, StreamInv
<1>1. /\ \A t \in Sessions \ {u} : pend'[t] = pend[t]
      /\ pend'[u] = Drop(pend[u], i)
  BY <1>0 DEF Unpend
<1>2. /\ DOMAIN pend'[u] = DOMAIN pend[u] \ {i}
      /\ \A j \in DOMAIN pend'[u] : pend'[u][j] = pend[u][j]
  BY <1>1 DEF Drop
<1>3. \A t \in Sessions : \A j \in DOMAIN pend'[t] :
        j \in DOMAIN pend[t] /\ pend'[t][j] = pend[t][j] /\ (t = u => j # i)
  BY <1>1, <1>2
<1>4. ASSUME NEW t \in Sessions, NEW j \in DOMAIN pend'[t]
      PROVE  visit'[pend'[t][j]] = "pending"
  <2>1. pend[t] \in MapsOf(StreamIds, Visitors) /\ j \in DOMAIN pend[t]
    BY <1>0, <1>3, <1>4
  <2>2. j \in StreamIds /\ pend[t][j] \in Visitors
    BY <2>1, MapElim
  <2>3. visit[pend[t][j]] = "pending"
    BY <1>0, <2>1, <2>2 DEF SplicedToItsVisitor
  <2>4. pend[t][j] # pend[u][i]
    BY <1>0, <1>3, <1>4, <2>1 DEF WaitsOnce
  <2> QED
    BY <1>0, <1>3, <1>4, <2>2, <2>3, <2>4
<1>5. WaitsOnce'
  BY <1>0, <1>3 DEF WaitsOnce
<1> QED
  BY <1>3, <1>4, <1>5

\* A stream is answered by its own session: while ids are not reissued, the
\* session's data listener is open, and no port is bound twice.
LEMMA AnswersItself ==
  ASSUME Inv, reissued = {}, NEW s \in Sessions, NEW o \in streams[s],
         NEW u \in Sessions, Answers(u, s)
  PROVE  u = s
<1>1. "data" \in lsn[s] /\ "data" \in lsn[u] /\ sess[u].data = sess[s].data
  BY DEF Inv, StreamInv, DataListening, Answers
<1>2. /\ "data" \in Kinds /\ Claims(s, "data") /\ Claims(u, "data")
      /\ PortOf(s, "data") = PortOf(u, "data")
  BY <1>1 DEF Kinds, Claims, PortOf
<1> QED
  BY <1>2 DEF Inv, PoolInv, PortsExclusive

\* data_acceptor: the visitor found by the id is the one OPEN was sent for.
LEMMA DataStreams ==
  ASSUME Inv, NEW s \in Sessions, NEW o \in streams[s], NEW u \in Sessions,
         DataAccept(s, o, u)
  PROVE  StreamInv'
<1>0. /\ streams \in [Sessions -> SUBSET Opened] /\ o \in Opened
      /\ StreamInv /\ Spoken
  BY DEF Inv, PoolInv, TypeOK, StreamInv
<1>1. /\ Answers(u, s)
      /\ UNCHANGED <<sess, lsn, wire, reissued>>
      /\ \A t \in Sessions : streams'[t] \subseteq streams[t]
  BY <1>0 DEF DataAccept, portVars
<1>2. Spoken'
  BY <1>0, <1>1 DEF Spoken
<1>3. \A t \in Sessions : InFlight(t)' \subseteq InFlight(t)
  BY <1>1 DEF InFlight, At
<1>4. ASSUME reissued = {}
      PROVE  SplicedToItsVisitor' /\ IdsLead' /\ WaitsOnce' /\ DataListening'
  <2>1. u = s
    BY <1>1, <1>4, AnswersItself
  <2>2. SplicedToItsVisitor /\ IdsLead /\ WaitsOnce /\ DataListening
    BY <1>0, <1>4 DEF StreamInv
  <2>3. DataListening'
    BY <1>1, <2>2 DEF DataListening
  <2>4. CASE o.sid \in DOMAIN pend[s]
    <3>1. /\ Unpend(s, o.sid)
          /\ visit' = [visit EXCEPT ![pend[s][o.sid]] = "spliced"]
          /\ joined' = joined \cup {[opened |-> o.visitor, got |-> pend[s][o.sid]]}
      BY <2>1, <2>4 DEF DataAccept
    <3>2. /\ \A t \in Sessions : \A j \in DOMAIN pend'[t] :
               /\ j \in DOMAIN pend[t] /\ pend'[t][j] = pend[t][j]
               /\ visit'[pend'[t][j]] = "pending"
          /\ WaitsOnce'
      BY <1>4, <2>4, <3>1, UnpendStreams
    <3>3. pend[s][o.sid] = o.visitor
      BY <1>0, <2>2, <2>4 DEF IdsLead, InFlight
    <3>4. SplicedToItsVisitor'
      BY <1>4, <2>2, <3>1, <3>2, <3>3 DEF SplicedToItsVisitor
    <3>5. IdsLead'
      BY <1>3, <2>2, <3>2 DEF IdsLead
    <3> QED
      BY <2>3, <3>2, <3>4, <3>5
  <2>5. CASE o.sid \notin DOMAIN pend[s]
    <3>1. UNCHANGED <<pend, visit, joined>>
      BY <2>1, <2>5 DEF DataAccept
    <3>2. SplicedToItsVisitor' /\ WaitsOnce'
      BY <1>4, <2>2, <3>1 DEF SplicedToItsVisitor, WaitsOnce
    <3>3. IdsLead'
      BY <1>3, <2>2, <3>1 DEF IdsLead
    <3> QED
      BY <2>3, <3>2, <3>3
  <2> QED
    BY <2>4, <2>5
<1> QED
  BY <1>1, <1>2, <1>4 DEF StreamInv, SplicedToItsVisitor

\* control_reader: CLOSE takes a visitor out of the map.
LEMMA CloseStreams ==
  ASSUME Inv, NEW s \in Sessions, NEW i \in StreamIds, ControlClose(s, i)
  PROVE  StreamInv'
<1>0. StreamInv /\ Spoken
  BY DEF Inv, StreamInv
<1>1. /\ i \in DOMAIN pend[s] /\ Unpend(s, i)
      /\ visit' = [visit EXCEPT ![pend[s][i]] = "dropped"]
      /\ UNCHANGED <<sess, lsn, wire, streams, joined, reissued>>
  BY DEF ControlClose, portVars
<1>2. Spoken' /\ \A t \in Sessions : InFlight(t)' = InFlight(t)
  BY <1>0, <1>1 DEF Spoken, InFlight, At
<1>3. ASSUME reissued = {}
      PROVE  SplicedToItsVisitor' /\ IdsLead' /\ WaitsOnce' /\ DataListening'
  <2>1. SplicedToItsVisitor /\ IdsLead /\ WaitsOnce /\ DataListening
    BY <1>0, <1>3 DEF StreamInv
  <2>2. /\ \A t \in Sessions : \A j \in DOMAIN pend'[t] :
             /\ j \in DOMAIN pend[t] /\ pend'[t][j] = pend[t][j]
             /\ visit'[pend'[t][j]] = "pending"
        /\ WaitsOnce'
    BY <1>1, <1>3, UnpendStreams
  <2>3. SplicedToItsVisitor'
    BY <1>1, <2>1, <1>3, <2>2 DEF SplicedToItsVisitor
  <2> QED
    BY <1>1, <1>2, <2>1, <2>2, <2>3 DEF IdsLead, DataListening
<1> QED
  BY <1>1, <1>2, <1>3 DEF StreamInv, SplicedToItsVisitor

\* The client: OPEN goes from the wire to a thread, or the thread gives up,
\* or the client falls silent or is gone.
LEMMA ClientStreams ==
  ASSUME Inv, NEW s \in Sessions,
         \/ ClientOpen(s) \/ (\E o \in streams[s] : DialFails(s, o))
         \/ AgentGone(s) \/ AgentHangs(s)
  PROVE  StreamInv'
<1>0. /\ wire \in [Sessions -> Seq(Opened)] /\ wire[s] \in Seq(Opened)
      /\ streams \in [Sessions -> SUBSET Opened]
      /\ StreamInv /\ Spoken
  BY DEF Inv, PoolInv, TypeOK, StreamInv
<1>1. /\ UNCHANGED <<sess, lsn, pend, visit, joined, reissued>>
      /\ \A t \in Sessions \ {s} :
           wire'[t] = wire[t] /\ streams'[t] = streams[t]
  BY <1>0 DEF ClientOpen, DialFails, AgentGone, AgentHangs, portVars, streamVars
<1>2. /\ \A k \in DOMAIN wire'[s] : \E j \in DOMAIN wire[s] : wire'[s][k] = wire[s][j]
      /\ \A q \in streams'[s] :
           q \in streams[s] \/ \E j \in DOMAIN wire[s] : q = wire[s][j]
      /\ wire[s] = <<>> /\ streams[s] = {} => wire'[s] = <<>> /\ streams'[s] = {}
  <2>1. CASE ClientOpen(s)
    <3>1. /\ wire[s] # <<>> /\ wire'[s] = Tail(wire[s])
          /\ streams'[s] = streams[s] \cup {Head(wire[s])}
      BY <1>0, <2>1 DEF ClientOpen
    <3>2. /\ Head(wire[s]) = wire[s][1] /\ 1 \in DOMAIN wire[s]
          /\ \A k \in DOMAIN Tail(wire[s]) :
               k + 1 \in DOMAIN wire[s] /\ Tail(wire[s])[k] = wire[s][k + 1]
      BY <1>0, <3>1, HeadTailProperties, LenProperties, EmptySeq
    <3> QED
      BY <3>1, <3>2
  <2>2. CASE \E o \in streams[s] : DialFails(s, o)
    BY <1>0, <2>2 DEF DialFails
  <2>3. CASE AgentGone(s)
    BY <1>0, <2>3 DEF AgentGone
  <2>4. CASE AgentHangs(s)
    BY <2>4 DEF AgentHangs, streamVars
  <2> QED
    BY <2>1, <2>2, <2>3, <2>4
<1>3. Spoken'
  BY <1>0, <1>1, <1>2 DEF Spoken
<1>4. \A t \in Sessions : InFlight(t)' \subseteq InFlight(t)
  <2>1. \A t \in Sessions \ {s} : InFlight(t)' \subseteq InFlight(t)
    BY <1>1 DEF InFlight, At
  <2>2. InFlight(s)' \subseteq InFlight(s)
    BY <1>1, <1>2 DEF InFlight, At
  <2> QED
    BY <2>1, <2>2
<1>5. SplicedToItsVisitor'
  BY <1>0, <1>1 DEF StreamInv, SplicedToItsVisitor
<1>6. reissued' = {} => IdsLead' /\ WaitsOnce' /\ DataListening'
  BY <1>0, <1>1, <1>2, <1>4 DEF StreamInv, IdsLead, WaitsOnce, DataListening
<1> QED
  BY <1>3, <1>5, <1>6 DEF StreamInv

\* A new server knows no visitor; if a client thread is left over, its id is
\* recorded as one that may be given out twice.
LEMMA CrashStreams ==
  ASSUME Inv, ServerCrash
  PROVE  StreamInv'
<1>0. /\ sess \in [Sessions -> Session] /\ StreamInv /\ Spoken
  BY DEF Inv, PoolInv, TypeOK, StreamInv
<1>1. /\ \A s \in Sessions :
           /\ wire'[s] = <<>> /\ pend'[s] = EmptyMap
           /\ IF sess[s].pc = "none" THEN sess'[s].pc = "none"
                                     ELSE sess'[s].pc = "ended"
      /\ reissued' = reissued \cup {s \in Sessions : streams[s] # {}}
      /\ UNCHANGED <<streams, joined>>
  BY <1>0 DEF ServerCrash, Session, At
<1>2. Spoken'
  BY <1>0, <1>1 DEF Spoken
<1>3. \A s \in Sessions : DOMAIN pend'[s] = {}
  BY <1>1 DEF EmptyMap
<1>4. ASSUME reissued' = {}
      PROVE  SplicedToItsVisitor' /\ IdsLead' /\ WaitsOnce' /\ DataListening'
  <2>1. reissued = {} /\ \A s \in Sessions : streams'[s] = {}
    BY <1>1, <1>4
  <2>2. SplicedToItsVisitor'
    BY <1>0, <1>1, <1>3, <2>1 DEF StreamInv, SplicedToItsVisitor
  <2> QED
    BY <1>1, <1>3, <2>1, <2>2 DEF IdsLead, WaitsOnce, DataListening
<1> QED
  BY <1>2, <1>4 DEF StreamInv, SplicedToItsVisitor

LEMMA StreamInit == Init => StreamInv
<1> SUFFICES ASSUME Init PROVE StreamInv
  OBVIOUS
<1>1. /\ \A s \in Sessions : /\ sess[s].pc = "none" /\ wire[s] = <<>>
                             /\ streams[s] = {} /\ pend[s] = EmptyMap
      /\ joined = {}
  BY DEF Init
<1>2. \A s \in Sessions : DOMAIN pend[s] = {}
  BY <1>1 DEF EmptyMap
<1> QED
  BY <1>1, <1>2 DEF StreamInv, Spoken, SplicedToItsVisitor, IdsLead, WaitsOnce,
     DataListening

LEMMA StreamStepInv == Inv /\ [Next]_vars => Inv'
<1> SUFFICES ASSUME Inv, [Next]_vars PROVE Inv'
  OBVIOUS
<1>1. PoolInv'
  BY PoolStep DEF Inv
<1>2. CASE UNCHANGED vars
  <2>1. UNCHANGED <<sess, lsn, wire, streams, pend, visit, joined, reissued>>
    BY <1>2 DEF vars, portVars, streamVars
  <2>2. Spoken' /\ \A t \in Sessions : InFlight(t)' = InFlight(t)
    BY <2>1 DEF Inv, StreamInv, Spoken, InFlight, At
  <2> QED
    BY <1>1, <2>1, <2>2, StreamFrame DEF Inv
<1>3. CASE Next
  <2>1. StreamInv'
    BY <1>3, SessionStreams, AcceptStreams, OpenStreams, DataStreams,
       CloseStreams, ClientStreams, CrashStreams
       DEF Next, SessionStep, StreamStep
  <2> QED
    BY <1>1, <2>1 DEF Inv
<1> QED
  BY <1>2, <1>3

\* For every number of sessions, ports, visitors and stream ids, and whatever
\* fails: as long as no id in use is given out again, a data connection is
\* joined to the visitor whose OPEN carried its id, and a visitor that was
\* taken out of a pending map is in no other.
THEOREM StreamsReachTheirVisitors == Spec => []SplicedToItsVisitor
<1>1. Init => Inv
  BY PoolInit, StreamInit DEF Inv
<1>2. Inv => SplicedToItsVisitor
  BY DEF Inv, StreamInv
<1> QED
  BY <1>1, <1>2, StreamStepInv, PTL DEF Spec

=============================================================================
