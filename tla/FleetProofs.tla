----------------------------- MODULE FleetProofs -----------------------------
(***************************************************************************)
(* Type correctness of Fleet, and that a node runs the service it holds,   *)
(* for any number of nodes, ports and services, and any run of failures.   *)
(***************************************************************************)
EXTENDS Fleet, MapTheorems, SequenceTheorems

-----------------------------------------------------------------------------
(* client.rs, the tunnel server and the network between them.              *)

\* What a control connection to the tunnel server may do leaves the agent,
\* its container and the registrar alone.
TunnelSide ==
  \/ \E n \in Nodes :
       \/ ClientStep(n) \/ ClientDies(n) \/ LinkLost(n)
       \/ \E p \in Ports : ServerNotices(n, p) \/ AcceptFails(n, p)
  \/ TunnelRestart

LEMMA EventType ==
  ASSUME events \in Nat, NEW e, Event(e) \/ UNCHANGED events
  PROVE  events' \in Nat
BY DEF Event

\* A client that changes where it is keeps its port and its connection.
LEMMA ClientGotoType ==
  ASSUME client \in [Nodes -> Client], NEW n \in Nodes,
         NEW l \in {"connect", "told", "session", "over", "dead"}, ClientGoto(n, l)
  PROVE  client' \in [Nodes -> Client]
BY DEF ClientGoto, Client

LEMMA ClientSetType ==
  ASSUME client \in [Nodes -> Client], NEW n \in Nodes, NEW c \in Client,
         client' = [client EXCEPT ![n] = c]
  PROVE  client' \in [Nodes -> Client]
OBVIOUS

LEMMA DisconnectedType ==
  Disconnected \in Client /\ [Disconnected EXCEPT !.pc = "dead"] \in Client
BY DEF Disconnected, Client, Opt

LEMMA CutType ==
  ASSUME client \in [Nodes -> Client], NEW N, Cut(N)
  PROVE  client' \in [Nodes -> Client]
<1>1. \A n \in Nodes : [client[n] EXCEPT !.up = FALSE] \in Client
  BY DEF Client
<1> QED
  BY <1>1 DEF Cut

LEMMA ClientStepType ==
  ASSUME TypeOK, NEW n \in Nodes, ClientStep(n)
  PROVE  /\ TypeOK'
         /\ UNCHANGED <<agent, container, target, regVars, spoiled>>
<1>0. /\ owner \in [Ports -> Opt(Nodes)] /\ client \in [Nodes -> Client]
      /\ portFile \in [Nodes -> Opt(Ports)] /\ events \in Nat
  BY DEF TypeOK
<1>1. ASSUME NEW p \in Ports, Connect(n, p)
      PROVE  /\ owner' \in [Ports -> Opt(Nodes)] /\ client' \in [Nodes -> Client]
             /\ portFile' \in [Nodes -> Opt(Ports)] /\ events' \in Nat
             /\ UNCHANGED <<agent, container, target, regVars, spoiled>>
  <2>1. [pc |-> "told", port |-> p, up |-> TRUE] \in Client
    BY DEF Client, Opt
  <2>2. client' \in [Nodes -> Client] /\ events' \in Nat
    BY <1>0, <1>1, <2>1, ClientSetType, EventType DEF Connect, Mishap
  <2>3. owner' \in [Ports -> Opt(Nodes)]
    BY <1>0, <1>1 DEF Connect, Pool!Take, Opt
  <2> QED
    BY <1>0, <1>1, <2>2, <2>3 DEF Connect
<1>2. ASSUME WritePort(n)
      PROVE  /\ owner' \in [Ports -> Opt(Nodes)] /\ client' \in [Nodes -> Client]
             /\ portFile' \in [Nodes -> Opt(Ports)] /\ events' \in Nat
             /\ UNCHANGED <<agent, container, target, regVars, spoiled>>
  <2>1. client[n].port \in Opt(Ports) /\ portFile[n] \in Opt(Ports) /\ None \in Opt(Ports)
    BY <1>0 DEF Client, Opt
  <2>2. CASE /\ portFile' = [portFile EXCEPT ![n] = client[n].port]
             /\ ClientGoto(n, "session") /\ UNCHANGED events
    BY <1>0, <1>2, <2>1, <2>2, ClientGotoType DEF WritePort
  <2>3. ASSUME Mishap(n, "file_err"), NEW left \in {portFile[n], None},
               portFile' = [portFile EXCEPT ![n] = left],
               client' = [client EXCEPT ![n] = Disconnected]
        PROVE  portFile' \in [Nodes -> Opt(Ports)] /\ client' \in [Nodes -> Client]
               /\ events' \in Nat
    BY <1>0, <2>1, <2>3, DisconnectedType, ClientSetType, EventType DEF Mishap
  <2> QED
    BY <1>0, <1>2, <2>2, <2>3 DEF WritePort
<1>3. ASSUME SessionOver(n) \/ RemovePort(n)
      PROVE  /\ owner' \in [Ports -> Opt(Nodes)] /\ client' \in [Nodes -> Client]
             /\ portFile' \in [Nodes -> Opt(Ports)] /\ events' \in Nat
             /\ UNCHANGED <<agent, container, target, regVars, spoiled>>
  BY <1>0, <1>3, ClientGotoType, ClientSetType, DisconnectedType
     DEF SessionOver, RemovePort, Opt
<1> QED
  BY <1>1, <1>2, <1>3 DEF ClientStep, TypeOK, regVars

LEMMA TunnelSideType ==
  ASSUME TypeOK, TunnelSide
  PROVE  /\ TypeOK'
         /\ UNCHANGED <<agent, container, target, regVars, spoiled>>
<1>0. /\ owner \in [Ports -> Opt(Nodes)] /\ client \in [Nodes -> Client]
      /\ portFile \in [Nodes -> Opt(Ports)] /\ events \in Nat
  BY DEF TypeOK
<1>1. ASSUME NEW n \in Nodes, ClientDies(n) \/ LinkLost(n)
      PROVE  /\ owner' \in [Ports -> Opt(Nodes)] /\ client' \in [Nodes -> Client]
             /\ portFile' \in [Nodes -> Opt(Ports)] /\ events' \in Nat
             /\ UNCHANGED <<agent, container, target, regVars, spoiled>>
  BY <1>0, <1>1, ClientSetType, DisconnectedType, CutType, EventType
     DEF ClientDies, LinkLost, Mishap
<1>2. ASSUME NEW n \in Nodes, NEW p \in Ports, ServerNotices(n, p) \/ AcceptFails(n, p)
      PROVE  /\ owner' \in [Ports -> Opt(Nodes)] /\ client' \in [Nodes -> Client]
             /\ portFile' \in [Nodes -> Opt(Ports)] /\ events' \in Nat
             /\ UNCHANGED <<agent, container, target, regVars, spoiled>>
  <2>1. owner' \in [Ports -> Opt(Nodes)]
    BY <1>0, <1>2 DEF ServerNotices, AcceptFails, Pool!Give, Opt
  <2> QED
    BY <1>0, <1>2, <2>1, EventType DEF ServerNotices, AcceptFails, Mishap, nodeVars
<1>3. ASSUME TunnelRestart
      PROVE  /\ owner' \in [Ports -> Opt(Nodes)] /\ client' \in [Nodes -> Client]
             /\ portFile' \in [Nodes -> Opt(Ports)] /\ events' \in Nat
             /\ UNCHANGED <<agent, container, target, regVars, spoiled>>
  <2>1. owner' \in [Ports -> Opt(Nodes)]
    BY <1>3 DEF TunnelRestart, Pool!Reset, Opt
  <2> QED
    BY <1>0, <1>3, <2>1, CutType, EventType DEF TunnelRestart
<1>4. ASSUME /\ owner' \in [Ports -> Opt(Nodes)] /\ client' \in [Nodes -> Client]
             /\ portFile' \in [Nodes -> Opt(Ports)] /\ events' \in Nat
             /\ UNCHANGED <<agent, container, target, regVars, spoiled>>
      PROVE  TypeOK'
  BY <1>4 DEF TypeOK, regVars
<1> QED
  BY <1>1, <1>2, <1>3, <1>4, ClientStepType DEF TunnelSide

LEMMA TunnelSideInv ==
  ASSUME FleetInv, TypeOK', UNCHANGED <<agent, container, target, regVars, spoiled>>
  PROVE  FleetInv'
<1>1. \A n \in Nodes : /\ AssignedTo(n)' = AssignedTo(n)
                       /\ Running(n)' = Running(n)
                       /\ \A l : AgentAt(n, l)' = AgentAt(n, l)
  BY DEF AssignedTo, Running, AgentAt, regVars
<1>2. PortInHand'
  BY <1>1 DEF FleetInv, PortInHand
<1>3. AppliesWhatItHolds'
  BY <1>1 DEF FleetInv, AppliesWhatItHolds
<1>4. ServesWhatItHolds'
  BY <1>1 DEF FleetInv, ServesWhatItHolds
<1> QED
  BY <1>2, <1>3, <1>4 DEF FleetInv

-----------------------------------------------------------------------------
(* The registrar.                                                          *)

\* What the invariant says of one node.
NodeInv(n) ==
  /\ ~AgentAt(n, "wait") => agent[n].port \in Ports
  /\ agent[n].pc \in {"stop", "start"} =>
       /\ agent[n].svc \in Services
       /\ n \notin spoiled => agent[n].svc = AssignedTo(n)
  /\ n \notin spoiled /\ Running(n) =>
       container[n].svc = AssignedTo(n) /\ target[n] = AssignedTo(n)

LEMMA FleetInvByNode ==
  /\ FleetInv <=> TypeOK /\ \A n \in Nodes : NodeInv(n)
  /\ FleetInv' <=> TypeOK' /\ \A n \in Nodes : NodeInv(n)'
BY DEF FleetInv, PortInHand, AppliesWhatItHolds, ServesWhatItHolds, NodeInv

\* An entry of the registrar's map.
LEMMA RegisteredEntry ==
  ASSUME TypeOK, NEW n \in DOMAIN registered
  PROVE  /\ n \in Nodes /\ registered[n] \in [addr : Ports, svc : Opt(Services)]
         /\ registered[n].svc \in Opt(Services)
<1> DEFINE R == [addr : Ports, svc : Opt(Services)]
<1>1. registered \in MapsOf(Nodes, R)
  BY DEF TypeOK
<1>2. n \in Nodes /\ registered[n] \in R
  <2> HIDE DEF R
  <2> QED
    BY <1>1, MapElim
<1> QED
  BY <1>2

\* What NodeInv(n) reads.
Same(n) ==
  /\ agent'[n] = agent[n] /\ container'[n] = container[n] /\ target'[n] = target[n]
  /\ AssignedTo(n)' = AssignedTo(n)
  /\ n \in spoiled' <=> n \in spoiled

\* A step of one node leaves the others' part of the invariant alone.
LEMMA OneNode ==
  ASSUME FleetInv, TypeOK', NEW n \in Nodes, NodeInv(n)',
         \A m \in Nodes \ {n} : Same(m)
  PROVE  FleetInv'
<1>1. \A m \in Nodes \ {n} : NodeInv(m)'
  <2> SUFFICES ASSUME NEW m \in Nodes \ {n} PROVE NodeInv(m)'
    OBVIOUS
  <2>1. NodeInv(m) /\ Same(m)
    BY FleetInvByNode
  <2> QED
    BY <2>1 DEF NodeInv, Same, AgentAt, Running
<1> QED
  BY <1>1, FleetInvByNode

\* enroll: the volunteer is entered with the agent's port; a service it has
\* stays, and no other volunteer's entry changes.
LEMMA EnrollAnswer ==
  ASSUME TypeOK, NEW n \in Nodes, agent[n].port \in Ports, enroll(n)
  PROVE  /\ registered' \in MapsOf(Nodes, [addr : Ports, svc : Opt(Services)])
         /\ queue' \in Seq(Services)
         /\ accepted' = accepted
         /\ AssignedTo(n)' = registered'[n].svc
         /\ AssignedTo(n)' \in Opt(Services)
         /\ AssignedTo(n) # None => AssignedTo(n)' = AssignedTo(n)
         /\ \A m \in Nodes \ {n} : AssignedTo(m)' = AssignedTo(m)
<1> DEFINE R == [addr : Ports, svc : Opt(Services)]
           svc == IF AssignedTo(n) # None \/ queue = <<>> THEN AssignedTo(n)
                                                         ELSE Head(queue)
<1>0. registered \in MapsOf(Nodes, R) /\ queue \in Seq(Services)
  BY DEF TypeOK
<1>1. registered' = Put(registered, n, [addr |-> agent[n].port, svc |-> svc])
  BY DEF enroll
<1>2. AssignedTo(n) \in Opt(Services)
  BY RegisteredEntry DEF AssignedTo, Opt
<1>3. queue # <<>> => Head(queue) \in Services /\ Tail(queue) \in Seq(Services)
  BY <1>0, HeadTailProperties
<1>4. svc \in Opt(Services)
  BY <1>2, <1>3 DEF Opt
<1>5. registered' \in MapsOf(Nodes, R)
  BY <1>0, <1>1, <1>4, PutType
<1>6. /\ DOMAIN registered' = DOMAIN registered \cup {n}
      /\ registered'[n].svc = svc
      /\ \A m \in DOMAIN registered \ {n} : registered'[m] = registered[m]
  BY <1>1 DEF Put
<1>7. AssignedTo(n)' = registered'[n].svc
  BY <1>6 DEF AssignedTo
<1>8. \A m \in Nodes \ {n} : AssignedTo(m)' = AssignedTo(m)
  BY <1>6 DEF AssignedTo
<1>9. queue' \in Seq(Services) /\ accepted' = accepted
  BY <1>0, <1>3 DEF enroll
<1> QED
  BY <1>4, <1>5, <1>6, <1>7, <1>8, <1>9

\* register_service gives a service only to a volunteer that has none.
LEMMA RegisterServiceInv ==
  ASSUME FleetInv, NEW s \in Services, RegisterService(s)
  PROVE  FleetInv'
<1> DEFINE R == [addr : Ports, svc : Opt(Services)]
<1>0. /\ TypeOK
      /\ registered \in MapsOf(Nodes, R) /\ queue \in Seq(Services)
      /\ UNCHANGED <<owner, nodeVars, spoiled, events>>
      /\ accepted' = accepted \cup {s}
  BY DEF FleetInv, TypeOK, RegisterService
<1>1. CASE queue' = Append(queue, s) /\ UNCHANGED registered
  <2>1. queue' \in Seq(Services)
    BY <1>0, <1>1, AppendProperties
  <2>2. TypeOK'
    BY <1>0, <1>1, <2>1 DEF TypeOK, nodeVars
  <2>3. \A m \in Nodes : NodeInv(m)'
    BY <1>0, <1>1, FleetInvByNode DEF NodeInv, AgentAt, Running, AssignedTo, nodeVars
  <2> QED
    BY <2>2, <2>3, FleetInvByNode
<1>2. ASSUME NEW n \in DOMAIN registered, registered[n].svc = None,
             registered' = [registered EXCEPT ![n].svc = s], UNCHANGED queue
      PROVE  FleetInv'
  <2>1. n \in Nodes /\ registered[n] \in R
    BY <1>0, RegisteredEntry
  <2>2. [registered[n] EXCEPT !.svc = s] \in R
    BY <2>1 DEF Opt
  <2>3. registered' \in MapsOf(Nodes, R) /\ DOMAIN registered' = DOMAIN registered
    BY <1>0, <1>2, <2>2, ExceptType
  <2>4. TypeOK'
    BY <1>0, <1>2, <2>3 DEF TypeOK, nodeVars
  <2>5. \A m \in Nodes \ {n} : Same(m)
    BY <1>0, <1>2, <2>3 DEF Same, AssignedTo, nodeVars
  <2>6. AssignedTo(n) = None
    BY <1>2 DEF AssignedTo
  <2>7. NodeInv(n)
    BY <2>1, FleetInvByNode
  <2>8. n \notin spoiled => ~Running(n) /\ agent[n].pc \notin {"stop", "start"}
    BY <2>6, <2>7, FleetAssumption DEF NodeInv, Running
  <2>9. NodeInv(n)'
    BY <1>0, <2>7, <2>8 DEF NodeInv, Running, AgentAt, nodeVars
  <2> QED
    BY <2>1, <2>4, <2>5, <2>9, OneNode
<1> QED
  BY <1>1, <1>2 DEF RegisterService

\* Evicted: the service goes back to the queue, and the node is spoiled until
\* its agent has dealt with the container.
LEMMA EvictInv ==
  ASSUME FleetInv, NEW n \in Nodes, Evict(n)
  PROVE  FleetInv'
<1> DEFINE R == [addr : Ports, svc : Opt(Services)]
<1>0. /\ TypeOK /\ NodeInv(n)
      /\ registered \in MapsOf(Nodes, R) /\ queue \in Seq(Services)
      /\ container \in [Nodes -> Container]
  BY FleetInvByNode DEF TypeOK
<1>1. /\ n \in DOMAIN registered /\ registered' = Drop(registered, n)
      /\ spoiled' = spoiled \cup {n}
      /\ UNCHANGED <<owner, client, portFile, agent, target, accepted>>
  BY DEF Evict
<1>2. registered' \in MapsOf(Nodes, R)
  BY <1>0, <1>1, DropType
<1>3. registered[n].svc \in Opt(Services)
  BY <1>0, <1>1, RegisteredEntry
<1>4. queue' \in Seq(Services)
  BY <1>0, <1>3, AppendProperties DEF Evict, Opt
<1>5. /\ container' \in [Nodes -> Container]
      /\ \A m \in Nodes \ {n} : container'[m] = container[m]
  BY <1>0 DEF Evict, Renamed, Container
<1>6. events' \in Nat
  BY <1>0, EventType DEF Evict, Mishap, TypeOK
<1>7. TypeOK'
  BY <1>0, <1>1, <1>2, <1>4, <1>5, <1>6 DEF TypeOK
<1>8. \A m \in Nodes \ {n} : AssignedTo(m)' = AssignedTo(m)
  BY <1>1 DEF AssignedTo, Drop
<1>9. \A m \in Nodes \ {n} : Same(m)
  BY <1>1, <1>5, <1>8 DEF Same
<1>10. NodeInv(n)'
  BY <1>0, <1>1 DEF NodeInv, AgentAt
<1> QED
  BY <1>7, <1>9, <1>10, OneNode

-----------------------------------------------------------------------------
(* agent.py and the host.                                                  *)

AgentPC == {"wait", "enroll", "reread", "send", "stop", "start", "beat"}

\* A step of the agent changes where it is, and its port or its assignment.
LEMMA AgentGotoType ==
  ASSUME TypeOK, NEW n \in Nodes, NEW l \in AgentPC, AgentGoto(n, l)
  PROVE  /\ agent' \in [Nodes -> Agent]
         /\ agent'[n].pc = l
         /\ agent'[n].port = agent[n].port /\ agent'[n].svc = agent[n].svc
         /\ \A m \in Nodes \ {n} : agent'[m] = agent[m]
BY DEF TypeOK, AgentGoto, Agent, AgentPC

LEMMA AgentPortType ==
  ASSUME TypeOK, NEW n \in Nodes, NEW l \in AgentPC, NEW p \in Ports,
         agent' = [agent EXCEPT ![n].pc = l, ![n].port = p]
  PROVE  /\ agent' \in [Nodes -> Agent]
         /\ agent'[n].pc = l /\ agent'[n].port = p
         /\ \A m \in Nodes \ {n} : agent'[m] = agent[m]
<1> DEFINE a == [[agent[n] EXCEPT !.pc = l] EXCEPT !.port = p]
<1>1. agent \in [Nodes -> Agent] /\ agent[n] \in Agent
  BY DEF TypeOK
<1>2. agent' = [agent EXCEPT ![n] = a]
  BY <1>1
<1>3. a \in Agent /\ a.pc = l /\ a.port = p
  BY <1>1 DEF Agent, AgentPC, Opt
<1> QED
  BY <1>1, <1>2, <1>3

LEMMA AgentSvcType ==
  ASSUME TypeOK, NEW n \in Nodes, NEW l \in AgentPC, NEW s \in Opt(Services),
         agent' = [agent EXCEPT ![n].pc = l, ![n].svc = s]
  PROVE  /\ agent' \in [Nodes -> Agent]
         /\ agent'[n].pc = l /\ agent'[n].port = agent[n].port /\ agent'[n].svc = s
         /\ \A m \in Nodes \ {n} : agent'[m] = agent[m]
<1> DEFINE a == [[agent[n] EXCEPT !.pc = l] EXCEPT !.svc = s]
<1>1. agent \in [Nodes -> Agent] /\ agent[n] \in Agent
  BY DEF TypeOK
<1>2. agent' = [agent EXCEPT ![n] = a]
  BY <1>1
<1>3. a \in Agent /\ a.pc = l /\ a.port = agent[n].port /\ a.svc = s
  BY <1>1 DEF Agent, AgentPC
<1> QED
  BY <1>1, <1>2, <1>3

\* What TypeOK and NodeInv(n) say of node n.
LEMMA NodeFacts ==
  ASSUME FleetInv, NEW n \in Nodes
  PROVE  /\ TypeOK /\ NodeInv(n)
         /\ agent[n].port \in Opt(Ports) /\ agent[n].svc \in Opt(Services)
         /\ agent[n].pc \in AgentPC
         /\ portFile[n] \in Opt(Ports)
         /\ AssignedTo(n) \in Opt(Services)
         /\ container \in [Nodes -> Container] /\ container[n] \in Container
         /\ target \in [Nodes -> Opt(Services)]
         /\ events \in Nat
<1>1. TypeOK /\ NodeInv(n)
  BY FleetInvByNode
<1>2. AssignedTo(n) \in Opt(Services)
  BY <1>1, RegisteredEntry DEF AssignedTo, Opt
<1> QED
  BY <1>1, <1>2 DEF TypeOK, Agent, AgentPC

\* wait_for_tunnel_public_port, and the port read again after a 404.
LEMMA ReadInv ==
  ASSUME FleetInv, NEW n \in Nodes, ReadPort(n) \/ RereadPort(n)
  PROVE  FleetInv'
<1>0. TypeOK /\ NodeInv(n) /\ agent[n].port \in Opt(Ports)
      /\ agent[n].svc \in Opt(Services) /\ portFile[n] \in Opt(Ports)
  BY NodeFacts
<1>1. UNCHANGED <<owner, client, portFile, container, target, regVars, spoiled, events>>
  BY DEF ReadPort, RereadPort
<1>2. PICK p \in Ports, l \in {"enroll", "send"} :
         agent' = [agent EXCEPT ![n].pc = l, ![n].port = p]
  <2>1. CASE ReadPort(n)
    BY <1>0, <2>1 DEF ReadPort, Opt
  <2>2. CASE RereadPort(n)
    <3>1. agent[n].port \in Ports
      BY <1>0, <2>2 DEF RereadPort, NodeInv, AgentAt
    <3>2. agent' = [agent EXCEPT ![n].pc = "send",
                                 ![n].port = IF portFile[n] = None THEN agent[n].port
                                                                   ELSE portFile[n]]
      BY <1>0, <2>2 DEF RereadPort, TypeOK, Agent
    <3> QED
      BY <1>0, <3>1, <3>2 DEF Opt
  <2> QED
    BY <2>1, <2>2
<1>3. /\ agent' \in [Nodes -> Agent]
      /\ agent'[n].pc = l /\ agent'[n].port = p
      /\ \A m \in Nodes \ {n} : agent'[m] = agent[m]
  <2>1. l \in AgentPC
    BY DEF AgentPC
  <2> QED
    BY <1>0, <1>2, <2>1, AgentPortType
<1>4. TypeOK'
  BY <1>0, <1>1, <1>3 DEF TypeOK, regVars
<1>5. \A m \in Nodes \ {n} : Same(m)
  BY <1>1, <1>3 DEF Same, AssignedTo, regVars
<1>6. NodeInv(n)'
  BY <1>0, <1>1, <1>3 DEF NodeInv, AgentAt, Running, AssignedTo, regVars
<1> QED
  BY <1>4, <1>5, <1>6, OneNode

LEMMA HeartbeatInv ==
  ASSUME FleetInv, NEW n \in Nodes, Heartbeat(n)
  PROVE  FleetInv'
<1>0. TypeOK /\ NodeInv(n) /\ agent[n].port \in Opt(Ports)
      /\ agent[n].svc \in Opt(Services) /\ AssignedTo(n) \in Opt(Services)
  BY NodeFacts
<1>1. UNCHANGED <<owner, client, portFile, container, target, regVars, spoiled, events>>
  BY DEF Heartbeat
<1>2. agent[n].port \in Ports
  BY <1>0 DEF Heartbeat, NodeInv, AgentAt
<1>3. /\ agent' \in [Nodes -> Agent]
      /\ agent'[n].port = agent[n].port
      /\ \/ agent'[n].pc = "reread"
         \/ AssignedTo(n) # None /\ agent'[n].svc = AssignedTo(n)
      /\ \A m \in Nodes \ {n} : agent'[m] = agent[m]
  <2>0. "stop" \in AgentPC /\ "reread" \in AgentPC
    BY DEF AgentPC
  <2>1. CASE AssignedTo(n) # None
             /\ agent' = [agent EXCEPT ![n].pc = "stop", ![n].svc = AssignedTo(n)]
    <3> DEFINE svc == AssignedTo(n)
               l == "stop"
    <3>1. svc \in Opt(Services) /\ l \in AgentPC
      BY <1>0, <2>0
    <3>2. agent' = [agent EXCEPT ![n].pc = l, ![n].svc = svc]
      BY <2>1
    <3> HIDE DEF svc, l
    <3>3. /\ agent' \in [Nodes -> Agent]
          /\ agent'[n].pc = l /\ agent'[n].port = agent[n].port /\ agent'[n].svc = svc
          /\ \A m \in Nodes \ {n} : agent'[m] = agent[m]
      <4>1. TypeOK
        BY <1>0
      <4> QED
        BY <3>1, <3>2, <4>1, AgentSvcType
    <3> QED
      BY <2>1, <3>3 DEF svc
  <2>2. CASE AgentGoto(n, "reread")
    BY <1>0, <2>0, <2>2, AgentGotoType
  <2> QED
    BY <2>1, <2>2 DEF Heartbeat
<1>4. TypeOK'
  BY <1>0, <1>1, <1>3 DEF TypeOK, regVars
<1>5. AssignedTo(n)' = AssignedTo(n) /\ Running(n)' = Running(n)
  BY <1>1 DEF AssignedTo, Running, regVars
<1>6. \A m \in Nodes \ {n} : Same(m)
  BY <1>1, <1>3 DEF Same, AssignedTo, regVars
<1>7. NodeInv(n)'
  BY <1>0, <1>1, <1>2, <1>3, <1>5 DEF NodeInv, AgentAt, Opt
<1> QED
  BY <1>4, <1>6, <1>7, OneNode

\* POST /enroll: a service the node runs is one it held and keeps.
LEMMA EnrollInv ==
  ASSUME FleetInv, NEW n \in Nodes, Enroll(n)
  PROVE  FleetInv'
<1>0. /\ TypeOK /\ NodeInv(n) /\ agent[n].svc \in Opt(Services)
      /\ container \in [Nodes -> Container] /\ container[n] \in Container
      /\ events \in Nat
  BY NodeFacts
<1>1. agent[n].pc \in {"enroll", "send"} /\ agent[n].port \in Ports
      /\ UNCHANGED <<owner, client, portFile, target, spoiled>>
  BY <1>0 DEF Enroll, NodeInv, AgentAt
<1>2. ASSUME enroll(n) \/ UNCHANGED regVars
      PROVE  /\ registered' \in MapsOf(Nodes, [addr : Ports, svc : Opt(Services)])
             /\ queue' \in Seq(Services) /\ accepted' = accepted
             /\ AssignedTo(n) # None => AssignedTo(n)' = AssignedTo(n)
             /\ \A m \in Nodes \ {n} : AssignedTo(m)' = AssignedTo(m)
  <2>1. CASE enroll(n)
    BY <1>0, <1>1, <2>1, EnrollAnswer
  <2>2. CASE UNCHANGED regVars
    BY <1>0, <2>2 DEF TypeOK, regVars, AssignedTo
  <2> QED
    BY <1>2, <2>1, <2>2
<1>3. ASSUME enroll(n) \/ UNCHANGED regVars,
             agent' \in [Nodes -> Agent],
             agent'[n].port = agent[n].port,
             agent'[n].pc \in {"stop", "start"} =>
               agent'[n].svc \in Services /\ agent'[n].svc = AssignedTo(n)',
             \A m \in Nodes \ {n} : agent'[m] = agent[m],
             \E name \in {"own", "lapsed", "old"} :
               container' = [container EXCEPT ![n].name = name],
             events' \in Nat
      PROVE  FleetInv'
  <2>1. /\ container' \in [Nodes -> Container]
        /\ container'[n].svc = container[n].svc
        /\ container'[n].tracked = container[n].tracked
        /\ \A m \in Nodes \ {n} : container'[m] = container[m]
    BY <1>0, <1>3 DEF Container
  <2>2. TypeOK'
    BY <1>0, <1>1, <1>2, <1>3, <2>1 DEF TypeOK
  <2>3. \A m \in Nodes \ {n} : Same(m)
    BY <1>1, <1>2, <1>3, <2>1 DEF Same
  <2>4. Running(n) => container[n].svc # None
    BY DEF Running
  <2>5. Running(n)' = Running(n)
    BY <2>1 DEF Running
  <2>6. NodeInv(n)'
    BY <1>0, <1>1, <1>2, <1>3, <2>1, <2>4, <2>5 DEF NodeInv, AgentAt
  <2> QED
    BY <2>2, <2>3, <2>6, OneNode
<1>4. \A l \in {"reread", "enroll", "beat", "stop"} : l \in AgentPC
  BY DEF AgentPC
<1>5. CASE /\ enroll(n)
           /\ LET svc == registered'[n].svc
              IN  agent' = [agent EXCEPT ![n].pc = IF svc = None THEN "beat" ELSE "stop",
                                         ![n].svc = svc]
           /\ Renamed(n, "lapsed", "old")
           /\ UNCHANGED events
  <2>1. AssignedTo(n)' = registered'[n].svc /\ AssignedTo(n)' \in Opt(Services)
    BY <1>0, <1>1, <1>5, EnrollAnswer
  <2> DEFINE svc == AssignedTo(n)'
             l == IF svc = None THEN "beat" ELSE "stop"
  <2>2. l \in AgentPC /\ svc \in Opt(Services)
    BY <1>4, <2>1
  <2>3. agent' = [agent EXCEPT ![n].pc = l, ![n].svc = svc]
    BY <1>5, <2>1
  <2> HIDE DEF l, svc
  <2>4. /\ agent' \in [Nodes -> Agent]
        /\ agent'[n].pc = l /\ agent'[n].port = agent[n].port /\ agent'[n].svc = svc
        /\ \A m \in Nodes \ {n} : agent'[m] = agent[m]
    BY <1>0, <2>2, <2>3, AgentSvcType
  <2>5. agent'[n].pc \in {"stop", "start"} =>
          agent'[n].svc \in Services /\ agent'[n].svc = AssignedTo(n)'
    BY <2>2, <2>4 DEF l, svc, Opt
  <2>6. \E name \in {"own", "lapsed", "old"} :
          container' = [container EXCEPT ![n].name = name]
    BY <1>0, <1>5 DEF Renamed, Container
  <2> QED
    BY <1>0, <1>3, <1>5, <2>4, <2>5, <2>6
<1>6. CASE /\ Mishap(n, "request_lost")
           /\ enroll(n) \/ UNCHANGED regVars
           /\ AgentGoto(n, IF AgentAt(n, "send") THEN "reread" ELSE "enroll")
           /\ UNCHANGED container
  <2>1. PICK l \in {"reread", "enroll"} : AgentGoto(n, l)
    BY <1>6
  <2>2. /\ agent' \in [Nodes -> Agent]
        /\ agent'[n].pc = l /\ agent'[n].port = agent[n].port
        /\ \A m \in Nodes \ {n} : agent'[m] = agent[m]
    BY <1>0, <1>4, <2>1, AgentGotoType
  <2>3. \E name \in {"own", "lapsed", "old"} :
          container' = [container EXCEPT ![n].name = name]
    BY <1>0, <1>6 DEF Container
  <2>4. events' \in Nat
    BY <1>0, <1>6, EventType DEF Mishap
  <2> QED
    BY <1>3, <1>6, <2>1, <2>2, <2>3, <2>4
<1> QED
  BY <1>5, <1>6 DEF Enroll

\* run_service, before the start: the agent's own container is removed.
LEMMA StopInv ==
  ASSUME FleetInv, NEW n \in Nodes, StopService(n)
  PROVE  FleetInv'
<1>0. /\ TypeOK /\ NodeInv(n)
      /\ container \in [Nodes -> Container] /\ container[n] \in Container
      /\ events \in Nat
  BY NodeFacts
<1>1. /\ AgentAt(n, "stop") /\ agent[n].port \in Ports /\ agent[n].svc \in Services
      /\ UNCHANGED <<owner, client, portFile, target, regVars>>
  BY <1>0 DEF StopService, NodeInv, AgentAt
<1>2. \A m \in Nodes : AssignedTo(m)' = AssignedTo(m)
  BY <1>1 DEF AssignedTo, regVars
<1>3. "start" \in AgentPC /\ "beat" \in AgentPC
  BY DEF AgentPC
<1>4. NoContainer \in Container /\ NoContainer.svc = None
  BY DEF NoContainer, Container, Opt
<1>5. CASE /\ container' = [container EXCEPT ![n] = IF @.name = "old" THEN @
                                                    ELSE NoContainer]
           /\ AgentGoto(n, "start")
           /\ spoiled' = IF AssignedTo(n) = agent[n].svc /\ container[n].name # "old"
                           THEN spoiled \ {n} ELSE spoiled
           /\ UNCHANGED events
  <2>1. /\ agent' \in [Nodes -> Agent]
        /\ agent'[n].pc = "start"
        /\ agent'[n].port = agent[n].port /\ agent'[n].svc = agent[n].svc
        /\ \A m \in Nodes \ {n} : agent'[m] = agent[m]
    BY <1>0, <1>3, <1>5, AgentGotoType
  <2>2. /\ container' \in [Nodes -> Container]
        /\ container'[n] = IF container[n].name = "old" THEN container[n] ELSE NoContainer
        /\ \A m \in Nodes \ {n} : container'[m] = container[m]
    BY <1>0, <1>4, <1>5
  <2>3. TypeOK'
    BY <1>0, <1>1, <1>5, <2>1, <2>2 DEF TypeOK, regVars
  <2>4. \A m \in Nodes \ {n} : Same(m)
    BY <1>1, <1>2, <1>5, <2>1, <2>2 DEF Same
  <2>5. /\ container[n].name # "old" => ~Running(n)'
        /\ container[n].name = "old" => Running(n)' = Running(n)
    BY <1>4, <2>2 DEF Running
  <2>6. n \notin spoiled' => AssignedTo(n) = agent[n].svc
    BY <1>0, <1>1, <1>5 DEF NodeInv, AgentAt
  <2>7. NodeInv(n)'
    BY <1>0, <1>1, <1>2, <1>5, <2>1, <2>2, <2>5, <2>6 DEF NodeInv
  <2> QED
    BY <2>3, <2>4, <2>7, OneNode
<1>6. CASE Mishap(n, "docker_err") /\ AgentGoto(n, "beat") /\ UNCHANGED <<container, spoiled>>
  <2>1. /\ agent' \in [Nodes -> Agent]
        /\ agent'[n].pc = "beat" /\ agent'[n].port = agent[n].port
        /\ \A m \in Nodes \ {n} : agent'[m] = agent[m]
    BY <1>0, <1>3, <1>6, AgentGotoType
  <2>2. events' \in Nat
    BY <1>0, <1>6, EventType DEF Mishap
  <2>3. TypeOK'
    BY <1>0, <1>1, <1>6, <2>1, <2>2 DEF TypeOK, regVars
  <2>4. \A m \in Nodes \ {n} : Same(m)
    BY <1>1, <1>2, <1>6, <2>1 DEF Same
  <2>5. NodeInv(n)'
    BY <1>0, <1>1, <1>2, <1>6, <2>1 DEF NodeInv, Running
  <2> QED
    BY <2>3, <2>4, <2>5, OneNode
<1> QED
  BY <1>5, <1>6 DEF StopService

\* run_service: what is started is what the agent was told, and unless the
\* node was evicted in between, what it holds.
LEMMA StartInv ==
  ASSUME FleetInv, NEW n \in Nodes, StartService(n)
  PROVE  FleetInv'
<1>0. /\ TypeOK /\ NodeInv(n)
      /\ container \in [Nodes -> Container] /\ target \in [Nodes -> Opt(Services)]
      /\ events \in Nat
  BY NodeFacts
<1>1. /\ AgentAt(n, "start") /\ agent[n].port \in Ports /\ agent[n].svc \in Services
      /\ AgentGoto(n, "beat")
      /\ UNCHANGED <<owner, client, portFile, regVars>>
  BY <1>0 DEF StartService, NodeInv, AgentAt
<1>2. \A m \in Nodes : AssignedTo(m)' = AssignedTo(m)
  BY <1>1 DEF AssignedTo, regVars
<1>3. /\ agent' \in [Nodes -> Agent]
      /\ agent'[n].pc = "beat" /\ agent'[n].port = agent[n].port
      /\ \A m \in Nodes \ {n} : agent'[m] = agent[m]
  <2>1. "beat" \in AgentPC
    BY DEF AgentPC
  <2> QED
    BY <1>0, <1>1, <2>1, AgentGotoType
<1> DEFINE name == IF n \in DOMAIN registered THEN "own" ELSE "lapsed"
           new == [svc |-> agent[n].svc, tracked |-> TRUE, name |-> name]
<1>4. new \in Container /\ new.svc = agent[n].svc
  BY <1>1 DEF Container, Opt
<1>5. \/ /\ container' = [container EXCEPT ![n] = new]
         /\ target' = [target EXCEPT ![n] = agent[n].svc]
         /\ spoiled' = IF AssignedTo(n) = agent[n].svc THEN spoiled \ {n} ELSE spoiled
         /\ UNCHANGED events
      \/ Mishap(n, "docker_err") /\ UNCHANGED <<container, target, spoiled>>
      \/ /\ Mishap(n, "docker_err")
         /\ container' = [container EXCEPT ![n] = new]
         /\ spoiled' = spoiled \cup {n}
         /\ UNCHANGED target
  BY DEF StartService
<1> HIDE DEF name, new
<1>6. events' \in Nat
  BY <1>0, <1>5, EventType DEF Mishap
<1>7. /\ container' \in [Nodes -> Container] /\ target' \in [Nodes -> Opt(Services)]
      /\ spoiled' \in SUBSET Nodes
      /\ \A m \in Nodes \ {n} : container'[m] = container[m] /\ target'[m] = target[m]
      /\ \A m \in Nodes \ {n} : m \in spoiled' <=> m \in spoiled
  BY <1>0, <1>1, <1>4, <1>5 DEF TypeOK, Opt
<1>8. TypeOK'
  BY <1>0, <1>1, <1>3, <1>6, <1>7 DEF TypeOK, regVars
<1>9. \A m \in Nodes \ {n} : Same(m)
  BY <1>2, <1>3, <1>7 DEF Same
<1>10. n \notin spoiled' /\ Running(n)' =>
         container'[n].svc = AssignedTo(n) /\ target'[n] = AssignedTo(n)
  <2>1. CASE /\ container' = [container EXCEPT ![n] = new]
             /\ target' = [target EXCEPT ![n] = agent[n].svc]
             /\ spoiled' = IF AssignedTo(n) = agent[n].svc THEN spoiled \ {n}
                                                           ELSE spoiled
    <3>1. container'[n].svc = agent[n].svc /\ target'[n] = agent[n].svc
      BY <1>0, <1>4, <2>1
    <3>2. n \notin spoiled' => AssignedTo(n) = agent[n].svc
      BY <1>0, <1>1, <2>1 DEF NodeInv, AgentAt
    <3> QED
      BY <3>1, <3>2
  <2>2. CASE UNCHANGED <<container, target, spoiled>>
    BY <1>0, <2>2 DEF NodeInv, Running
  <2> QED
    BY <1>5, <2>1, <2>2
<1>11. NodeInv(n)'
  BY <1>1, <1>2, <1>3, <1>10 DEF NodeInv
<1> QED
  BY <1>8, <1>9, <1>11, OneNode

\* A container that dies, or that the restarted agent does not know, is not
\* running; a node that starts again applies nothing.
LEMMA HostInv ==
  ASSUME FleetInv, NEW n \in Nodes, ContainerDies(n) \/ NodeRestart(n)
  PROVE  FleetInv'
<1>0. /\ TypeOK /\ NodeInv(n)
      /\ container \in [Nodes -> Container] /\ target \in [Nodes -> Opt(Services)]
      /\ agent \in [Nodes -> Agent] /\ client \in [Nodes -> Client]
      /\ portFile \in [Nodes -> Opt(Ports)] /\ events \in Nat
  BY NodeFacts DEF TypeOK
<1>1. UNCHANGED <<owner, regVars, spoiled>> /\ events' \in Nat
  BY <1>0, EventType DEF ContainerDies, NodeRestart, Mishap
<1>2. \A m \in Nodes : AssignedTo(m)' = AssignedTo(m)
  BY <1>1 DEF AssignedTo, regVars
<1>3. /\ container' \in [Nodes -> Container] /\ ~Running(n)'
      /\ \A m \in Nodes \ {n} : container'[m] = container[m]
  <2>1. CASE ContainerDies(n)
    BY <1>0, <2>1 DEF ContainerDies, NoContainer, Container, Opt, Running
  <2>2. CASE NodeRestart(n)
    <3>1. container' = [container EXCEPT ![n].tracked = FALSE]
      BY <2>2 DEF NodeRestart
    <3>2. /\ container' \in [Nodes -> Container] /\ container'[n].tracked = FALSE
          /\ \A m \in Nodes \ {n} : container'[m] = container[m]
      BY <1>0, <3>1 DEF Container
    <3> QED
      BY <3>2 DEF Running
  <2> QED
    BY <2>1, <2>2
<1>4. /\ agent' \in [Nodes -> Agent] /\ client' \in [Nodes -> Client]
      /\ agent'[n] = agent[n] \/ agent'[n] = Starting
      /\ \A m \in Nodes \ {n} : agent'[m] = agent[m]
  <2>1. Starting \in Agent
    BY DEF Starting, Agent, Opt
  <2>2. CASE ContainerDies(n)
    BY <1>0, <2>2 DEF ContainerDies
  <2>3. CASE NodeRestart(n)
    BY <1>0, <2>1, <2>3, DisconnectedType, ClientSetType DEF NodeRestart
  <2> QED
    BY <2>2, <2>3
<1>5. /\ portFile' \in [Nodes -> Opt(Ports)] /\ target' \in [Nodes -> Opt(Services)]
      /\ \A m \in Nodes \ {n} : target'[m] = target[m]
  BY <1>0 DEF ContainerDies, NodeRestart, Opt
<1>6. TypeOK'
  BY <1>0, <1>1, <1>3, <1>4, <1>5 DEF TypeOK, regVars
<1>7. \A m \in Nodes \ {n} : Same(m)
  BY <1>1, <1>2, <1>3, <1>4, <1>5 DEF Same
<1>8. NodeInv(n)'
  BY <1>0, <1>1, <1>2, <1>3, <1>4 DEF NodeInv, AgentAt, Starting
<1> QED
  BY <1>6, <1>7, <1>8, OneNode

-----------------------------------------------------------------------------
(* The specification.                                                      *)

LEMMA FleetInit == Init => FleetInv
<1> SUFFICES ASSUME Init PROVE FleetInv
  OBVIOUS
<1>1. /\ Disconnected \in Client /\ Starting \in Agent /\ NoContainer \in Container
      /\ NoContainer.tracked = FALSE /\ Starting.pc = "wait"
  BY DEF Disconnected, Client, Starting, Agent, NoContainer, Container, Opt
<1>2. registered \in MapsOf(Nodes, [addr : Ports, svc : Opt(Services)])
  BY EmptyMapType DEF Init
<1>3. queue \in Seq(Services)
  BY EmptySeq DEF Init
<1>4. TypeOK
  BY <1>1, <1>2, <1>3 DEF Init, Pool!Init, TypeOK, Opt
<1>5. \A n \in Nodes : NodeInv(n)
  BY <1>1 DEF Init, NodeInv, AgentAt, Running
<1> QED
  BY <1>4, <1>5, FleetInvByNode

LEMMA FleetStep == FleetInv /\ [Next]_vars => FleetInv'
<1> SUFFICES ASSUME FleetInv, [Next]_vars PROVE FleetInv'
  OBVIOUS
<1>0. TypeOK
  BY DEF FleetInv
<1>1. CASE UNCHANGED vars
  <2>1. TypeOK' /\ UNCHANGED <<agent, container, target, regVars, spoiled>>
    BY <1>0, <1>1 DEF vars, nodeVars, regVars, TypeOK
  <2> QED
    BY <2>1, TunnelSideInv
<1>2. CASE TunnelSide
  BY <1>0, <1>2, TunnelSideType, TunnelSideInv
<1>3. ASSUME NEW n \in Nodes, AgentStep(n)
      PROVE  FleetInv'
  BY <1>3, ReadInv, EnrollInv, HeartbeatInv, StopInv, StartInv DEF AgentStep
<1>4. ASSUME NEW n \in Nodes, Evict(n) \/ ContainerDies(n) \/ NodeRestart(n)
      PROVE  FleetInv'
  BY <1>4, EvictInv, HostInv
<1> QED
  BY <1>1, <1>2, <1>3, <1>4, RegisterServiceInv DEF Next, TunnelSide

\* Type correctness of nodes, tunnel pool and registrar: an agent only ever
\* enrolls with a port that it has read from the client's file.
THEOREM FleetTypeCorrect == Spec => []TypeOK
<1>1. FleetInv => TypeOK
  BY DEF FleetInv
<1> QED
  BY <1>1, FleetInit, FleetStep, PTL DEF Spec

\* For any number of nodes, ports and services and any run of failures: a
\* node that holds a service and runs a container runs that service and leads
\* its visitors to it, unless it was evicted while it held another one, or
\* docker failed after the start (apply_service_assignment, run_service).
THEOREM NodesRunWhatTheyHold == Spec => []RunsWhatItHolds
<1>1. FleetInv => RunsWhatItHolds
  BY DEF FleetInv, ServesWhatItHolds, RunsWhatItHolds
<1> QED
  BY <1>1, FleetInit, FleetStep, PTL DEF Spec

=============================================================================
