------------------------------- MODULE Fleet --------------------------------
(***************************************************************************)
(* The volunteer nodes and what they share with the core server.           *)
(*                                                                         *)
(* A node runs the tunnel client (client.rs) and the agent (agent.py),     *)
(* started by entrypoint.sh, which talk to each other through two files:   *)
(* the client writes its public port for the agent to enroll with, the     *)
(* agent writes the address of the service container for the client to     *)
(* dial.  A step is one file operation, one request or one docker call.    *)
(*                                                                         *)
(* The tunnel server is the pool of public ports that Tunnel is shown to   *)
(* implement (PoolImplemented).  The registrar answers each request in one *)
(* step.  It never knows a node under two ids (Registrar!StableIdentity),  *)
(* so the node stands for the id it has; a node that was evicted gets a    *)
(* new one, which its agent learns by enrolling.  The address a node is    *)
(* registered with is where HAProxy sends its visitors.                    *)
(***************************************************************************)
EXTENDS Integers, Sequences, FiniteSets, Maps

CONSTANTS
  Nodes,        \* volunteer nodes, each with its hostname
  Ports,        \* public ports of the tunnel server
  Services,     \* services that owners register
  None,         \* no port, service or holder
  Env,          \* which failures may happen
  Faulty,       \* bound: the nodes they happen to
  MaxEvents     \* bound on the number of failures

ASSUME FleetAssumption ==
  /\ Ports \subseteq Int
  /\ None \notin Ports \cup Services \cup Nodes
  /\ Env \subseteq {"link_lost", "tunnel_restart", "accept_err", "file_err",
                    "client_dies", "node_restart", "request_lost", "docker_err",
                    "container_dies", "expire"}
  /\ Faulty \subseteq Nodes
  /\ MaxEvents \in Nat

VARIABLES
  owner,        \* tunnel server: the node whose session has each public port
  client,       \* client.rs: where it is, its port, its control connection
  portFile,     \* /tmp/tunnel_public_port
  agent,        \* agent.py: where it is, the port it enrolls with, the
                \*   assignment it is applying
  container,    \* the service container: what it runs, whether this agent
                \*   started it, and whose id its name svc_<id> carries
  target,       \* /tmp/tunnel_local_addr: the service it leads to
  registered,   \* registrar: node -> address and assigned service
  queue,        \* registrar: pending services
  accepted,     \* services that were registered
  spoiled,      \* ghost: nodes that may run something else than they hold
  events        \* failures so far

nodeVars == <<client, portFile, agent, container, target>>
regVars == <<registered, queue, accepted>>
vars == <<owner, nodeVars, regVars, spoiled, events>>

Opt(S) == S \cup {None}

Pool == INSTANCE PortPool WITH Holders <- Nodes

\* connect, told (handshake read), session, over (port file to be removed),
\* dead (the process is gone).
Client == [pc : {"connect", "told", "session", "over", "dead"},
           port : Opt(Ports), up : BOOLEAN]

\* wait (for the port file), enroll (main's loop), reread and send (the loop
\* after a 404), stop and start (apply_service_assignment), beat.
Agent == [pc : {"wait", "enroll", "reread", "send", "stop", "start", "beat"},
          port : Opt(Ports), svc : Opt(Services)]

\* The name is the agent's "own" while the registrar knows its id, "lapsed"
\* once the node was evicted, "old" when the agent has enrolled since.
Container == [svc : Opt(Services), tracked : BOOLEAN,
              name : {"own", "lapsed", "old"}]

\* Type invariant.
TypeOK ==
  /\ owner \in [Ports -> Opt(Nodes)]
  /\ client \in [Nodes -> Client]
  /\ portFile \in [Nodes -> Opt(Ports)]
  /\ agent \in [Nodes -> Agent]
  /\ container \in [Nodes -> Container]
  /\ target \in [Nodes -> Opt(Services)]
  /\ registered \in MapsOf(Nodes, [addr : Ports, svc : Opt(Services)])
  /\ queue \in Seq(Services)
  /\ accepted \in SUBSET Services
  /\ spoiled \in SUBSET Nodes
  /\ events \in Nat

Disconnected == [pc |-> "connect", port |-> None, up |-> FALSE]

Starting == [pc |-> "wait", port |-> None, svc |-> None]

NoContainer == [svc |-> None, tracked |-> FALSE, name |-> "own"]

Init ==
  /\ Pool!Init
  /\ client = [n \in Nodes |-> Disconnected]
  /\ portFile = [n \in Nodes |-> None]
  /\ agent = [n \in Nodes |-> Starting]
  /\ container = [n \in Nodes |-> NoContainer]
  /\ target = [n \in Nodes |-> None]
  /\ registered = EmptyMap
  /\ queue = <<>>
  /\ accepted = {}
  /\ spoiled = {}
  /\ events = 0

Event(e) ==
  /\ e \in Env
  /\ events < MaxEvents
  /\ events' = events + 1

Mishap(n, e) == n \in Faulty /\ Event(e)

Renamed(n, from, to) ==
  container' = [container EXCEPT ![n].name = IF @ = from /\ container[n].svc # None
                                               THEN to ELSE @]

-----------------------------------------------------------------------------
(* client.rs, main                                                         *)

ClientAt(n, l) == client[n].pc = l
ClientGoto(n, l) == client' = [client EXCEPT ![n].pc = l]

\* connect, and the handshake: the server's first free port.  If the reply
\* does not arrive the client tries again; the server is left with a session.
Connect(n, p) ==
  /\ ClientAt(n, "connect")
  /\ Pool!Take(n, p)
  /\ \A q \in Ports : owner[q] = None => p <= q
  /\ \/ /\ client' = [client EXCEPT ![n] = [pc |-> "told", port |-> p, up |-> TRUE]]
        /\ UNCHANGED events
     \/ Mishap(n, "link_lost") /\ UNCHANGED client
  /\ UNCHANGED <<portFile, agent, container, target, regVars, spoiled>>

\* The port file is written and run_session entered; or the write fails,
\* before or after it has truncated the file, and the connection is dropped.
WritePort(n) ==
  /\ ClientAt(n, "told")
  /\ \/ /\ portFile' = [portFile EXCEPT ![n] = client[n].port]
        /\ ClientGoto(n, "session")
        /\ UNCHANGED events
     \/ /\ Mishap(n, "file_err")
        /\ \E left \in {portFile[n], None} :
             portFile' = [portFile EXCEPT ![n] = left]
        /\ client' = [client EXCEPT ![n] = Disconnected]
  /\ UNCHANGED <<owner, agent, container, target, regVars, spoiled>>

\* run_session returns when it can no longer read.
SessionOver(n) ==
  /\ ClientAt(n, "session") /\ ~client[n].up
  /\ ClientGoto(n, "over")
  /\ UNCHANGED <<owner, portFile, agent, container, target, regVars, spoiled, events>>

\* "Remove the port file so the Python agent doesn't use a stale value".
RemovePort(n) ==
  /\ ClientAt(n, "over")
  /\ portFile' = [portFile EXCEPT ![n] = None]
  /\ client' = [client EXCEPT ![n] = Disconnected]
  /\ UNCHANGED <<owner, agent, container, target, regVars, spoiled, events>>

\* The process dies, and nobody looks: entrypoint.sh watches nginx and agent.
ClientDies(n) ==
  /\ Mishap(n, "client_dies")
  /\ ~ClientAt(n, "dead")
  /\ client' = [client EXCEPT ![n] = [Disconnected EXCEPT !.pc = "dead"]]
  /\ UNCHANGED <<owner, portFile, agent, container, target, regVars, spoiled>>

-----------------------------------------------------------------------------
(* The tunnel server, and the network before it                            *)

Cut(N) == client' = [n \in Nodes |-> IF n \in N THEN [client[n] EXCEPT !.up = FALSE]
                                              ELSE client[n]]

LinkLost(n) ==
  /\ Mishap(n, "link_lost")
  /\ client[n].up
  /\ Cut({n})
  /\ UNCHANGED <<owner, portFile, agent, container, target, regVars, spoiled>>

\* A session whose client is gone ends (GoneEnds) and gives its port back.
ServerNotices(n, p) ==
  /\ owner[p] = n
  /\ ~(client[n].up /\ client[n].port = p)
  /\ Pool!Give(n, {p})
  /\ UNCHANGED <<nodeVars, regVars, spoiled, events>>

\* public_acceptor fails: the port is given back, the connection stays open.
AcceptFails(n, p) ==
  /\ Mishap(n, "accept_err")
  /\ owner[p] = n
  /\ client[n].up /\ client[n].port = p
  /\ Pool!Give(n, {p})
  /\ UNCHANGED <<nodeVars, regVars, spoiled>>

TunnelRestart ==
  /\ Event("tunnel_restart")
  /\ Pool!Reset
  /\ Cut(Nodes)
  /\ UNCHANGED <<portFile, agent, container, target, regVars, spoiled>>

-----------------------------------------------------------------------------
(* The registrar                                                           *)

AssignedTo(n) == IF n \in DOMAIN registered THEN registered[n].svc ELSE None

\* enroll: an assigned service stays, else the head of the queue is taken.
enroll(n) ==
  LET held == AssignedTo(n)
      svc == IF held # None \/ queue = <<>> THEN held ELSE Head(queue)
  IN  /\ registered' = Put(registered, n, [addr |-> agent[n].port, svc |-> svc])
      /\ queue' = IF held = None /\ queue # <<>> THEN Tail(queue) ELSE queue
      /\ UNCHANGED accepted

\* register_service: a free volunteer gets it, or it is queued.
RegisterService(s) ==
  LET free == {n \in DOMAIN registered : registered[n].svc = None}
  IN  /\ s \notin accepted
      /\ accepted' = accepted \cup {s}
      /\ \/ /\ free = {}
            /\ queue' = Append(queue, s)
            /\ UNCHANGED registered
         \/ \E n \in free :
              /\ registered' = [registered EXCEPT ![n].svc = s]
              /\ UNCHANGED queue
      /\ UNCHANGED <<owner, nodeVars, spoiled, events>>

\* The churn monitor, after 45 s without a heartbeat: the agent was in a
\* docker pull of up to 300 s, or its requests were lost.
Evict(n) ==
  /\ Mishap(n, "expire")
  /\ n \in DOMAIN registered
  /\ registered' = Drop(registered, n)
  /\ queue' = IF registered[n].svc = None THEN queue
              ELSE Append(queue, registered[n].svc)
  /\ Renamed(n, "own", "lapsed")
  /\ spoiled' = spoiled \cup {n}
  /\ UNCHANGED <<owner, client, portFile, agent, target, accepted>>

-----------------------------------------------------------------------------
(* agent.py                                                                *)

AgentAt(n, l) == agent[n].pc = l
AgentGoto(n, l) == agent' = [agent EXCEPT ![n].pc = l]

\* Mutant: the agent does not wait for the file.
ReadPortAtOnce(n) ==
  /\ AgentAt(n, "wait")
  /\ agent' = [agent EXCEPT ![n].pc = "enroll", ![n].port = portFile[n]]
  /\ UNCHANGED <<owner, client, portFile, container, target, regVars, spoiled, events>>

\* wait_for_tunnel_public_port
ReadPort(n) ==
  /\ AgentAt(n, "wait")
  /\ portFile[n] # None
  /\ agent' = [agent EXCEPT ![n].pc = "enroll", ![n].port = portFile[n]]
  /\ UNCHANGED <<owner, client, portFile, container, target, regVars, spoiled, events>>

\* Mutant: the loop after a 404 enrolls with the port it has.
RereadPortNot(n) ==
  /\ AgentAt(n, "reread")
  /\ AgentGoto(n, "send")
  /\ UNCHANGED <<owner, client, portFile, container, target, regVars, spoiled, events>>

\* "Re-read the public port in case the tunnel reconnected", or keep the old.
RereadPort(n) ==
  /\ AgentAt(n, "reread")
  /\ agent' = [agent EXCEPT ![n].pc = "send",
                            ![n].port = IF portFile[n] = None THEN @
                                        ELSE portFile[n]]
  /\ UNCHANGED <<owner, client, portFile, container, target, regVars, spoiled, events>>

\* POST /enroll: answered; or the answer, or the request, is lost.
Enroll(n) ==
  /\ agent[n].pc \in {"enroll", "send"}
  /\ \/ /\ enroll(n)
        /\ LET svc == registered'[n].svc
           IN  agent' = [agent EXCEPT ![n].pc = IF svc = None THEN "beat" ELSE "stop",
                                      ![n].svc = svc]
        /\ Renamed(n, "lapsed", "old")
        /\ UNCHANGED events
     \/ /\ Mishap(n, "request_lost")
        /\ enroll(n) \/ UNCHANGED regVars
        /\ AgentGoto(n, IF AgentAt(n, "send") THEN "reread" ELSE "enroll")
        /\ UNCHANGED container
  /\ UNCHANGED <<owner, client, portFile, target, spoiled>>

\* _service_is_running
Running(n) == container[n].tracked /\ container[n].svc # None

\* Mutant: the assignment in the answer is not looked at.
HeartbeatIgnores(n) ==
  /\ AgentAt(n, "beat")
  /\ n \notin DOMAIN registered
  /\ AgentGoto(n, "reread")
  /\ UNCHANGED <<owner, client, portFile, container, target, regVars, spoiled, events>>

\* Mutant: 404 is taken for an unreachable registrar.
HeartbeatRetries(n) ==
  /\ AgentAt(n, "beat")
  /\ AssignedTo(n) # None /\ ~Running(n)
  /\ agent' = [agent EXCEPT ![n].pc = "stop", ![n].svc = AssignedTo(n)]
  /\ UNCHANGED <<owner, client, portFile, container, target, regVars, spoiled, events>>

\* POST /heartbeat, where it changes anything: an assignment and no container
\* yet, or 404.
Heartbeat(n) ==
  /\ AgentAt(n, "beat")
  /\ \/ /\ AssignedTo(n) # None /\ ~Running(n)
        /\ agent' = [agent EXCEPT ![n].pc = "stop", ![n].svc = AssignedTo(n)]
     \/ /\ n \notin DOMAIN registered
        /\ AgentGoto(n, "reread")
  /\ UNCHANGED <<owner, client, portFile, container, target, regVars, spoiled, events>>

\* Mutant: only a container of the same image is removed.
StopServiceKeeps(n) ==
  /\ AgentAt(n, "stop")
  /\ AgentGoto(n, IF Running(n) THEN "beat" ELSE "start")
  /\ spoiled' = IF AssignedTo(n) = agent[n].svc THEN spoiled \ {n} ELSE spoiled
  /\ UNCHANGED <<owner, client, portFile, container, target, regVars, events>>

\* run_service: the container that has the agent's name is removed, one from
\* before an eviction is not; or docker does not answer, and
\* apply_service_assignment is given up.
StopService(n) ==
  /\ AgentAt(n, "stop")
  /\ \/ /\ container' = [container EXCEPT ![n] = IF @.name = "old" THEN @
                                                 ELSE NoContainer]
        /\ AgentGoto(n, "start")
        /\ spoiled' = IF AssignedTo(n) = agent[n].svc /\ container[n].name # "old"
                        THEN spoiled \ {n} ELSE spoiled
        /\ UNCHANGED events
     \/ /\ Mishap(n, "docker_err")
        /\ AgentGoto(n, "beat")
        /\ UNCHANGED <<container, spoiled>>
  /\ UNCHANGED <<owner, client, portFile, target, regVars>>

\* pull, create, start, and the address file; or pull, create or start
\* fails; or what comes after start does.
StartService(n) ==
  /\ AgentAt(n, "start")
  /\ AgentGoto(n, "beat")
  /\ LET name == IF n \in DOMAIN registered THEN "own" ELSE "lapsed"
         started == [container EXCEPT
                       ![n] = [svc |-> agent[n].svc, tracked |-> TRUE, name |-> name]]
     IN  \/ /\ container' = started
            /\ target' = [target EXCEPT ![n] = agent[n].svc]
            /\ spoiled' = IF AssignedTo(n) = agent[n].svc THEN spoiled \ {n}
                                                          ELSE spoiled
            /\ UNCHANGED events
         \/ /\ Mishap(n, "docker_err")
            /\ UNCHANGED <<container, target, spoiled>>
         \/ /\ Mishap(n, "docker_err")
            /\ container' = started
            /\ spoiled' = spoiled \cup {n}
            /\ UNCHANGED target
  /\ UNCHANGED <<owner, client, portFile, regVars>>

-----------------------------------------------------------------------------
(* The host                                                                *)

\* The service container is stopped or removed by someone else.
ContainerDies(n) ==
  /\ Mishap(n, "container_dies")
  /\ container[n].svc # None
  /\ container' = [container EXCEPT ![n] = NoContainer]
  /\ UNCHANGED <<owner, client, portFile, agent, target, regVars, spoiled>>

\* The node's container is started again, with its files (docker restart) or
\* without (docker run; HOSTNAME comes from its env file); the service
\* container goes on, unknown to the agent.
NodeRestart(n) ==
  /\ Mishap(n, "node_restart")
  /\ client' = [client EXCEPT ![n] = Disconnected]
  /\ agent' = [agent EXCEPT ![n] = Starting]
  /\ container' = [container EXCEPT ![n].tracked = FALSE]
  /\ \/ UNCHANGED <<portFile, target>>
     \/ /\ portFile' = [portFile EXCEPT ![n] = None]
        /\ target' = [target EXCEPT ![n] = None]
  /\ UNCHANGED <<owner, regVars, spoiled>>

-----------------------------------------------------------------------------
(* Specification.                                                          *)

ClientStep(n) ==
  \/ \E p \in Ports : Connect(n, p)
  \/ WritePort(n) \/ SessionOver(n) \/ RemovePort(n)

AgentStep(n) ==
  \/ ReadPort(n) \/ RereadPort(n) \/ Enroll(n) \/ Heartbeat(n)
  \/ StopService(n) \/ StartService(n)

Next ==
  \/ \E n \in Nodes :
       \/ ClientStep(n) \/ ClientDies(n) \/ LinkLost(n)
       \/ \E p \in Ports : ServerNotices(n, p) \/ AcceptFails(n, p)
       \/ Evict(n) \/ AgentStep(n)
       \/ ContainerDies(n) \/ NodeRestart(n)
  \/ TunnelRestart
  \/ \E s \in Services : RegisterService(s)

Spec == Init /\ [][Next]_vars

\* Client and agent are loops that sleep and go on; the tunnel server ends
\* the sessions of clients that are gone.
Fairness ==
  \A n \in Nodes :
    /\ WF_vars(ClientStep(n)) /\ WF_vars(AgentStep(n))
    /\ WF_vars(\E p \in Ports : ServerNotices(n, p))

FairSpec == Spec /\ Fairness

-----------------------------------------------------------------------------
(* Properties.                                                             *)

\* A node that holds a service and runs a container runs that service and
\* leads its visitors to it, unless it was evicted while it held another one
\* or docker failed after the start: agent.py starts what it is told only
\* when nothing runs, and asks no more which service it is.
RunsWhatItHolds ==
  \A n \in Nodes \ spoiled :
    AgentAt(n, "beat") /\ Running(n) /\ AssignedTo(n) # None
      => container[n].svc = AssignedTo(n) /\ target[n] = AssignedTo(n)

\* The agent enrolls with a port that it has read.
PortInHand ==
  \A n \in Nodes : ~AgentAt(n, "wait") => agent[n].port \in Ports

\* apply_service_assignment has a service to apply, and unless the node was
\* evicted since, it is the one the registrar has it down for.
AppliesWhatItHolds ==
  \A n \in Nodes : agent[n].pc \in {"stop", "start"} =>
    /\ agent[n].svc \in Services
    /\ n \notin spoiled => agent[n].svc = AssignedTo(n)

\* RunsWhatItHolds wherever the agent is, and when the node holds nothing.
ServesWhatItHolds ==
  \A n \in Nodes \ spoiled :
    Running(n) => container[n].svc = AssignedTo(n) /\ target[n] = AssignedTo(n)

FleetInv ==
  TypeOK /\ PortInHand /\ AppliesWhatItHolds /\ ServesWhatItHolds

\* The node has a tunnel session, at both ends.
Connected(n) ==
  /\ ClientAt(n, "session")
  /\ client[n].up
  /\ owner[client[n].port] = n

\* The registrar sends the node's visitors to the port of its session.
Reachable(n) ==
  n \in DOMAIN registered /\ registered[n].addr = client[n].port

\* A volunteer that the registrar no longer knows enrolls again, by itself.
ReEnrolls ==
  \A n \in Nodes :
    AgentAt(n, "beat") /\ n \notin DOMAIN registered
      ~> n \in DOMAIN registered \/ AgentAt(n, "wait")

\* "Re-read the public port in case the tunnel reconnected": a re-enrollment
\* that starts while the session is up registers the session's port.
AddressHeals ==
  \A n \in Nodes :
    AgentAt(n, "reread") /\ Connected(n) ~> Reachable(n) \/ ~Connected(n)

\* "a volunteer that was assigned after enrollment can pick it up on the next
\* tick": a service assigned to a node is run there, or taken from it.
PicksUp ==
  \A n \in Nodes :
    AgentAt(n, "beat") /\ AssignedTo(n) # None /\ n \notin spoiled
      ~> \/ container[n].svc = AssignedTo(n) /\ target[n] = AssignedTo(n)
         \/ n \in spoiled \/ AgentAt(n, "wait")

-----------------------------------------------------------------------------
(* Statements of the repository that the code does not keep.               *)

\* "this endpoint propagates that new address to HAProxy so both the
\* `volunteers` backend and the `svc_*` backend stay current": the registrar
\* comes to know the port of a node's session.
AddressCurrent ==
  \A n \in Nodes :
    AgentAt(n, "beat") /\ Connected(n) ~> Reachable(n) \/ ~Connected(n)

=============================================================================
