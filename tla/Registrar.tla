------------------------------ MODULE Registrar ------------------------------
(***************************************************************************)
(* The registrar: volunteer map and pending queue in memory, two SQLite    *)
(* tables, the HTTP handlers, the churn monitor and crash recovery, over   *)
(* the HAProxy that the handlers drive.                                    *)
(*                                                                         *)
(* A handler is a tokio task.  It holds no lock across an await, so it is  *)
(* cut into one step per shared access: a critical section of a RwLock, an *)
(* SQL statement, or a haproxy-manager call.  A task record keeps what the *)
(* handler has read so far; the churn monitor and the boot sequence have   *)
(* records of their own.                                                   *)
(*                                                                         *)
(* Abstractions.  Weights and metrics are left out: the volunteer a new    *)
(* service goes to is any of the free ones.  last_heartbeat is the Boolean *)
(* `alive`, which Expire clears when 45 s have passed.  A service is its   *)
(* name: domain, image and port travel with it unchanged.  Requests that   *)
(* answer 400 or 404 change nothing.                                       *)
(***************************************************************************)
EXTENDS Naturals, Sequences, FiniteSets, HAProxy

CONSTANTS
  Nodes,        \* non-empty hostnames, one per volunteer node
  NoKey,        \* the empty hostname: an agent without a stable identity
  Slots,        \* concurrent request handlers
  None,         \* Option::None
  Serialised,   \* TRUE: an activity starts only when no other is under way
  Env,          \* which events of the environment may happen
  MaxEvents     \* bound on the number of these events

EnvEvents == {"expire", "crash", "redeploy", "haproxy_restart", "haproxy_err",
              "disconnect", "overlap", "cancel", "write_err", "query_err"}

ASSUME ConstantsAssumption ==
  /\ None \notin Nodes \cup {NoKey} \cup Ids \cup Services \cup Addrs
  /\ NoKey \notin Nodes
  /\ Serialised \in BOOLEAN
  /\ Env \subseteq EnvEvents
  /\ MaxEvents \in Nat

Hosts == Nodes \cup {NoKey}
Opt(S) == S \cup {None}

VARIABLES
  volunteers,   \* AppState.volunteers: id -> volunteer
  pending,      \* AppState.pending_services, front first
  dbVol,        \* table volunteers: id -> row
  dbAsg,        \* table service_assignments: id -> service
  tasks,        \* the request handlers under way
  churn,        \* the churn monitor
  boot,         \* main() up to axum::serve
  issued,       \* UUIDs handed out by Uuid::new_v4 so far
  owner,        \* what each service's owner knows of its registration
  lost,         \* ghost: accepted services a crash or a disconnect dropped
  events        \* events of the environment so far

memVars == <<volunteers, pending>>
dbVars == <<dbVol, dbAsg>>
auxVars == <<issued, owner, lost, events>>
vars == <<memVars, dbVars, hapVars, tasks, churn, boot, auxVars>>

-----------------------------------------------------------------------------
(* State.                                                                  *)

Volunteer == [node : Hosts, addr : Addrs, svc : Opt(Services), alive : BOOLEAN]
VolunteerRow == [node : Hosts, addr : Addrs]

EnrollPC == {"find_db", "asg_mem", "asg_db", "pop", "cfg", "primary",
             "push_front", "row", "save", "insert", "upsert"}
RegisterPC == {"reg_cfg", "reg_primary", "reg_row", "reg_set", "reg_queue"}
HeartbeatPC == {"hb_save", "hb_weight", "hb_add"}
PortPC == {"port_save", "port_addr"}
DisconnectPC == {"dis_row", "dis_server"}
TaskPC == {"idle"} \cup EnrollPC \cup RegisterPC \cup HeartbeatPC
            \cup PortPC \cup DisconnectPC

\* `queued`: the service came from the pending queue, not from an assignment.
Task == [pc : TaskPC, node : Opt(Hosts), id : Opt(Ids), svc : Opt(Services),
         addr : Opt(Addrs), queued : BOOLEAN]

Handler(l, n, i, s, a) ==
  [pc |-> l, node |-> n, id |-> i, svc |-> s, addr |-> a, queued |-> FALSE]

IdleTask == Handler("idle", None, None, None, None)

ChurnState == [pc : {"tick", "evict", "row", "server", "unassign", "requeue"},
               dead : MapsOf(Ids, Opt(Services)), id : Opt(Ids)]
IdleChurn == [pc |-> "tick", dead |-> EmptyMap, id |-> None]

\* `clean` (ghost): no manager call of this recovery has failed and HAProxy
\* has not been restarted under it.
BootState == [pc : {"prune", "load", "pass1", "pass2", "serve"},
              todo : SUBSET Ids, clean : BOOLEAN]
Booting == [pc |-> "prune", todo |-> {}, clean |-> TRUE]

\* Type invariant.
TypeOK ==
  /\ HAProxyTypeOK
  /\ volunteers \in MapsOf(Ids, Volunteer)
  /\ pending \in Seq(Services)
  /\ dbVol \in MapsOf(Ids, VolunteerRow)
  /\ dbAsg \in MapsOf(Ids, Services)
  /\ tasks \in [Slots -> Task]
  /\ churn \in ChurnState
  /\ boot \in BootState
  /\ issued \in SUBSET Ids
  /\ owner \in [Services -> {"new", "sent", "accepted"}]
  /\ lost \in SUBSET Services
  /\ events \in Nat

\* A first start: empty database, no volunteer, fresh container.
Init ==
  /\ HAProxyInit
  /\ volunteers = EmptyMap
  /\ pending = <<>>
  /\ dbVol = EmptyMap
  /\ dbAsg = EmptyMap
  /\ tasks = [t \in Slots |-> IdleTask]
  /\ churn = IdleChurn
  /\ boot = Booting
  /\ issued = {}
  /\ owner = [s \in Services |-> "new"]
  /\ lost = {}
  /\ events = 0

-----------------------------------------------------------------------------
(* Scheduling.                                                             *)

Idle(t) == tasks[t].pc = "idle"
At(t, l) == tasks[t].pc = l
Quiet == (\A t \in Slots : Idle(t)) /\ churn.pc = "tick"

\* A handler may start in slot t.
MayStart(t) ==
  /\ boot.pc = "serve"
  /\ Idle(t)
  /\ Serialised => Quiet

\* An agent has one request in flight, unless a request it gave up on after
\* its 10 s timeout is still being handled.
NodeFree(n) ==
  \/ "overlap" \in Env
  \/ n = NoKey
  \/ \A t \in Slots : Idle(t) \/ tasks[t].node # n

Event(e) ==
  /\ e \in Env
  /\ events < MaxEvents
  /\ events' = events + 1

Begin(t, task) == tasks' = [tasks EXCEPT ![t] = task]
Goto(t, l) == tasks' = [tasks EXCEPT ![t].pc = l]
Finish(t) == tasks' = [tasks EXCEPT ![t] = IdleTask]

-----------------------------------------------------------------------------
(* POST /enroll                                                            *)

\* map.values().find(hostname), SELECT id ... WHERE hostname LIMIT 1
KnownBy(table, n) == {i \in DOMAIN table : table[i].node = n}

\* The bound on enrollments: every handler that may still need a fresh UUID
\* finds one in Ids.
UuidLeft == Cardinality({t \in Slots : At(t, "find_db")}) < Cardinality(Ids \ issued)

\* Mutant: the hostname is looked up in the table only, not in the map.
EnrollStartSkipsMap(t, n, a) ==
  /\ MayStart(t)
  /\ NodeFree(n)
  /\ n # NoKey
  /\ UuidLeft
  /\ Begin(t, Handler("find_db", n, None, None, a))
  /\ UNCHANGED issued
  /\ UNCHANGED <<memVars, dbVars, hapVars, churn, boot, owner, lost, events>>

\* The request arrives; the map is searched for its hostname.  An empty
\* hostname gets a fresh UUID at once and owns no assignment.
EnrollStart(t, n, a) ==
  /\ MayStart(t)
  /\ NodeFree(n)
  /\ \/ /\ n = NoKey
        /\ UuidLeft
        /\ \E i \in Ids \ issued :
             /\ Begin(t, Handler("pop", n, i, None, a))
             /\ issued' = issued \cup {i}
     \/ /\ n # NoKey
        /\ \E i \in KnownBy(volunteers, n) :
             Begin(t, Handler("asg_mem", n, i, None, a))
        /\ UNCHANGED issued
     \/ /\ n # NoKey
        /\ KnownBy(volunteers, n) = {}
        /\ UuidLeft
        /\ Begin(t, Handler("find_db", n, None, None, a))
        /\ UNCHANGED issued
  /\ UNCHANGED <<memVars, dbVars, hapVars, churn, boot, owner, lost, events>>

\* Mutant: a volunteer that is not in the map always gets a fresh UUID.
EnrollFindDbFresh(t) ==
  /\ At(t, "find_db")
  /\ \E i \in Ids \ issued :
       /\ tasks' = [tasks EXCEPT ![t].pc = "pop", ![t].id = i]
       /\ issued' = issued \cup {i}
  /\ UNCHANGED <<memVars, dbVars, hapVars, churn, boot, owner, lost, events>>

\* db.find_by_hostname, else Uuid::new_v4.
EnrollFindDb(t) ==
  /\ At(t, "find_db")
  /\ LET known == KnownBy(dbVol, tasks[t].node)
     IN  \/ \E i \in known :
              /\ tasks' = [tasks EXCEPT ![t].pc = "asg_mem", ![t].id = i]
              /\ UNCHANGED issued
         \/ /\ known = {}
            /\ \E i \in Ids \ issued :
                 /\ tasks' = [tasks EXCEPT ![t].pc = "pop", ![t].id = i]
                 /\ issued' = issued \cup {i}
  /\ UNCHANGED <<memVars, dbVars, hapVars, churn, boot, owner, lost, events>>

\* The assignment in the map; if there is none, the table is asked.
EnrollAsgMem(t) ==
  /\ At(t, "asg_mem")
  /\ LET i == tasks[t].id
         held == i \in DOMAIN volunteers /\ volunteers[i].svc # None
     IN  tasks' = [tasks EXCEPT
                     ![t].pc = IF held THEN "cfg" ELSE "asg_db",
                     ![t].svc = IF held THEN volunteers[i].svc ELSE None]
  /\ UNCHANGED <<memVars, dbVars, hapVars, churn, boot, auxVars>>

\* db.get_assignment
EnrollAsgDb(t) ==
  /\ At(t, "asg_db")
  /\ LET held == tasks[t].id \in DOMAIN dbAsg
     IN  tasks' = [tasks EXCEPT
                     ![t].pc = IF held THEN "cfg" ELSE "pop",
                     ![t].svc = IF held THEN dbAsg[tasks[t].id] ELSE None]
  /\ UNCHANGED <<memVars, dbVars, hapVars, churn, boot, auxVars>>

\* pending_services.pop_front()
EnrollPop(t) ==
  /\ At(t, "pop")
  /\ \/ /\ pending = <<>>
        /\ Goto(t, "save")
        /\ UNCHANGED pending
     \/ /\ pending # <<>>
        /\ pending' = Tail(pending)
        /\ tasks' = [tasks EXCEPT ![t].pc = "cfg", ![t].svc = Head(pending),
                                  ![t].queued = TRUE]
  /\ UNCHANGED <<volunteers, dbVars, hapVars, churn, boot, auxVars>>

\* Where assign_service's error leads: a queued service goes back to the
\* queue, a returning volunteer keeps its service all the same.
AssignFailed(t) == Goto(t, IF tasks[t].queued THEN "push_front" ELSE "row")

\* assign_service, first half: config::add_service.
EnrollCfg(t) ==
  /\ At(t, "cfg")
  /\ \/ add_service(tasks[t].svc) /\ Goto(t, "primary") /\ UNCHANGED events
     \/ Event("haproxy_err") /\ add_service_err(tasks[t].svc) /\ AssignFailed(t)
  /\ UNCHANGED <<memVars, dbVars, churn, boot, issued, owner, lost>>

\* assign_service, second half: upsert_svc_server.
EnrollPrimary(t) ==
  /\ At(t, "primary")
  /\ \/ /\ upsert_svc_server(tasks[t].svc, tasks[t].addr)
        /\ Goto(t, "row")
        /\ UNCHANGED events
     \/ /\ upsert_svc_server_nobackend(tasks[t].svc)
        /\ AssignFailed(t)
        /\ UNCHANGED events
     \/ /\ Event("haproxy_err")
        /\ upsert_svc_server_err(tasks[t].svc, tasks[t].addr)
        /\ AssignFailed(t)
  /\ UNCHANGED <<memVars, dbVars, churn, boot, issued, owner, lost>>

\* Mutant: the service whose assignment failed is not put back.
EnrollPushFrontDrops(t) ==
  /\ At(t, "push_front")
  /\ tasks' = [tasks EXCEPT ![t].pc = "save", ![t].svc = None]
  /\ UNCHANGED <<memVars, dbVars, hapVars, churn, boot, auxVars>>

\* The failed service goes back to the front; the volunteer enrolls without.
EnrollPushFront(t) ==
  /\ At(t, "push_front")
  /\ pending' = <<tasks[t].svc>> \o pending
  /\ tasks' = [tasks EXCEPT ![t].pc = "save", ![t].svc = None]
  /\ UNCHANGED <<volunteers, dbVars, hapVars, churn, boot, auxVars>>

\* db.upsert_assignment
EnrollRow(t) ==
  /\ At(t, "row")
  /\ dbAsg' = Put(dbAsg, tasks[t].id, tasks[t].svc)
  /\ Goto(t, "save")
  /\ UNCHANGED <<memVars, dbVol, hapVars, churn, boot, auxVars>>

RowOf(t) == [node |-> tasks[t].node, addr |-> tasks[t].addr]

\* db.upsert_volunteer
EnrollSave(t) ==
  /\ At(t, "save")
  /\ dbVol' = Put(dbVol, tasks[t].id, RowOf(t))
  /\ Goto(t, "insert")
  /\ UNCHANGED <<memVars, dbAsg, hapVars, churn, boot, auxVars>>

\* map.insert(id, volunteer)
EnrollInsert(t) ==
  /\ At(t, "insert")
  /\ volunteers' = Put(volunteers, tasks[t].id,
                       [node |-> tasks[t].node, addr |-> tasks[t].addr,
                        svc |-> tasks[t].svc, alive |-> TRUE])
  /\ Goto(t, "upsert")
  /\ UNCHANGED <<pending, dbVars, hapVars, churn, boot, auxVars>>

\* haproxy_manager::upsert_volunteer; its error is only logged.
EnrollUpsert(t) ==
  /\ At(t, "upsert")
  /\ \/ upsert_volunteer(tasks[t].id, tasks[t].addr) /\ UNCHANGED events
     \/ /\ Event("haproxy_err")
        /\ upsert_volunteer_err(tasks[t].id, tasks[t].addr)
  /\ Finish(t)
  /\ UNCHANGED <<memVars, dbVars, churn, boot, issued, owner, lost>>

EnrollStep(t) ==
  \/ EnrollFindDb(t) \/ EnrollAsgMem(t) \/ EnrollAsgDb(t) \/ EnrollPop(t)
  \/ EnrollCfg(t) \/ EnrollPrimary(t) \/ EnrollPushFront(t) \/ EnrollRow(t)
  \/ EnrollSave(t) \/ EnrollInsert(t) \/ EnrollUpsert(t)

-----------------------------------------------------------------------------
(* POST /services                                                          *)

\* active_volunteers() without a service
Free == {i \in DOMAIN volunteers : volunteers[i].alive /\ volunteers[i].svc = None}

\* The volunteer is picked, and its address copied, under the read lock.
RegisterStart(t, s) ==
  /\ MayStart(t)
  /\ owner[s] = "new"
  /\ owner' = [owner EXCEPT ![s] = "sent"]
  /\ \/ \E i \in Free :
          Begin(t, Handler("reg_cfg", None, i, s, volunteers[i].addr))
     \/ /\ Free = {}
        /\ Begin(t, Handler("reg_queue", None, None, s, None))
  /\ UNCHANGED <<memVars, dbVars, hapVars, churn, boot, issued, lost, events>>

\* 201: the owner may rely on the service.
Created(t) == owner' = [owner EXCEPT ![tasks[t].svc] = "accepted"]

\* 500: the owner may try again.
Refused(t) ==
  /\ owner' = [owner EXCEPT ![tasks[t].svc] = "new"]
  /\ Finish(t)

\* assign_service, first half
RegisterCfg(t) ==
  /\ At(t, "reg_cfg")
  /\ \/ /\ add_service(tasks[t].svc)
        /\ Goto(t, "reg_primary")
        /\ UNCHANGED <<owner, events>>
     \/ Event("haproxy_err") /\ add_service_err(tasks[t].svc) /\ Refused(t)
  /\ UNCHANGED <<memVars, dbVars, churn, boot, issued, lost>>

\* assign_service, second half
RegisterPrimary(t) ==
  /\ At(t, "reg_primary")
  /\ \/ /\ upsert_svc_server(tasks[t].svc, tasks[t].addr)
        /\ Goto(t, "reg_row")
        /\ UNCHANGED <<owner, events>>
     \/ /\ upsert_svc_server_nobackend(tasks[t].svc)
        /\ Refused(t)
        /\ UNCHANGED events
     \/ /\ Event("haproxy_err")
        /\ upsert_svc_server_err(tasks[t].svc, tasks[t].addr)
        /\ Refused(t)
  /\ UNCHANGED <<memVars, dbVars, churn, boot, issued, lost>>

\* db.upsert_assignment
RegisterRow(t) ==
  /\ At(t, "reg_row")
  /\ dbAsg' = Put(dbAsg, tasks[t].id, tasks[t].svc)
  /\ Goto(t, "reg_set")
  /\ UNCHANGED <<memVars, dbVol, hapVars, churn, boot, auxVars>>

\* The assignment is stored if the volunteer is still in the map; 201 anyway.
RegisterSet(t) ==
  /\ At(t, "reg_set")
  /\ volunteers' = IF tasks[t].id \in DOMAIN volunteers
                     THEN [volunteers EXCEPT ![tasks[t].id].svc = tasks[t].svc]
                     ELSE volunteers
  /\ Created(t)
  /\ Finish(t)
  /\ UNCHANGED <<pending, dbVars, hapVars, churn, boot, issued, lost, events>>

\* pending_services.push_back
RegisterQueue(t) ==
  /\ At(t, "reg_queue")
  /\ pending' = Append(pending, tasks[t].svc)
  /\ Created(t)
  /\ Finish(t)
  /\ UNCHANGED <<volunteers, dbVars, hapVars, churn, boot, issued, lost, events>>

RegisterStep(t) ==
  \/ RegisterCfg(t) \/ RegisterPrimary(t) \/ RegisterRow(t)
  \/ RegisterSet(t) \/ RegisterQueue(t)

-----------------------------------------------------------------------------
(* POST /heartbeat                                                         *)

\* The volunteer is refreshed and cloned under the write lock.
HeartbeatStart(t, i) ==
  /\ MayStart(t)
  /\ i \in DOMAIN volunteers
  /\ NodeFree(volunteers[i].node)
  /\ volunteers' = [volunteers EXCEPT ![i].alive = TRUE]
  /\ Begin(t, Handler("hb_save", volunteers[i].node, i, None,
                      volunteers[i].addr))
  /\ UNCHANGED <<pending, dbVars, hapVars, churn, boot, auxVars>>

\* Mutant: a heartbeat only refreshes the map.
HeartbeatSaveSkips(t) ==
  /\ At(t, "hb_save")
  /\ Goto(t, "hb_weight")
  /\ UNCHANGED <<memVars, dbVars, hapVars, churn, boot, auxVars>>

\* db.upsert_volunteer with the clone
HeartbeatSave(t) ==
  /\ At(t, "hb_save")
  /\ dbVol' = Put(dbVol, tasks[t].id, RowOf(t))
  /\ Goto(t, "hb_weight")
  /\ UNCHANGED <<memVars, dbAsg, hapVars, churn, boot, auxVars>>

\* Mutant: every error of set_weight is only logged.
HeartbeatWeightLogs(t) ==
  /\ At(t, "hb_weight")
  /\ Finish(t)
  /\ UNCHANGED <<memVars, dbVars, hapVars, churn, boot, auxVars>>

\* set_weight: only "No such server" makes the handler add the server again.
HeartbeatWeight(t) ==
  /\ At(t, "hb_weight")
  /\ \/ tasks[t].id \in DOMAIN volServers /\ Finish(t) /\ UNCHANGED events
     \/ tasks[t].id \notin DOMAIN volServers /\ Goto(t, "hb_add")
                                             /\ UNCHANGED events
     \/ Event("haproxy_err") /\ Finish(t)
  /\ UNCHANGED <<memVars, dbVars, hapVars, churn, boot, issued, owner, lost>>

\* add_volunteer at the cloned address
HeartbeatAdd(t) ==
  /\ At(t, "hb_add")
  /\ \/ add_volunteer(tasks[t].id, tasks[t].addr) /\ UNCHANGED events
     \/ Event("haproxy_err") /\ add_volunteer_err(tasks[t].id, tasks[t].addr)
  /\ Finish(t)
  /\ UNCHANGED <<memVars, dbVars, churn, boot, issued, owner, lost>>

HeartbeatStep(t) == HeartbeatSave(t) \/ HeartbeatWeight(t) \/ HeartbeatAdd(t)

-----------------------------------------------------------------------------
(* POST /volunteers/{id}/tunnel-port                                       *)

\* The new address is stored, and the assigned service noted, in one section.
PortStart(t, i, a) ==
  /\ MayStart(t)
  /\ i \in DOMAIN volunteers
  /\ NodeFree(volunteers[i].node)
  /\ volunteers' = [volunteers EXCEPT ![i].addr = a]
  /\ Begin(t, Handler("port_save", volunteers[i].node, i, volunteers[i].svc, a))
  /\ UNCHANGED <<pending, dbVars, hapVars, churn, boot, auxVars>>

\* Mutant: the new address is not written to the table.
PortSaveForgets(t) ==
  /\ At(t, "port_save")
  /\ Goto(t, "port_addr")
  /\ UNCHANGED <<memVars, dbVars, hapVars, churn, boot, auxVars>>

\* db.upsert_volunteer
PortSave(t) ==
  /\ At(t, "port_save")
  /\ dbVol' = Put(dbVol, tasks[t].id, RowOf(t))
  /\ Goto(t, "port_addr")
  /\ UNCHANGED <<memVars, dbAsg, hapVars, churn, boot, auxVars>>

\* update_volunteer_addr; its error is only logged.
PortAddr(t) ==
  /\ At(t, "port_addr")
  /\ \/ /\ update_volunteer_addr(tasks[t].id, tasks[t].addr,
                                 tasks[t].svc # None, tasks[t].svc)
        /\ UNCHANGED events
     \/ /\ Event("haproxy_err")
        /\ update_volunteer_addr_err(tasks[t].id, tasks[t].addr,
                                     tasks[t].svc # None, tasks[t].svc)
  /\ Finish(t)
  /\ UNCHANGED <<memVars, dbVars, churn, boot, issued, owner, lost>>

PortStep(t) == PortSave(t) \/ PortAddr(t)

-----------------------------------------------------------------------------
(* DELETE /enroll/{id}                                                     *)

\* map.remove.  The volunteer's service is neither queued nor unassigned.
DisconnectStart(t, i) ==
  /\ "disconnect" \in Env
  /\ MayStart(t)
  /\ i \in DOMAIN volunteers
  /\ volunteers' = Drop(volunteers, i)
  /\ lost' = lost \cup ({volunteers[i].svc} \ {None})
  /\ Begin(t, Handler("dis_row", None, i, None, None))
  /\ UNCHANGED <<pending, dbVars, hapVars, churn, boot, issued, owner, events>>

\* db.remove_volunteer
DisconnectRow(t) ==
  /\ At(t, "dis_row")
  /\ dbVol' = Drop(dbVol, tasks[t].id)
  /\ Goto(t, "dis_server")
  /\ UNCHANGED <<memVars, dbAsg, hapVars, churn, boot, auxVars>>

\* haproxy_manager::remove_volunteer; its error is only logged.
DisconnectServer(t) ==
  /\ At(t, "dis_server")
  /\ \/ remove_volunteer(tasks[t].id) /\ UNCHANGED events
     \/ Event("haproxy_err") /\ remove_volunteer_err(tasks[t].id)
  /\ Finish(t)
  /\ UNCHANGED <<memVars, dbVars, churn, boot, issued, owner, lost>>

DisconnectStep(t) == DisconnectRow(t) \/ DisconnectServer(t)

\* A heartbeat, a tunnel-port or a disconnect request for a volunteer that is
\* not in the map answers 404 and changes nothing.
NotFound(i) ==
  /\ boot.pc = "serve"
  /\ i \notin DOMAIN volunteers
  /\ UNCHANGED vars

-----------------------------------------------------------------------------
(* run_churn_monitor, every 15 s                                           *)

\* volunteers that are not is_alive()
Dead == {i \in DOMAIN volunteers : ~volunteers[i].alive}

\* Mutant: only the dead that hold a service are listed.
ChurnScanAssigned ==
  /\ boot.pc = "serve"
  /\ churn.pc = "tick"
  /\ Serialised => Quiet
  /\ LET dead == {i \in Dead : volunteers[i].svc # None}
     IN  /\ dead # {}
         /\ churn' = [pc |-> "evict", id |-> None,
                      dead |-> [i \in dead |-> volunteers[i].svc]]
  /\ UNCHANGED <<memVars, dbVars, hapVars, tasks, boot, auxVars>>

\* The dead are listed, with their services, under the read lock.
ChurnScan ==
  /\ boot.pc = "serve"
  /\ churn.pc = "tick"
  /\ Serialised => Quiet
  /\ Dead # {}
  /\ churn' = [pc |-> "evict", id |-> None,
               dead |-> [i \in Dead |-> volunteers[i].svc]]
  /\ UNCHANGED <<memVars, dbVars, hapVars, tasks, boot, auxVars>>

\* map.remove, without looking at the volunteer again
ChurnEvict(i) ==
  /\ churn.pc = "evict"
  /\ i \in DOMAIN churn.dead
  /\ volunteers' = Drop(volunteers, i)
  /\ churn' = [churn EXCEPT !.pc = "row", !.id = i]
  /\ UNCHANGED <<pending, dbVars, hapVars, tasks, boot, auxVars>>

\* db.remove_volunteer
ChurnRow ==
  /\ churn.pc = "row"
  /\ dbVol' = Drop(dbVol, churn.id)
  /\ churn' = [churn EXCEPT !.pc = "server"]
  /\ UNCHANGED <<memVars, dbAsg, hapVars, tasks, boot, auxVars>>

\* The next dead volunteer, or the next tick.
ChurnNext ==
  LET rest == Drop(churn.dead, churn.id)
  IN  churn' = IF DOMAIN rest = {} THEN IdleChurn
               ELSE [pc |-> "evict", id |-> None, dead |-> rest]

\* Mutant: a volunteer without a service is requeued as well.
ChurnServerAlways ==
  /\ churn.pc = "server"
  /\ remove_volunteer(churn.id)
  /\ churn' = [churn EXCEPT !.pc = "unassign"]
  /\ UNCHANGED <<memVars, dbVars, tasks, boot, auxVars>>

\* haproxy_manager::remove_volunteer; its error is only logged.
ChurnServer ==
  /\ churn.pc = "server"
  /\ \/ remove_volunteer(churn.id) /\ UNCHANGED events
     \/ Event("haproxy_err") /\ remove_volunteer_err(churn.id)
  /\ IF churn.dead[churn.id] # None
       THEN churn' = [churn EXCEPT !.pc = "unassign"]
       ELSE ChurnNext
  /\ UNCHANGED <<memVars, dbVars, tasks, boot, issued, owner, lost>>

\* db.remove_assignment
ChurnUnassign ==
  /\ churn.pc = "unassign"
  /\ dbAsg' = Drop(dbAsg, churn.id)
  /\ churn' = [churn EXCEPT !.pc = "requeue"]
  /\ UNCHANGED <<memVars, dbVol, hapVars, tasks, boot, auxVars>>

\* Mutant: the row is dropped and the service queued for nobody.
ChurnRequeueDrops ==
  /\ churn.pc = "requeue"
  /\ ChurnNext
  /\ UNCHANGED <<memVars, dbVars, hapVars, tasks, boot, auxVars>>

\* pending_services.push_back of the service listed by the scan
ChurnRequeue ==
  /\ churn.pc = "requeue"
  /\ pending' = Append(pending, churn.dead[churn.id])
  /\ ChurnNext
  /\ UNCHANGED <<volunteers, dbVars, hapVars, tasks, boot, auxVars>>

ChurnStep ==
  \/ ChurnScan \/ (\E i \in Ids : ChurnEvict(i)) \/ ChurnRow
  \/ ChurnServer \/ ChurnUnassign \/ ChurnRequeue

-----------------------------------------------------------------------------
(* main(), before the routes are served                                    *)

\* db.prune_orphan_assignments
BootPrune ==
  /\ boot.pc = "prune"
  /\ dbAsg' = [i \in DOMAIN dbAsg \cap DOMAIN dbVol |-> dbAsg[i]]
  /\ boot' = [boot EXCEPT !.pc = "load"]
  /\ UNCHANGED <<memVars, dbVol, hapVars, tasks, churn, auxVars>>

\* load_all into the map, with a fresh heartbeat
BootLoad ==
  /\ boot.pc = "load"
  /\ volunteers' = [i \in DOMAIN dbVol |->
                      [node |-> dbVol[i].node, addr |-> dbVol[i].addr,
                       svc |-> IF i \in DOMAIN dbAsg THEN dbAsg[i] ELSE None,
                       alive |-> TRUE]]
  /\ boot' = [boot EXCEPT !.pc = "pass1", !.todo = DOMAIN dbVol]
  /\ UNCHANGED <<pending, dbVars, hapVars, tasks, churn, auxVars>>

\* The loop over `recovery` moves on.
Treated(i, ok) ==
  boot' = [boot EXCEPT !.todo = @ \ {i}, !.clean = @ /\ ok]

\* Mutant: no pass 1; the service backends are taken to be in the file.
BootPass1Skips(i) ==
  /\ boot.pc = "pass1"
  /\ i \in boot.todo
  /\ Treated(i, TRUE)
  /\ UNCHANGED <<memVars, dbVars, hapVars, tasks, churn, auxVars>>

\* Pass 1: ensure_service_config for every recovered service; errors ignored.
BootPass1(i) ==
  /\ boot.pc = "pass1"
  /\ i \in boot.todo
  /\ \/ /\ IF volunteers[i].svc = None THEN UNCHANGED hapVars
                                        ELSE add_service(volunteers[i].svc)
        /\ Treated(i, TRUE)
        /\ UNCHANGED events
     \/ /\ volunteers[i].svc # None
        /\ Event("haproxy_err")
        /\ add_service_err(volunteers[i].svc)
        /\ Treated(i, FALSE)
  /\ UNCHANGED <<memVars, dbVars, tasks, churn, issued, owner, lost>>

BootPass1Done ==
  /\ boot.pc = "pass1"
  /\ boot.todo = {}
  /\ boot' = [boot EXCEPT !.pc = "pass2", !.todo = DOMAIN volunteers]
  /\ UNCHANGED <<memVars, dbVars, hapVars, tasks, churn, auxVars>>

\* Pass 2: upsert_volunteer, then restore_service_server, which fails when
\* the worker does not know the backend; errors ignored.
BootPass2(i) ==
  /\ boot.pc = "pass2"
  /\ i \in boot.todo
  /\ LET v == volunteers[i]
     IN  \/ /\ volServers' = Upserted(volServers, i, v.addr)
            /\ svcServers' = IF v.svc # None /\ v.svc \in loaded
                               THEN Upserted(svcServers, v.svc, v.addr)
                               ELSE svcServers
            /\ UNCHANGED <<cfg, loaded, events>>
            /\ Treated(i, TRUE)
         \/ /\ Event("haproxy_err")
            /\ volServers' \in {volServers, HalfUpserted(volServers, i, v.addr),
                                Upserted(volServers, i, v.addr)}
            /\ svcServers' \in
                 IF v.svc # None /\ v.svc \in loaded
                   THEN {svcServers, HalfUpserted(svcServers, v.svc, v.addr),
                         Upserted(svcServers, v.svc, v.addr)}
                   ELSE {svcServers}
            /\ UNCHANGED <<cfg, loaded>>
            /\ Treated(i, FALSE)
  /\ UNCHANGED <<memVars, dbVars, tasks, churn, issued, owner, lost>>

\* The churn monitor is spawned and the routes are served.
BootServe ==
  /\ boot.pc = "pass2"
  /\ boot.todo = {}
  /\ boot' = [boot EXCEPT !.pc = "serve", !.clean = TRUE]
  /\ UNCHANGED <<memVars, dbVars, hapVars, tasks, churn, auxVars>>

BootStep ==
  \/ BootPrune \/ BootLoad \/ (\E i \in Ids : BootPass1(i)) \/ BootPass1Done
  \/ (\E i \in Ids : BootPass2(i)) \/ BootServe

-----------------------------------------------------------------------------
(* SQL errors.  db.rs logs them, and its caller goes on as if the write    *)
(* had been done, or the query had found nothing.                          *)

AfterWrite == [row |-> "save", save |-> "insert", reg_row |-> "reg_set",
               hb_save |-> "hb_weight", port_save |-> "port_addr",
               dis_row |-> "dis_server"]

WriteFails(t) ==
  /\ Event("write_err")
  /\ tasks[t].pc \in DOMAIN AfterWrite
  /\ Goto(t, AfterWrite[tasks[t].pc])
  /\ UNCHANGED <<memVars, dbVars, hapVars, churn, boot, issued, owner, lost>>

\* find_by_hostname (a fresh UUID is made) or get_assignment
QueryFails(t) ==
  /\ Event("query_err")
  /\ \/ /\ At(t, "find_db")
        /\ \E i \in Ids \ issued :
             /\ tasks' = [tasks EXCEPT ![t].pc = "pop", ![t].id = i]
             /\ issued' = issued \cup {i}
     \/ At(t, "asg_db") /\ Goto(t, "pop") /\ UNCHANGED issued
  /\ UNCHANGED <<memVars, dbVars, hapVars, churn, boot, owner, lost>>

ChurnWriteFails ==
  /\ Event("write_err")
  /\ \/ churn.pc = "row" /\ churn' = [churn EXCEPT !.pc = "server"]
     \/ churn.pc = "unassign" /\ churn' = [churn EXCEPT !.pc = "requeue"]
  /\ UNCHANGED <<memVars, dbVars, hapVars, tasks, boot, issued, owner, lost>>

\* prune_orphan_assignments; load_all without volunteers, or without their
\* assignments
BootSqlFails ==
  /\ \/ /\ boot.pc = "prune" /\ Event("write_err")
        /\ boot' = [boot EXCEPT !.pc = "load"]
        /\ UNCHANGED volunteers
     \/ /\ boot.pc = "load" /\ Event("query_err")
        /\ volunteers' \in {EmptyMap, [i \in DOMAIN dbVol |->
                             [node |-> dbVol[i].node, addr |-> dbVol[i].addr,
                              svc |-> None, alive |-> TRUE]]}
        /\ boot' = [pc |-> "pass1", todo |-> DOMAIN volunteers', clean |-> FALSE]
  /\ UNCHANGED <<pending, dbVars, hapVars, tasks, churn, issued, owner, lost>>

-----------------------------------------------------------------------------
(* The environment.                                                        *)

\* 45 s pass without a heartbeat of volunteer i.
Expire(i) ==
  /\ Event("expire")
  /\ i \in DOMAIN volunteers
  /\ volunteers[i].alive
  /\ volunteers' = [volunteers EXCEPT ![i].alive = FALSE]
  /\ UNCHANGED <<pending, dbVars, hapVars, tasks, churn, boot, issued, owner, lost>>

\* Services some volunteer row and some assignment row together remember.
Persisted == {dbAsg[i] : i \in DOMAIN dbAsg \cap DOMAIN dbVol}
Accepted == {s \in Services : owner[s] = "accepted"}

\* The registrar process dies and supervisord starts it again: memory and
\* the handlers under way are gone.
Reset ==
  /\ volunteers' = EmptyMap
  /\ pending' = <<>>
  /\ tasks' = [t \in Slots |-> IdleTask]
  /\ churn' = IdleChurn
  /\ boot' = Booting
  /\ lost' = lost \cup (Accepted \ Persisted)
  /\ UNCHANGED <<dbVars, issued, owner>>

\* Services whose config::add_service may be under way.
Editing ==
  {tasks[t].svc : t \in {u \in Slots : tasks[u].pc \in {"cfg", "reg_cfg"}}}
    \cup (IF boot.pc = "pass1"
            THEN {volunteers[i].svc : i \in boot.todo} \ {None} ELSE {})

\* The crash may fall between write_config and the reload of an add_service.
Crash ==
  /\ Event("crash")
  /\ cfg' \in {cfg} \cup {cfg \cup {s} : s \in Editing}
  /\ UNCHANGED <<loaded, volServers, svcServers>>
  /\ Reset

\* The container is recreated: the image's haproxy.cfg, the database volume.
Redeploy ==
  /\ Event("redeploy")
  /\ StartWorker({})
  /\ Reset

\* supervisord restarts HAProxy alone.
HAProxyRestart ==
  /\ Event("haproxy_restart")
  /\ StartWorker(cfg)
  /\ boot' = [boot EXCEPT !.clean = @ /\ boot.pc = "serve"]
  /\ UNCHANGED <<memVars, dbVars, tasks, churn, issued, owner, lost>>

\* The client closes its connection (the agent does after 10 s) and the HTTP
\* server drops the handler at the await it has reached: a manager call may
\* be half done, a service taken from the queue is in nobody's hands.
Cancel(t) ==
  /\ Event("cancel")
  /\ ~Idle(t)
  /\ LET k == tasks[t]
     IN  /\ \/ UNCHANGED hapVars
            \/ k.pc \in {"cfg", "reg_cfg"} /\ add_service_err(k.svc)
            \/ /\ k.pc \in {"primary", "reg_primary"}
               /\ upsert_svc_server_err(k.svc, k.addr)
            \/ k.pc = "upsert" /\ upsert_volunteer_err(k.id, k.addr)
            \/ k.pc = "hb_add" /\ add_volunteer_err(k.id, k.addr)
            \/ /\ k.pc = "port_addr"
               /\ update_volunteer_addr_err(k.id, k.addr, k.svc # None, k.svc)
            \/ k.pc = "dis_server" /\ remove_volunteer_err(k.id)
         /\ owner' = IF k.pc \in RegisterPC THEN [owner EXCEPT ![k.svc] = "new"]
                                            ELSE owner
         /\ lost' = IF k.queued /\ k.pc # "upsert" THEN lost \cup ({k.svc} \ {None})
                                                   ELSE lost
  /\ Finish(t)
  /\ UNCHANGED <<memVars, dbVars, churn, boot, issued>>

-----------------------------------------------------------------------------
(* Specification.                                                          *)

Arrival(t) ==
  \/ \E n \in Hosts, a \in Addrs : EnrollStart(t, n, a)
  \/ \E s \in Services : RegisterStart(t, s)
  \/ \E i \in Ids : HeartbeatStart(t, i)
  \/ \E i \in Ids, a \in Addrs : PortStart(t, i, a)
  \/ \E i \in Ids : DisconnectStart(t, i)

TaskStep(t) ==
  \/ EnrollStep(t) \/ RegisterStep(t) \/ HeartbeatStep(t)
  \/ PortStep(t) \/ DisconnectStep(t)

Environment ==
  \/ \E i \in Ids : Expire(i) \/ NotFound(i)
  \/ \E t \in Slots : Cancel(t) \/ WriteFails(t) \/ QueryFails(t)
  \/ ChurnWriteFails \/ BootSqlFails
  \/ Crash \/ Redeploy \/ HAProxyRestart

Next ==
  \/ \E t \in Slots : Arrival(t) \/ TaskStep(t)
  \/ ChurnStep
  \/ BootStep
  \/ Environment

Spec == Init /\ [][Next]_vars

\* The runtime runs every task that can run, and the interval ticks.
Fairness ==
  /\ \A t \in Slots : WF_vars(TaskStep(t))
  /\ WF_vars(ChurnStep)
  /\ WF_vars(BootStep)

FairSpec == Spec /\ Fairness

-----------------------------------------------------------------------------
(* Safety.                                                                 *)

\* "The agent's hostname is a stable per-node key" (enroll): the map and the
\* volunteers table together never know one hostname under two UUIDs,
\* whatever the interleaving with the churn monitor, disconnects and crashes.
StableIdentity ==
  \A n \in Nodes :
    \A i, j \in KnownBy(volunteers, n) \cup KnownBy(dbVol, n) : i = j

\* Pass 1 has put volunteer i's service into the file.
InFile(i) == volunteers[i].svc # None => volunteers[i].svc \in cfg

\* "primary" of service s is ready and points at a volunteer that holds s.
PrimaryRestored(s) ==
  /\ s \in DOMAIN svcServers
  /\ svcServers[s].state = "ready"
  /\ \E j \in DOMAIN volunteers :
       volunteers[j].svc = s /\ volunteers[j].addr = svcServers[s].addr

\* Pass 2 has restored volunteer i and, if the worker knows the backend, the
\* server of its service.
Restored(i) ==
  /\ i \in DOMAIN volServers
  /\ volServers[i] = [addr |-> volunteers[i].addr, state |-> "ready"]
  /\ volunteers[i].svc # None /\ volunteers[i].svc \in loaded
       => PrimaryRestored(volunteers[i].svc)

Recovered == boot.pc = "pass2" /\ boot.todo = {} /\ boot.clean

\* Crash recovery, if no call of it fails, is complete when the routes open:
\* every recovered volunteer
\* is a ready server at its address, every recovered service is in the file,
\* and if the worker knows its backend, "primary" points at a volunteer that
\* holds the service.  The two passes are what makes this hold.
RecoveryComplete ==
  Recovered => \A i \in DOMAIN volunteers : InFile(i) /\ Restored(i)

\* No handler, churn pass or recovery is under way.
AtRest == boot.pc = "serve" /\ Quiet

Holders(s) == {i \in DOMAIN volunteers : volunteers[i].svc = s}
QueuedAt(s) == {k \in DOMAIN pending : pending[k] = s}

\* With one activity at a time, an accepted service is in exactly one place,
\* a volunteer or one queue entry; only a crash or a disconnect loses one.
PlacedOnce ==
  AtRest =>
    \A s \in Accepted :
      LET places == Cardinality(Holders(s)) + Cardinality(QueuedAt(s))
      IN  places <= 1 /\ (places = 0 => s \in lost)

\* With one activity at a time, the tables mirror the map whenever the
\* registrar is at rest, so a crash then loses nothing but the queue.
MirrorAtRest ==
  AtRest =>
    /\ DOMAIN dbVol = DOMAIN volunteers
    /\ \A i \in DOMAIN volunteers :
         /\ dbVol[i] = [node |-> volunteers[i].node, addr |-> volunteers[i].addr]
         /\ volunteers[i].svc = IF i \in DOMAIN dbAsg THEN dbAsg[i] ELSE None

\* Service s is somewhere in the registrar: in the queue, with a volunteer, in
\* the hands of a handler or of the churn monitor, or in a row.
Remembered(s) ==
  \/ QueuedAt(s) # {}
  \/ Holders(s) # {}
  \/ \E t \in Slots :
       tasks[t].svc = s /\ tasks[t].pc \in (EnrollPC \ {"upsert"}) \cup RegisterPC
  \/ \E i \in DOMAIN churn.dead : churn.dead[i] = s
  \/ \E i \in DOMAIN dbAsg : dbAsg[i] = s

\* Another service, or none, is written over s in a row or in the map.
Overwritten(s) ==
  \/ \E i \in DOMAIN dbAsg :
       dbAsg[i] = s /\ i \in DOMAIN dbAsg' /\ dbAsg'[i] # s
  \/ \E i \in DOMAIN volunteers :
       volunteers[i].svc = s /\ i \in DOMAIN volunteers' /\ volunteers'[i].svc # s

\* The churn monitor takes s with a volunteer that its scan had listed with
\* another service, or with none.
EvictedAsOther(s) ==
  \E i \in DOMAIN churn.dead :
    /\ churn.dead[i] # s
    /\ \/ i \in DOMAIN volunteers /\ volunteers[i].svc = s /\ i \notin DOMAIN volunteers'
       \/ i \in DOMAIN dbAsg /\ dbAsg[i] = s /\ i \notin DOMAIN dbAsg'

\* The enrollment that had s in hand ends before it has stored it.
DroppedByHandler(s) ==
  \E t \in Slots :
    /\ tasks[t].svc = s /\ tasks[t].pc \in EnrollPC \ {"upsert"}
    /\ tasks'[t].pc = "idle"

\* A step that makes service s vanish although it was accepted.
Forgotten(s) ==
  /\ s \in Accepted /\ Remembered(s) /\ ~Remembered(s)'

\* An accepted service leaves no trace only when the process dies or starts
\* (the queue is in memory; a row without a volunteer is pruned), when its
\* volunteer disconnects, when the handler that had it in hand is dropped,
\* when its last trace is written over, or when it is evicted as the service
\* of a volunteer that was dead with another.  Whatever else overtakes what,
\* an eviction, a failed assignment or a re-enrollment leaves a trace.
NotForgotten ==
  [][\A s \in Services : Forgotten(s) =>
       \/ boot.pc = "prune" \/ boot'.pc = "prune"
       \/ s \in lost'
       \/ DroppedByHandler(s) \/ Overwritten(s) \/ EvictedAsOther(s)]_vars

-----------------------------------------------------------------------------
(* The inductive invariant behind TypeOK and StableIdentity.               *)

AgentPC == EnrollPC \cup HeartbeatPC \cup PortPC

\* What a handler has in hand at each point.
TaskOK(k) ==
  /\ k.pc \in AgentPC => k.node \in Hosts /\ k.addr \in Addrs
  /\ k.pc \notin AgentPC => k.node = None
  /\ k.pc \notin {"idle", "find_db", "reg_queue"} => k.id \in Ids
  /\ k.pc = "find_db" => k.id = None
  /\ k.pc \in {"reg_cfg", "reg_primary"} => k.addr \in Addrs
  /\ k.pc \in {"cfg", "primary", "push_front", "row"} \cup RegisterPC
       => k.svc \in Services

\* The churn monitor works on an entry of its list.
ChurnOK ==
  /\ churn.pc \in {"row", "server", "unassign", "requeue"}
       => churn.id \in DOMAIN churn.dead
  /\ churn.pc \in {"unassign", "requeue"} => churn.dead[churn.id] # None

\* Nothing else runs before the routes are served.
BootOK ==
  boot.pc # "serve" =>
    /\ \A t \in Slots : Idle(t)
    /\ churn = IdleChurn
    /\ boot.todo \subseteq DOMAIN volunteers

TypeInv ==
  /\ TypeOK
  /\ \A t \in Slots : TaskOK(tasks[t])
  /\ ChurnOK
  /\ BootOK

\* As long as no call of it fails: pass 1 leaves the services of the
\* volunteers it has treated in the file, pass 2 keeps them there and leaves
\* the volunteers it has treated restored.
RecoveryInv ==
  /\ TypeInv
  /\ boot.pc = "pass1" /\ boot.clean =>
       \A i \in DOMAIN volunteers \ boot.todo : InFile(i)
  /\ boot.pc = "pass2" /\ boot.clean =>
       /\ \A i \in DOMAIN volunteers : InFile(i)
       /\ \A i \in DOMAIN volunteers \ boot.todo : Restored(i)

\* A service is registered by one handler at a time, which has not accepted
\* it yet; an enrollment has no service in hand before it has asked for one;
\* between two ticks the churn monitor has none, before the load the map.
TraceInv ==
  /\ TypeInv
  /\ \A t \in Slots : tasks[t].pc \in RegisterPC =>
       /\ owner[tasks[t].svc] = "sent"
       /\ \A u \in Slots :
            tasks[u].pc \in RegisterPC /\ tasks[u].svc = tasks[t].svc => u = t
  /\ \A t \in Slots :
       tasks[t].pc \in {"find_db", "asg_mem", "asg_db", "pop"} => tasks[t].svc = None
  /\ churn.pc = "tick" => churn = IdleChurn
  /\ boot.pc \in {"prune", "load"} => DOMAIN volunteers = {}

\* The ids the handlers under way hold for hostname n.
Carried(n) ==
  {i \in Ids : \E t \in Slots : tasks[t].node = n /\ tasks[t].id = i}

KnownAs(n) == KnownBy(volunteers, n) \cup KnownBy(dbVol, n) \cup Carried(n)

\* A hostname has one id in the map, the table and all handlers together.
OneIdentity == \A n \in Nodes : \A i, j \in KnownAs(n) : i = j

\* An agent has one request in flight.
OneRequest ==
  \A t, u \in Slots :
    tasks[t].node \in Nodes /\ tasks[t].node = tasks[u].node => t = u

\* While a handler asks the table, nobody else enters its host in the map.
AbsentWhileFinding ==
  \A t \in Slots : At(t, "find_db") =>
    tasks[t].node \in Nodes /\ KnownBy(volunteers, tasks[t].node) = {}

IdentityInv ==
  /\ TypeInv
  /\ OneIdentity
  /\ OneRequest
  /\ AbsentWhileFinding

-----------------------------------------------------------------------------
(* Liveness.                                                               *)

\* The churn monitor: a volunteer whose heartbeats stopped is evicted, unless
\* one arrives after all.
DeadEvicted ==
  \A i \in Ids :
    (i \in DOMAIN volunteers /\ i \in Dead)
      ~> (i \notin DOMAIN volunteers \/ i \notin Dead)

Beating(i) == \E t \in Slots : At(t, "hb_weight") /\ tasks[t].id = i

\* "HAProxy lost state (e.g. after restart): re-add" (heartbeat): a volunteer
\* whose heartbeats keep coming does not stay out of backend `volunteers`.
ServerHeals ==
  \A i \in Ids : []<>Beating(i) => []<>(i \in DOMAIN volServers)

\* A volunteer whose row could not be written, or was removed by an eviction
\* that its heartbeat overtook, gets it back by heartbeats alone, so that a
\* restart of the registrar finds it.
RowHeals ==
  \A i \in Ids : []<>Beating(i) => []<>(i \in DOMAIN dbVol)

-----------------------------------------------------------------------------
(* Statements of the repository that the code does not keep.               *)

\* "Assigns it to the best free volunteer immediately" (services.rs): the
\* volunteer that receives a registered service has none at that moment.
AssignsFreeVolunteer ==
  [][\A t \in Slots :
       (At(t, "reg_set") /\ tasks'[t].pc = "idle" /\ boot'.pc = "serve"
          /\ tasks[t].id \in DOMAIN volunteers)
         => volunteers[tasks[t].id].svc = None]_vars

\* "Re-queue the service ... and drop the now-orphaned assignment row"
\* (churn.rs): at rest, no queued service has a volunteer and its row too.
RequeuedIsOrphaned ==
  AtRest => \A s \in Services :
              QueuedAt(s) # {} => Holders(s) = {} /\ s \notin Persisted

\* "the HAProxy svc_* and volunteers backends (already pointed at that port
\* by the registrar at enroll/assign time) stay correct" (agent.py): a service
\* whose volunteer keeps beating does not stay without a server.
RouteHeals ==
  \A i \in Ids, s \in Services :
    ([]<>Beating(i) /\ <>[](i \in DOMAIN volunteers /\ volunteers[i].svc = s))
      => []<>(s \in DOMAIN svcServers)

=============================================================================
