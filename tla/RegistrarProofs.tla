--------------------------- MODULE RegistrarProofs ---------------------------
(***************************************************************************)
(* Type correctness of Registrar and the stable identity of its nodes, for *)
(* every set of nodes, UUIDs, services, addresses and handlers.            *)
(***************************************************************************)
EXTENDS Registrar, MapTheorems

-----------------------------------------------------------------------------
(* The manager calls keep HAProxy's state well typed.                      *)

LEMMA StartWorkerType ==
  ASSUME NEW file \in SUBSET Services, StartWorker(file)
  PROVE  HAProxyTypeOK'
BY EmptyMapType DEF StartWorker, HAProxyTypeOK

LEMMA UpsertedType ==
  ASSUME NEW K, NEW m \in MapsOf(K, Server), NEW key \in K, NEW a \in Addrs
  PROVE  /\ Upserted(m, key, a) \in MapsOf(K, Server)
         /\ HalfUpserted(m, key, a) \in MapsOf(K, Server)
<1>1. [addr |-> a, state |-> "ready"] \in Server
  BY DEF Server
<1>2. [addr |-> a,
       state |-> IF key \in DOMAIN m THEN m[key].state ELSE "maint"] \in Server
  <2>1. key \in DOMAIN m => m[key] \in Server
    BY MapElim
  <2> QED
    BY <2>1 DEF Server
<1> QED
  BY <1>1, <1>2, PutType DEF Upserted, HalfUpserted

\* `set server ... state`
LEMMA SetStateType ==
  ASSUME NEW K, NEW m \in MapsOf(K, Server), NEW key \in DOMAIN m,
         NEW st \in {"ready", "maint"}
  PROVE  [m EXCEPT ![key].state = st] \in MapsOf(K, Server)
<1>1. DOMAIN m \in SUBSET K /\ m \in [DOMAIN m -> Server]
  BY MapElim
<1>2. [m[key] EXCEPT !.state = st] \in Server
  BY <1>1 DEF Server
<1>3. [m EXCEPT ![key].state = st] \in [DOMAIN m -> Server]
  BY <1>1, <1>2
<1> QED
  BY <1>1, <1>3, MapIntro

\* config::add_service, whether it succeeds or fails
LEMMA AddServiceType ==
  ASSUME HAProxyTypeOK, NEW s \in Services, add_service(s) \/ add_service_err(s)
  PROVE  HAProxyTypeOK'
<1>1. CASE add_service(s)
  <2>1. CASE s \in cfg
    BY <1>1, <2>1 DEF add_service, hapVars, HAProxyTypeOK
  <2>2. CASE s \notin cfg
    BY <1>1, <2>2, StartWorkerType DEF add_service, HAProxyTypeOK
  <2> QED
    BY <2>1, <2>2
<1>2. CASE add_service_err(s)
  BY <1>2 DEF add_service_err, hapVars, HAProxyTypeOK
<1> QED
  BY <1>1, <1>2

\* upsert_svc_server, whether it succeeds or fails
LEMMA UpsertSvcType ==
  ASSUME HAProxyTypeOK, NEW s \in Services, NEW a \in Addrs,
         \/ upsert_svc_server(s, a)
         \/ upsert_svc_server_nobackend(s)
         \/ upsert_svc_server_err(s, a)
  PROVE  HAProxyTypeOK'
BY UpsertedType DEF HAProxyTypeOK, hapVars, upsert_svc_server,
   upsert_svc_server_nobackend, upsert_svc_server_err

\* upsert_volunteer and add_volunteer, whether they succeed or fail
LEMMA UpsertVolunteerType ==
  ASSUME HAProxyTypeOK, NEW i \in Ids, NEW a \in Addrs,
         \/ upsert_volunteer(i, a) \/ upsert_volunteer_err(i, a)
         \/ add_volunteer(i, a) \/ add_volunteer_err(i, a)
  PROVE  HAProxyTypeOK'
<1>1. i \in DOMAIN volServers =>
        [volServers EXCEPT ![i].state = "ready"] \in MapsOf(Ids, Server)
  BY SetStateType DEF HAProxyTypeOK
<1> QED
  BY <1>1, UpsertedType DEF HAProxyTypeOK, upsert_volunteer,
     upsert_volunteer_err, add_volunteer, add_volunteer_err

\* remove_volunteer, whether it succeeds or fails
LEMMA RemoveVolunteerType ==
  ASSUME HAProxyTypeOK, NEW i \in Ids,
         remove_volunteer(i) \/ remove_volunteer_err(i)
  PROVE  HAProxyTypeOK'
<1>1. i \in DOMAIN volServers =>
        [volServers EXCEPT ![i].state = "maint"] \in MapsOf(Ids, Server)
  BY SetStateType DEF HAProxyTypeOK
<1> QED
  BY <1>1, DropType DEF HAProxyTypeOK, remove_volunteer, remove_volunteer_err

LEMMA InterruptedType ==
  ASSUME NEW K, NEW m \in MapsOf(K, Server), NEW key \in DOMAIN m,
         NEW a \in Addrs
  PROVE  Interrupted(m, key, a) \subseteq MapsOf(K, Server)
<1>1. [m EXCEPT ![key].state = "maint"] \in MapsOf(K, Server)
  BY SetStateType
<1>2. [m EXCEPT ![key] = [addr |-> a, state |-> "maint"]] \in MapsOf(K, Server)
  BY ExceptType DEF Server
<1> QED
  BY <1>1, <1>2 DEF Interrupted

\* update_volunteer_addr, whether it succeeds or fails
LEMMA UpdateAddrType ==
  ASSUME HAProxyTypeOK, NEW i \in Ids, NEW a \in Addrs, NEW s,
         \/ update_volunteer_addr(i, a, s # None, s)
         \/ update_volunteer_addr_err(i, a, s # None, s)
  PROVE  HAProxyTypeOK'
<1>1. s \in DOMAIN svcServers => s \in Services
  BY MapElim DEF HAProxyTypeOK
<1> QED
  BY <1>1, UpsertedType, InterruptedType DEF HAProxyTypeOK,
     update_volunteer_addr, update_volunteer_addr_err

-----------------------------------------------------------------------------
(* What every handler step has in common.                                  *)

\* A handler runs only once the routes are served.
LEMMA HandlerRest ==
  ASSUME TypeInv, NEW t \in Slots, ~Idle(t), UNCHANGED <<churn, boot>>
  PROVE  ChurnOK' /\ BootOK'
BY DEF TypeInv, ChurnOK, BootOK

\* A handler's record is replaced by another one that is in order.
LEMMA NewTask ==
  ASSUME TypeInv, NEW t \in Slots, NEW k \in Task, TaskOK(k),
         tasks' = [tasks EXCEPT ![t] = k]
  PROVE  tasks' \in [Slots -> Task] /\ \A u \in Slots : TaskOK(tasks'[u])
BY DEF TypeInv, TypeOK

\* get_mut: one field of a volunteer in the map is assigned.
LEMMA VolunteerFieldType ==
  ASSUME TypeOK, NEW i \in DOMAIN volunteers
  PROVE  /\ \A s \in Opt(Services) :
              [volunteers EXCEPT ![i].svc = s] \in MapsOf(Ids, Volunteer)
         /\ \A b \in BOOLEAN :
              [volunteers EXCEPT ![i].alive = b] \in MapsOf(Ids, Volunteer)
         /\ \A a \in Addrs :
              [volunteers EXCEPT ![i].addr = a] \in MapsOf(Ids, Volunteer)
<1>1. /\ DOMAIN volunteers \in SUBSET Ids
      /\ volunteers \in [DOMAIN volunteers -> Volunteer]
  BY MapElim DEF TypeOK
<1>2. volunteers[i] \in Volunteer
  BY <1>1
<1>3. ASSUME NEW s \in Opt(Services)
      PROVE  [volunteers EXCEPT ![i].svc = s] \in MapsOf(Ids, Volunteer)
  <2>1. [volunteers[i] EXCEPT !.svc = s] \in Volunteer
    BY <1>2 DEF Volunteer
  <2>2. [volunteers EXCEPT ![i].svc = s] \in [DOMAIN volunteers -> Volunteer]
    BY <1>1, <2>1
  <2> QED
    BY <1>1, <2>2, MapIntro
<1>4. ASSUME NEW b \in BOOLEAN
      PROVE  [volunteers EXCEPT ![i].alive = b] \in MapsOf(Ids, Volunteer)
  <2>1. [volunteers[i] EXCEPT !.alive = b] \in Volunteer
    BY <1>2 DEF Volunteer
  <2>2. [volunteers EXCEPT ![i].alive = b] \in [DOMAIN volunteers -> Volunteer]
    BY <1>1, <2>1
  <2> QED
    BY <1>1, <2>2, MapIntro
<1>5. ASSUME NEW a \in Addrs
      PROVE  [volunteers EXCEPT ![i].addr = a] \in MapsOf(Ids, Volunteer)
  <2>1. [volunteers[i] EXCEPT !.addr = a] \in Volunteer
    BY <1>2 DEF Volunteer
  <2>2. [volunteers EXCEPT ![i].addr = a] \in [DOMAIN volunteers -> Volunteer]
    BY <1>1, <2>1
  <2> QED
    BY <1>1, <2>2, MapIntro
<1> QED
  BY <1>3, <1>4, <1>5

LEMMA FinishTask ==
  ASSUME TypeInv, NEW t \in Slots, Finish(t)
  PROVE  tasks' \in [Slots -> Task] /\ \A u \in Slots : TaskOK(tasks'[u])
<1>1. IdleTask \in Task
  BY DEF IdleTask, Handler, Task, TaskPC, Opt
<1>2. TaskOK(IdleTask)
  BY DEF IdleTask, Handler, TaskOK, AgentPC, EnrollPC, HeartbeatPC, PortPC, RegisterPC
<1> QED
  BY <1>1, <1>2, NewTask DEF Finish

LEMMA GotoTask ==
  ASSUME TypeInv, NEW t \in Slots, NEW l \in TaskPC, Goto(t, l),
         TaskOK([tasks[t] EXCEPT !.pc = l])
  PROVE  tasks' \in [Slots -> Task] /\ \A u \in Slots : TaskOK(tasks'[u])
<1>1. [tasks[t] EXCEPT !.pc = l] \in Task
  BY DEF TypeInv, TypeOK, Task
<1>2. tasks' = [tasks EXCEPT ![t] = [tasks[t] EXCEPT !.pc = l]]
  BY DEF Goto, TypeInv, TypeOK
<1> QED
  BY <1>1, <1>2, NewTask

-----------------------------------------------------------------------------
(* Type correctness, handler by handler.                                   *)

LEMMA EnrollType ==
  ASSUME TypeInv, NEW t \in Slots, EnrollStep(t)
  PROVE  TypeInv'
<1> DEFINE T == tasks' \in [Slots -> Task] /\ \A u \in Slots : TaskOK(tasks'[u])
<1> USE DEF AgentPC, EnrollPC, HeartbeatPC, PortPC, RegisterPC, DisconnectPC, TaskPC
<1>0. tasks[t] \in Task /\ TaskOK(tasks[t])
  BY DEF TypeInv, TypeOK
<1>1. CASE EnrollFindDb(t)
  <2>1. PICK l \in {"asg_mem", "pop"}, i \in Ids :
          /\ tasks' = [tasks EXCEPT ![t].pc = l, ![t].id = i]
          /\ issued' \in SUBSET Ids
    BY <1>1, MapElim DEF EnrollFindDb, KnownBy, TypeInv, TypeOK
  <2>2. [tasks[t] EXCEPT !.pc = l, !.id = i] \in Task
    BY <1>0 DEF Task, Opt
  <2>3. TaskOK([tasks[t] EXCEPT !.pc = l, !.id = i])
    BY <1>0, <1>1 DEF TaskOK, Task, At, EnrollFindDb
  <2>4. T
    BY <2>1, <2>2, <2>3, NewTask DEF TypeInv, TypeOK
  <2> QED
    BY <1>1, <2>1, <2>4, HandlerRest DEF TypeInv, TypeOK, HAProxyTypeOK,
       EnrollFindDb, At, Idle, memVars, dbVars, hapVars
<1>2. CASE EnrollAsgMem(t)
  <2>1. PICK l \in {"cfg", "asg_db"}, s \in Opt(Services) :
          /\ tasks' = [tasks EXCEPT ![t].pc = l, ![t].svc = s]
          /\ l = "cfg" => s \in Services
    <3>1. tasks[t].id \in DOMAIN volunteers =>
            volunteers[tasks[t].id] \in Volunteer
      BY MapElim DEF TypeInv, TypeOK
    <3> QED
      BY <1>2, <3>1 DEF EnrollAsgMem, Opt, Volunteer
  <2>2. [tasks[t] EXCEPT !.pc = l, !.svc = s] \in Task
    BY <1>0 DEF Task
  <2>3. TaskOK([tasks[t] EXCEPT !.pc = l, !.svc = s])
    BY <1>0, <1>2, <2>1 DEF TaskOK, Task, At, EnrollAsgMem
  <2>4. T
    BY <2>1, <2>2, <2>3, NewTask DEF TypeInv, TypeOK
  <2> QED
    BY <1>2, <2>4, HandlerRest DEF TypeInv, TypeOK, HAProxyTypeOK,
       EnrollAsgMem, At, Idle, memVars, dbVars, hapVars, auxVars
<1>3. CASE EnrollAsgDb(t)
  <2>1. PICK l \in {"cfg", "pop"}, s \in Opt(Services) :
          /\ tasks' = [tasks EXCEPT ![t].pc = l, ![t].svc = s]
          /\ l = "cfg" => s \in Services
    <3>1. tasks[t].id \in DOMAIN dbAsg => dbAsg[tasks[t].id] \in Services
      BY MapElim DEF TypeInv, TypeOK
    <3> QED
      BY <1>3, <3>1 DEF EnrollAsgDb, Opt
  <2>2. [tasks[t] EXCEPT !.pc = l, !.svc = s] \in Task
    BY <1>0 DEF Task
  <2>3. TaskOK([tasks[t] EXCEPT !.pc = l, !.svc = s])
    BY <1>0, <1>3, <2>1 DEF TaskOK, Task, At, EnrollAsgDb
  <2>4. T
    BY <2>1, <2>2, <2>3, NewTask DEF TypeInv, TypeOK
  <2> QED
    BY <1>3, <2>4, HandlerRest DEF TypeInv, TypeOK, HAProxyTypeOK,
       EnrollAsgDb, At, Idle, memVars, dbVars, hapVars, auxVars
<1>4. CASE EnrollPop(t)
  <2>1. CASE pending = <<>>
    <3>1. Goto(t, "save") /\ UNCHANGED pending
      BY <1>4, <2>1 DEF EnrollPop
    <3>2. TaskOK([tasks[t] EXCEPT !.pc = "save"])
      BY <1>0, <1>4 DEF EnrollPop, At, TaskOK, Task
    <3>3. T
      BY <3>1, <3>2, GotoTask
    <3> QED
      BY <1>4, <3>1, <3>3, HandlerRest DEF TypeInv, TypeOK, HAProxyTypeOK,
         EnrollPop, At, Idle, dbVars, hapVars, auxVars
  <2>2. CASE pending # <<>>
    <3>1. Head(pending) \in Services /\ Tail(pending) \in Seq(Services)
      BY <2>2 DEF TypeInv, TypeOK
    <3> DEFINE k == [tasks[t] EXCEPT !.pc = "cfg", !.svc = Head(pending),
                                     !.queued = TRUE]
    <3>2. pending' = Tail(pending) /\ tasks' = [tasks EXCEPT ![t] = k]
      BY <1>4, <2>2 DEF EnrollPop, TypeInv, TypeOK
    <3>3. k \in Task
      BY <1>0, <3>1 DEF Task, Opt
    <3>4. TaskOK(k)
      BY <1>0, <1>4, <3>1 DEF EnrollPop, At, TaskOK, Task
    <3>5. T
      BY <3>2, <3>3, <3>4, NewTask
    <3> QED
      BY <1>4, <3>1, <3>2, <3>5, HandlerRest DEF TypeInv, TypeOK, HAProxyTypeOK,
         EnrollPop, At, Idle, dbVars, hapVars, auxVars
  <2> QED
    BY <2>1, <2>2
<1>5. CASE EnrollCfg(t) \/ EnrollPrimary(t)
  <2>1. tasks[t].svc \in Services /\ tasks[t].addr \in Addrs
    BY <1>0, <1>5 DEF EnrollCfg, EnrollPrimary, At, TaskOK
  <2>2. HAProxyTypeOK'
    BY <1>5, <2>1, AddServiceType, UpsertSvcType
       DEF EnrollCfg, EnrollPrimary, TypeInv, TypeOK
  <2>3. PICK l \in {"primary", "row", "push_front"} : Goto(t, l)
    BY <1>5 DEF EnrollCfg, EnrollPrimary, AssignFailed
  <2>4. TaskOK([tasks[t] EXCEPT !.pc = l])
    BY <1>0, <1>5 DEF EnrollCfg, EnrollPrimary, At, TaskOK, Task
  <2>5. T
    BY <2>3, <2>4, GotoTask
  <2>6. events' \in Nat
    BY <1>5 DEF EnrollCfg, EnrollPrimary, Event, TypeInv, TypeOK
  <2>7. ChurnOK' /\ BootOK'
    BY <1>5, HandlerRest DEF EnrollCfg, EnrollPrimary, At, Idle
  <2> QED
    BY <1>5, <2>2, <2>5, <2>6, <2>7 DEF TypeInv, TypeOK,
       EnrollCfg, EnrollPrimary, memVars, dbVars
<1>6. CASE EnrollPushFront(t)
  <2> DEFINE k == [tasks[t] EXCEPT !.pc = "save", !.svc = None]
  <2>1. tasks' = [tasks EXCEPT ![t] = k]
    BY <1>6 DEF EnrollPushFront, TypeInv, TypeOK
  <2>2. k \in Task
    BY <1>0 DEF Task, Opt
  <2>3. TaskOK(k)
    BY <1>0, <1>6 DEF EnrollPushFront, At, TaskOK, Task
  <2>4. T
    BY <2>1, <2>2, <2>3, NewTask
  <2>5. pending' \in Seq(Services)
    BY <1>0, <1>6 DEF EnrollPushFront, At, TaskOK, TypeInv, TypeOK
  <2> QED
    BY <1>6, <2>4, <2>5, HandlerRest DEF TypeInv, TypeOK, HAProxyTypeOK,
       EnrollPushFront, At, Idle, dbVars, hapVars, auxVars
<1>7. CASE EnrollRow(t)
  <2>1. TaskOK([tasks[t] EXCEPT !.pc = "save"])
    BY <1>0, <1>7 DEF EnrollRow, At, TaskOK, Task
  <2>2. T
    BY <1>7, <2>1, GotoTask DEF EnrollRow
  <2>3. dbAsg' \in MapsOf(Ids, Services)
    BY <1>0, <1>7, PutType DEF EnrollRow, At, TaskOK, TypeInv, TypeOK
  <2> QED
    BY <1>7, <2>2, <2>3, HandlerRest DEF TypeInv, TypeOK, HAProxyTypeOK,
       EnrollRow, At, Idle, memVars, hapVars, auxVars
<1>8. CASE EnrollSave(t)
  <2>1. TaskOK([tasks[t] EXCEPT !.pc = "insert"])
    BY <1>0, <1>8 DEF EnrollSave, At, TaskOK, Task
  <2>2. T
    BY <1>8, <2>1, GotoTask DEF EnrollSave
  <2>3. tasks[t].id \in Ids /\ RowOf(t) \in VolunteerRow
    BY <1>0, <1>8 DEF EnrollSave, At, TaskOK, RowOf, VolunteerRow
  <2>4. dbVol' \in MapsOf(Ids, VolunteerRow)
    BY <1>8, <2>3, PutType DEF EnrollSave, TypeInv, TypeOK
  <2> QED
    BY <1>8, <2>2, <2>4, HandlerRest DEF TypeInv, TypeOK, HAProxyTypeOK,
       EnrollSave, At, Idle, memVars, hapVars, auxVars
<1>9. CASE EnrollInsert(t)
  <2> DEFINE v == [node |-> tasks[t].node, addr |-> tasks[t].addr,
                   svc |-> tasks[t].svc, alive |-> TRUE]
  <2>1. TaskOK([tasks[t] EXCEPT !.pc = "upsert"])
    BY <1>0, <1>9 DEF EnrollInsert, At, TaskOK, Task
  <2>2. T
    BY <1>9, <2>1, GotoTask DEF EnrollInsert
  <2>3. tasks[t].id \in Ids /\ v \in Volunteer
    BY <1>0, <1>9 DEF EnrollInsert, At, TaskOK, Task, Volunteer
  <2>4. volunteers' \in MapsOf(Ids, Volunteer)
    BY <1>9, <2>3, PutType DEF EnrollInsert, TypeInv, TypeOK
  <2> QED
    BY <1>9, <2>2, <2>4, HandlerRest DEF TypeInv, TypeOK, HAProxyTypeOK,
       EnrollInsert, At, Idle, dbVars, hapVars, auxVars
<1>10. CASE EnrollUpsert(t)
  <2>1. T
    BY <1>10, FinishTask DEF EnrollUpsert
  <2>2. tasks[t].id \in Ids /\ tasks[t].addr \in Addrs
    BY <1>0, <1>10 DEF EnrollUpsert, At, TaskOK
  <2>3. HAProxyTypeOK' /\ events' \in Nat
    BY <1>10, <2>2, UpsertVolunteerType DEF EnrollUpsert, Event, TypeInv, TypeOK
  <2> QED
    BY <1>10, <2>1, <2>3, HandlerRest DEF TypeInv, TypeOK,
       EnrollUpsert, At, Idle, memVars, dbVars
<1> QED
  BY <1>1, <1>2, <1>3, <1>4, <1>5, <1>6, <1>7, <1>8, <1>9, <1>10 DEF EnrollStep

LEMMA RegisterType ==
  ASSUME TypeInv, NEW t \in Slots, RegisterStep(t)
  PROVE  TypeInv'
<1> DEFINE T == tasks' \in [Slots -> Task] /\ \A u \in Slots : TaskOK(tasks'[u])
<1> USE DEF AgentPC, EnrollPC, HeartbeatPC, PortPC, RegisterPC, DisconnectPC, TaskPC
<1>0. tasks[t] \in Task /\ TaskOK(tasks[t])
  BY DEF TypeInv, TypeOK
<1>1. CASE RegisterCfg(t) \/ RegisterPrimary(t)
  <2>1. tasks[t].svc \in Services /\ tasks[t].addr \in Addrs
    BY <1>0, <1>1 DEF RegisterCfg, RegisterPrimary, At, TaskOK
  <2>2. HAProxyTypeOK'
    BY <1>1, <2>1, AddServiceType, UpsertSvcType
       DEF RegisterCfg, RegisterPrimary, TypeInv, TypeOK
  <2>3. TaskOK([tasks[t] EXCEPT !.pc = "reg_row"])
    BY <1>0, <1>1 DEF RegisterCfg, RegisterPrimary, At, TaskOK, Task
  <2>4. TaskOK([tasks[t] EXCEPT !.pc = "reg_primary"])
    BY <1>0, <1>1 DEF RegisterCfg, RegisterPrimary, At, TaskOK, Task
  <2>5. T
    BY <1>1, <2>3, <2>4, GotoTask, FinishTask
       DEF RegisterCfg, RegisterPrimary, Refused
  <2>6. events' \in Nat
    BY <1>1 DEF RegisterCfg, RegisterPrimary, Event, TypeInv, TypeOK
  <2>7. owner' \in [Services -> {"new", "sent", "accepted"}]
    BY <1>1 DEF RegisterCfg, RegisterPrimary, Refused, TypeInv, TypeOK
  <2>8. ChurnOK' /\ BootOK'
    BY <1>1, HandlerRest DEF RegisterCfg, RegisterPrimary, At, Idle
  <2> QED
    BY <1>1, <2>2, <2>5, <2>6, <2>7, <2>8 DEF TypeInv, TypeOK,
       RegisterCfg, RegisterPrimary, memVars, dbVars
<1>2. CASE RegisterRow(t)
  <2>1. TaskOK([tasks[t] EXCEPT !.pc = "reg_set"])
    BY <1>0, <1>2 DEF RegisterRow, At, TaskOK, Task
  <2>2. T
    BY <1>2, <2>1, GotoTask DEF RegisterRow
  <2>3. dbAsg' \in MapsOf(Ids, Services)
    BY <1>0, <1>2, PutType DEF RegisterRow, At, TaskOK, TypeInv, TypeOK
  <2> QED
    BY <1>2, <2>2, <2>3, HandlerRest DEF TypeInv, TypeOK, HAProxyTypeOK,
       RegisterRow, At, Idle, memVars, hapVars, auxVars
<1>3. CASE RegisterSet(t)
  <2>1. T
    BY <1>3, FinishTask DEF RegisterSet
  <2>2. tasks[t].svc \in Services
    BY <1>0, <1>3 DEF RegisterSet, At, TaskOK
  <2>3. volunteers' \in MapsOf(Ids, Volunteer)
    BY <1>3, <2>2, VolunteerFieldType DEF RegisterSet, Opt, TypeInv, TypeOK
  <2>4. owner' \in [Services -> {"new", "sent", "accepted"}]
    BY <1>3 DEF RegisterSet, Created, TypeInv, TypeOK
  <2> QED
    BY <1>3, <2>1, <2>3, <2>4, HandlerRest DEF TypeInv, TypeOK, HAProxyTypeOK,
       RegisterSet, At, Idle, dbVars, hapVars
<1>4. CASE RegisterQueue(t)
  <2>1. T
    BY <1>4, FinishTask DEF RegisterQueue
  <2>2. pending' \in Seq(Services)
    BY <1>0, <1>4 DEF RegisterQueue, At, TaskOK, TypeInv, TypeOK
  <2>3. owner' \in [Services -> {"new", "sent", "accepted"}]
    BY <1>4 DEF RegisterQueue, Created, TypeInv, TypeOK
  <2> QED
    BY <1>4, <2>1, <2>2, <2>3, HandlerRest DEF TypeInv, TypeOK, HAProxyTypeOK,
       RegisterQueue, At, Idle, dbVars, hapVars
<1> QED
  BY <1>1, <1>2, <1>3, <1>4 DEF RegisterStep

\* heartbeat, update_tunnel_port and disconnect
LEMMA UpkeepType ==
  ASSUME TypeInv, NEW t \in Slots,
         HeartbeatStep(t) \/ PortStep(t) \/ DisconnectStep(t)
  PROVE  TypeInv'
<1> DEFINE T == tasks' \in [Slots -> Task] /\ \A u \in Slots : TaskOK(tasks'[u])
<1> USE DEF AgentPC, EnrollPC, HeartbeatPC, PortPC, RegisterPC, DisconnectPC, TaskPC
<1>0. tasks[t] \in Task /\ TaskOK(tasks[t])
  BY DEF TypeInv, TypeOK
<1>1. CASE HeartbeatSave(t) \/ PortSave(t)
  <2>1. PICK l \in {"hb_weight", "port_addr"} : Goto(t, l)
    BY <1>1 DEF HeartbeatSave, PortSave
  <2>2. TaskOK([tasks[t] EXCEPT !.pc = l])
    BY <1>0, <1>1 DEF HeartbeatSave, PortSave, At, TaskOK, Task
  <2>3. T
    BY <2>1, <2>2, GotoTask
  <2>4. tasks[t].id \in Ids /\ RowOf(t) \in VolunteerRow
    BY <1>0, <1>1 DEF HeartbeatSave, PortSave, At, TaskOK, RowOf, VolunteerRow
  <2>5. dbVol' \in MapsOf(Ids, VolunteerRow)
    BY <1>1, <2>4, PutType DEF HeartbeatSave, PortSave, TypeInv, TypeOK
  <2>6. ChurnOK' /\ BootOK'
    BY <1>1, HandlerRest DEF HeartbeatSave, PortSave, At, Idle
  <2> QED
    BY <1>1, <2>3, <2>5, <2>6 DEF TypeInv, TypeOK, HAProxyTypeOK,
       HeartbeatSave, PortSave, memVars, hapVars, auxVars
<1>2. CASE HeartbeatWeight(t)
  <2>1. TaskOK([tasks[t] EXCEPT !.pc = "hb_add"])
    BY <1>0, <1>2 DEF HeartbeatWeight, At, TaskOK, Task
  <2>2. T
    BY <1>2, <2>1, GotoTask, FinishTask DEF HeartbeatWeight
  <2>3. events' \in Nat
    BY <1>2 DEF HeartbeatWeight, Event, TypeInv, TypeOK
  <2>4. ChurnOK' /\ BootOK'
    BY <1>2, HandlerRest DEF HeartbeatWeight, At, Idle
  <2> QED
    BY <1>2, <2>2, <2>3, <2>4 DEF TypeInv, TypeOK, HAProxyTypeOK,
       HeartbeatWeight, memVars, dbVars, hapVars
<1>3. CASE HeartbeatAdd(t)
  <2>1. T
    BY <1>3, FinishTask DEF HeartbeatAdd
  <2>2. tasks[t].id \in Ids /\ tasks[t].addr \in Addrs
    BY <1>0, <1>3 DEF HeartbeatAdd, At, TaskOK
  <2>3. HAProxyTypeOK' /\ events' \in Nat
    BY <1>3, <2>2, UpsertVolunteerType DEF HeartbeatAdd, Event, TypeInv, TypeOK
  <2> QED
    BY <1>3, <2>1, <2>3, HandlerRest DEF TypeInv, TypeOK,
       HeartbeatAdd, At, Idle, memVars, dbVars
<1>4. CASE PortAddr(t)
  <2>1. T
    BY <1>4, FinishTask DEF PortAddr
  <2>2. tasks[t].id \in Ids /\ tasks[t].addr \in Addrs
    BY <1>0, <1>4 DEF PortAddr, At, TaskOK
  <2>3. HAProxyTypeOK' /\ events' \in Nat
    <3>1. events' \in Nat
      BY <1>4 DEF PortAddr, Event, TypeInv, TypeOK
    <3>2. HAProxyTypeOK
      BY DEF TypeInv, TypeOK
    <3> DEFINE s == tasks[t].svc
               i == tasks[t].id
               a == tasks[t].addr
    <3>3. \/ update_volunteer_addr(i, a, s # None, s)
          \/ update_volunteer_addr_err(i, a, s # None, s)
      BY <1>4 DEF PortAddr
    <3>4. i \in Ids /\ a \in Addrs
      BY <2>2
    <3> HIDE DEF i, a, s
    <3>5. HAProxyTypeOK'
      BY <3>2, <3>3, <3>4, UpdateAddrType
    <3> QED
      BY <3>1, <3>5
  <2> QED
    BY <1>4, <2>1, <2>3, HandlerRest DEF TypeInv, TypeOK,
       PortAddr, At, Idle, memVars, dbVars
<1>5. CASE DisconnectRow(t)
  <2>1. TaskOK([tasks[t] EXCEPT !.pc = "dis_server"])
    BY <1>0, <1>5 DEF DisconnectRow, At, TaskOK, Task
  <2>2. T
    BY <1>5, <2>1, GotoTask DEF DisconnectRow
  <2>3. dbVol' \in MapsOf(Ids, VolunteerRow)
    BY <1>5, DropType DEF DisconnectRow, TypeInv, TypeOK
  <2> QED
    BY <1>5, <2>2, <2>3, HandlerRest DEF TypeInv, TypeOK, HAProxyTypeOK,
       DisconnectRow, At, Idle, memVars, hapVars, auxVars
<1>6. CASE DisconnectServer(t)
  <2>1. T
    BY <1>6, FinishTask DEF DisconnectServer
  <2>2. tasks[t].id \in Ids
    BY <1>0, <1>6 DEF DisconnectServer, At, TaskOK
  <2>3. HAProxyTypeOK' /\ events' \in Nat
    BY <1>6, <2>2, RemoveVolunteerType DEF DisconnectServer, Event, TypeInv, TypeOK
  <2> QED
    BY <1>6, <2>1, <2>3, HandlerRest DEF TypeInv, TypeOK,
       DisconnectServer, At, Idle, memVars, dbVars
<1> QED
  BY <1>1, <1>2, <1>3, <1>4, <1>5, <1>6
     DEF HeartbeatStep, PortStep, DisconnectStep

LEMMA ArrivalType ==
  ASSUME TypeInv, NEW t \in Slots, Arrival(t)
  PROVE  TypeInv'
<1> DEFINE T == tasks' \in [Slots -> Task] /\ \A u \in Slots : TaskOK(tasks'[u])
<1> USE DEF AgentPC, EnrollPC, HeartbeatPC, PortPC, RegisterPC, DisconnectPC, TaskPC
<1>0. boot.pc = "serve" /\ UNCHANGED <<churn, boot>>
  BY DEF Arrival, MayStart, EnrollStart, RegisterStart, HeartbeatStart,
     PortStart, DisconnectStart
<1>1. ChurnOK' /\ BootOK'
  BY <1>0 DEF TypeInv, ChurnOK, BootOK
<1>2. ASSUME NEW n \in Hosts, NEW a \in Addrs, EnrollStart(t, n, a)
      PROVE  TypeInv'
  <2>1. PICK l \in {"pop", "asg_mem", "find_db"}, i \in Opt(Ids) :
          /\ Begin(t, Handler(l, n, i, None, a))
          /\ l # "find_db" => i \in Ids
          /\ l = "find_db" => i = None
          /\ issued' \in SUBSET Ids
    <3>1. KnownBy(volunteers, n) \subseteq Ids
      BY MapElim DEF KnownBy, TypeInv, TypeOK
    <3> QED
      BY <1>2, <3>1 DEF EnrollStart, Opt, TypeInv, TypeOK
  <2> DEFINE k == Handler(l, n, i, None, a)
  <2>2. k \in Task
    BY DEF Handler, Task, Opt
  <2>3. TaskOK(k)
    BY <2>1 DEF Handler, TaskOK
  <2>4. T
    BY <2>1, <2>2, <2>3, NewTask DEF Begin
  <2> QED
    BY <1>1, <1>2, <2>1, <2>4 DEF EnrollStart, TypeInv, TypeOK, HAProxyTypeOK,
       memVars, dbVars, hapVars
<1>3. ASSUME NEW s \in Services, RegisterStart(t, s)
      PROVE  TypeInv'
  <2>1. PICK l \in {"reg_cfg", "reg_queue"}, i \in Opt(Ids), a \in Opt(Addrs) :
          /\ Begin(t, Handler(l, None, i, s, a))
          /\ l = "reg_cfg" => i \in Ids /\ a \in Addrs
    <3>1. \A i \in DOMAIN volunteers : i \in Ids /\ volunteers[i] \in Volunteer
      BY MapElim DEF TypeInv, TypeOK
    <3> QED
      BY <1>3, <3>1 DEF RegisterStart, Free, Volunteer, Opt
  <2> DEFINE k == Handler(l, None, i, s, a)
  <2>2. k \in Task
    BY DEF Handler, Task, Opt
  <2>3. TaskOK(k)
    BY <2>1 DEF Handler, TaskOK
  <2>4. T
    BY <2>1, <2>2, <2>3, NewTask DEF Begin
  <2>5. owner' \in [Services -> {"new", "sent", "accepted"}]
    BY <1>3 DEF RegisterStart, TypeInv, TypeOK
  <2> QED
    BY <1>1, <1>3, <2>4, <2>5 DEF RegisterStart, TypeInv, TypeOK, HAProxyTypeOK,
       memVars, dbVars, hapVars
<1>4. ASSUME NEW i \in Ids, HeartbeatStart(t, i)
      PROVE  TypeInv'
  <2> DEFINE k == Handler("hb_save", volunteers[i].node, i, None,
                          volunteers[i].addr)
  <2>1. i \in DOMAIN volunteers /\ volunteers[i] \in Volunteer
    BY <1>4, MapElim DEF HeartbeatStart, TypeInv, TypeOK
  <2>2. k \in Task
    BY <2>1 DEF Handler, Task, Opt, Volunteer
  <2>3. TaskOK(k)
    BY <2>1 DEF Handler, TaskOK, Volunteer
  <2>4. T
    BY <1>4, <2>2, <2>3, NewTask DEF HeartbeatStart, Begin
  <2>5. volunteers' \in MapsOf(Ids, Volunteer)
    BY <1>4, <2>1, VolunteerFieldType DEF HeartbeatStart, TypeInv
  <2> QED
    BY <1>1, <1>4, <2>4, <2>5 DEF HeartbeatStart, TypeInv, TypeOK, HAProxyTypeOK,
       dbVars, hapVars, auxVars
<1>5. ASSUME NEW i \in Ids, NEW a \in Addrs, PortStart(t, i, a)
      PROVE  TypeInv'
  <2> DEFINE k == Handler("port_save", volunteers[i].node, i, volunteers[i].svc, a)
  <2>1. i \in DOMAIN volunteers /\ volunteers[i] \in Volunteer
    BY <1>5, MapElim DEF PortStart, TypeInv, TypeOK
  <2>2. k \in Task
    BY <2>1 DEF Handler, Task, Opt, Volunteer
  <2>3. TaskOK(k)
    BY <2>1 DEF Handler, TaskOK, Volunteer
  <2>4. T
    BY <1>5, <2>2, <2>3, NewTask DEF PortStart, Begin
  <2>5. volunteers' \in MapsOf(Ids, Volunteer)
    BY <1>5, <2>1, VolunteerFieldType DEF PortStart, TypeInv
  <2> QED
    BY <1>1, <1>5, <2>4, <2>5 DEF PortStart, TypeInv, TypeOK, HAProxyTypeOK,
       dbVars, hapVars, auxVars
<1>6. ASSUME NEW i \in Ids, DisconnectStart(t, i)
      PROVE  TypeInv'
  <2> DEFINE k == Handler("dis_row", None, i, None, None)
  <2>1. i \in DOMAIN volunteers /\ volunteers[i] \in Volunteer
    BY <1>6, MapElim DEF DisconnectStart, TypeInv, TypeOK
  <2>2. k \in Task
    BY DEF Handler, Task, Opt
  <2>3. TaskOK(k)
    BY DEF Handler, TaskOK
  <2>4. T
    BY <1>6, <2>2, <2>3, NewTask DEF DisconnectStart, Begin
  <2>5. volunteers' \in MapsOf(Ids, Volunteer)
    BY <1>6, DropType DEF DisconnectStart, TypeInv, TypeOK
  <2>6. lost' \in SUBSET Services
    BY <1>6, <2>1 DEF DisconnectStart, TypeInv, TypeOK, Volunteer, Opt
  <2> QED
    BY <1>1, <1>6, <2>4, <2>5, <2>6 DEF DisconnectStart, TypeInv, TypeOK,
       HAProxyTypeOK, dbVars, hapVars
<1> QED
  BY <1>2, <1>3, <1>4, <1>5, <1>6 DEF Arrival

LEMMA ChurnType ==
  ASSUME TypeInv, ChurnStep
  PROVE  TypeInv'
<1>0. /\ churn \in ChurnState
      /\ churn.dead \in MapsOf(Ids, Opt(Services))
      /\ \A i \in DOMAIN churn.dead : i \in Ids /\ churn.dead[i] \in Opt(Services)
  BY MapElim DEF TypeInv, TypeOK, ChurnState
<1>1. CASE ChurnScan
  <2>1. [i \in Dead |-> volunteers[i].svc] \in MapsOf(Ids, Opt(Services))
    <3>1. \A i \in DOMAIN volunteers : i \in Ids /\ volunteers[i] \in Volunteer
      BY MapElim DEF TypeInv, TypeOK
    <3>2. Dead \in SUBSET Ids
      BY <3>1 DEF Dead
    <3>3. [i \in Dead |-> volunteers[i].svc] \in [Dead -> Opt(Services)]
      BY <3>1 DEF Dead, Volunteer
    <3> QED
      BY <3>2, <3>3, MapIntro
  <2>2. churn' \in ChurnState
    BY <1>1, <2>1 DEF ChurnScan, ChurnState, Opt
  <2>3. ChurnOK' /\ BootOK'
    BY <1>1 DEF ChurnScan, ChurnOK, BootOK
  <2> QED
    BY <1>1, <2>2, <2>3 DEF ChurnScan, TypeInv, TypeOK, HAProxyTypeOK,
       memVars, dbVars, hapVars, auxVars
<1>2. ASSUME NEW i \in Ids, ChurnEvict(i)
      PROVE  TypeInv'
  <2>1. churn' \in ChurnState
    BY <1>0, <1>2 DEF ChurnEvict, ChurnState, Opt
  <2>2. volunteers' \in MapsOf(Ids, Volunteer)
    BY <1>2, DropType DEF ChurnEvict, TypeInv, TypeOK
  <2>3. ChurnOK'
    BY <1>0, <1>2 DEF ChurnEvict, ChurnOK, ChurnState
  <2>4. BootOK'
    BY <1>2 DEF ChurnEvict, BootOK, TypeInv, IdleChurn
  <2> QED
    BY <1>2, <2>1, <2>2, <2>3, <2>4 DEF ChurnEvict, TypeInv, TypeOK, HAProxyTypeOK,
       dbVars, hapVars, auxVars
<1>3. CASE ChurnRow
  <2>1. churn' \in ChurnState
    BY <1>0, <1>3 DEF ChurnRow, ChurnState
  <2>2. dbVol' \in MapsOf(Ids, VolunteerRow)
    BY <1>3, DropType DEF ChurnRow, TypeInv, TypeOK
  <2>3. ChurnOK'
    BY <1>0, <1>3 DEF ChurnRow, ChurnOK, ChurnState, TypeInv
  <2>4. BootOK'
    BY <1>3 DEF ChurnRow, BootOK, TypeInv, IdleChurn
  <2> QED
    BY <1>3, <2>1, <2>2, <2>3, <2>4 DEF ChurnRow, TypeInv, TypeOK, HAProxyTypeOK,
       memVars, hapVars, auxVars
<1>4. ASSUME ChurnNext
      PROVE  churn' \in ChurnState /\ ChurnOK'
  <2>1. Drop(churn.dead, churn.id) \in MapsOf(Ids, Opt(Services))
    BY <1>0, DropType
  <2>2. EmptyMap \in MapsOf(Ids, Opt(Services))
    BY EmptyMapType
  <2> QED
    BY <1>4, <2>1, <2>2 DEF ChurnNext, ChurnState, IdleChurn, Opt, ChurnOK
<1>5. CASE ChurnServer
  <2>1. churn.id \in Ids
    BY <1>0, <1>5 DEF ChurnServer, ChurnOK, TypeInv
  <2>2. HAProxyTypeOK' /\ events' \in Nat
    BY <1>5, <2>1, RemoveVolunteerType DEF ChurnServer, Event, TypeInv, TypeOK
  <2>3. churn' \in ChurnState /\ ChurnOK'
    <3>1. CASE churn.dead[churn.id] # None
      BY <1>0, <1>5, <3>1 DEF ChurnServer, ChurnState, ChurnOK, TypeInv
    <3>2. CASE churn.dead[churn.id] = None
      BY <1>4, <1>5, <3>2 DEF ChurnServer
    <3> QED
      BY <3>1, <3>2
  <2>4. BootOK'
    BY <1>5 DEF ChurnServer, BootOK, TypeInv, IdleChurn
  <2> QED
    BY <1>5, <2>2, <2>3, <2>4 DEF ChurnServer, TypeInv, TypeOK, memVars, dbVars
<1>6. CASE ChurnUnassign
  <2>1. churn' \in ChurnState
    BY <1>0, <1>6 DEF ChurnUnassign, ChurnState
  <2>2. dbAsg' \in MapsOf(Ids, Services)
    BY <1>6, DropType DEF ChurnUnassign, TypeInv, TypeOK
  <2>3. ChurnOK'
    BY <1>0, <1>6 DEF ChurnUnassign, ChurnOK, ChurnState, TypeInv
  <2>4. BootOK'
    BY <1>6 DEF ChurnUnassign, BootOK, TypeInv, IdleChurn
  <2> QED
    BY <1>6, <2>1, <2>2, <2>3, <2>4 DEF ChurnUnassign, TypeInv, TypeOK,
       HAProxyTypeOK, memVars, hapVars, auxVars
<1>7. CASE ChurnRequeue
  <2>1. churn.dead[churn.id] \in Services
    BY <1>0, <1>7 DEF ChurnRequeue, ChurnOK, TypeInv, Opt
  <2>2. pending' \in Seq(Services)
    BY <1>7, <2>1 DEF ChurnRequeue, TypeInv, TypeOK
  <2>3. churn' \in ChurnState /\ ChurnOK'
    BY <1>4, <1>7 DEF ChurnRequeue
  <2>4. BootOK'
    BY <1>7 DEF ChurnRequeue, BootOK, TypeInv, IdleChurn
  <2> QED
    BY <1>7, <2>2, <2>3, <2>4 DEF ChurnRequeue, TypeInv, TypeOK,
       HAProxyTypeOK, dbVars, hapVars, auxVars
<1> QED
  BY <1>1, <1>2, <1>3, <1>5, <1>6, <1>7 DEF ChurnStep

LEMMA BootType ==
  ASSUME TypeInv, BootStep
  PROVE  TypeInv'
<1>0. /\ boot \in BootState
      /\ \A t \in Slots : TaskOK(tasks[t])
      /\ \A i \in DOMAIN volunteers : i \in Ids /\ volunteers[i] \in Volunteer
      /\ DOMAIN volunteers \subseteq Ids
  BY MapElim DEF TypeInv, TypeOK
<1>1. boot.pc # "serve" /\ UNCHANGED <<tasks, churn>>
  BY DEF BootStep, BootPrune, BootLoad, BootPass1, BootPass1Done, BootPass2,
     BootServe
<1>2. /\ \A t \in Slots : Idle(t)
      /\ churn = IdleChurn
      /\ boot.todo \subseteq DOMAIN volunteers
  BY <1>1 DEF TypeInv, BootOK
<1>3. ChurnOK' /\ \A t \in Slots : TaskOK(tasks[t])'
  BY <1>0, <1>1 DEF TypeInv, ChurnOK
<1>4. ASSUME boot'.todo \subseteq DOMAIN volunteers'
      PROVE  BootOK'
  BY <1>1, <1>2, <1>4 DEF BootOK, Idle
<1>5. CASE BootPrune
  <2> DEFINE kept == [i \in DOMAIN dbAsg \cap DOMAIN dbVol |-> dbAsg[i]]
  <2>1. kept \in MapsOf(Ids, Services)
    <3>1. DOMAIN dbAsg \cap DOMAIN dbVol \in SUBSET Ids
      BY MapElim DEF TypeInv, TypeOK
    <3>2. kept \in [DOMAIN dbAsg \cap DOMAIN dbVol -> Services]
      BY MapElim DEF TypeInv, TypeOK
    <3> QED
      BY <3>1, <3>2, MapIntro
  <2>2. boot' \in BootState /\ boot'.todo = boot.todo
    BY <1>0, <1>5 DEF BootPrune, BootState
  <2> QED
    BY <1>2, <1>3, <1>4, <1>5, <2>1, <2>2 DEF BootPrune, TypeInv, TypeOK,
       HAProxyTypeOK, memVars, hapVars, auxVars
<1>6. CASE BootLoad
  <2> DEFINE row(i) == [node |-> dbVol[i].node, addr |-> dbVol[i].addr,
                        svc |-> IF i \in DOMAIN dbAsg THEN dbAsg[i] ELSE None,
                        alive |-> TRUE]
  <2>1. volunteers' = [i \in DOMAIN dbVol |-> row(i)]
    BY <1>6 DEF BootLoad
  <2>2. \A i \in DOMAIN dbVol : i \in Ids /\ dbVol[i] \in VolunteerRow
    BY MapElim DEF TypeInv, TypeOK
  <2>3. \A i \in DOMAIN dbAsg : dbAsg[i] \in Services
    BY MapElim DEF TypeInv, TypeOK
  <2>4. \A i \in DOMAIN dbVol : row(i) \in Volunteer
    BY <2>2, <2>3 DEF VolunteerRow, Volunteer, Opt
  <2>5. [i \in DOMAIN dbVol |-> row(i)] \in [DOMAIN dbVol -> Volunteer]
    BY <2>4
  <2>6. DOMAIN dbVol \in SUBSET Ids
    BY <2>2
  <2>7. volunteers' \in MapsOf(Ids, Volunteer) /\ DOMAIN volunteers' = DOMAIN dbVol
    BY <2>1, <2>5, <2>6, MapIntro
  <2>8. boot' \in BootState /\ boot'.todo = DOMAIN dbVol
    BY <1>0, <1>6, <2>6 DEF BootLoad, BootState
  <2>9. BootOK'
    BY <1>4, <2>7, <2>8
  <2> QED
    BY <1>3, <1>6, <2>7, <2>8, <2>9 DEF BootLoad, TypeInv, TypeOK,
       HAProxyTypeOK, dbVars, hapVars, auxVars
<1>7. ASSUME NEW i \in Ids, BootPass1(i)
      PROVE  TypeInv'
  <2>1. i \in DOMAIN volunteers /\ volunteers[i] \in Volunteer
    BY <1>0, <1>2, <1>7 DEF BootPass1
  <2>2. volunteers[i].svc # None => volunteers[i].svc \in Services
    BY <2>1 DEF Volunteer, Opt
  <2>3. HAProxyTypeOK'
    <3>1. CASE UNCHANGED hapVars
      BY <3>1 DEF hapVars, HAProxyTypeOK, TypeInv, TypeOK
    <3>2. CASE volunteers[i].svc # None /\ add_service(volunteers[i].svc)
      BY <2>2, <3>2, AddServiceType DEF TypeInv, TypeOK
    <3>3. CASE volunteers[i].svc # None /\ add_service_err(volunteers[i].svc)
      BY <2>2, <3>3, AddServiceType DEF TypeInv, TypeOK
    <3> QED
      BY <1>7, <3>1, <3>2, <3>3 DEF BootPass1
  <2>4. events' \in Nat
    <3>1. UNCHANGED events \/ Event("haproxy_err")
      BY <1>7 DEF BootPass1
    <3> QED
      BY <3>1 DEF Event, TypeInv, TypeOK
  <2>5. boot' \in BootState /\ boot'.todo \subseteq boot.todo
    <3>1. PICK ok \in BOOLEAN : boot' = [boot EXCEPT !.todo = @ \ {i}, !.clean = @ /\ ok]
      BY <1>7 DEF BootPass1, Treated
    <3> QED
      BY <1>0, <3>1 DEF BootState
  <2>6. BootOK'
    BY <1>2, <1>4, <1>7, <2>5 DEF BootPass1, memVars
  <2> QED
    BY <1>3, <1>7, <2>3, <2>4, <2>5, <2>6 DEF BootPass1, TypeInv, TypeOK,
       memVars, dbVars
<1>8. CASE BootPass1Done
  <2>1. boot' \in BootState /\ boot'.todo = DOMAIN volunteers
    BY <1>0, <1>8 DEF BootPass1Done, BootState
  <2>2. BootOK'
    BY <1>4, <1>8, <2>1 DEF BootPass1Done, memVars
  <2> QED
    BY <1>3, <1>8, <2>1, <2>2 DEF BootPass1Done, TypeInv, TypeOK,
       HAProxyTypeOK, memVars, dbVars, hapVars, auxVars
<1>9. ASSUME NEW i \in Ids, BootPass2(i)
      PROVE  TypeInv'
  <2>1. volunteers[i] \in Volunteer
    BY <1>0, <1>2, <1>9 DEF BootPass2
  <2>2. /\ volunteers[i].addr \in Addrs
        /\ volunteers[i].svc # None => volunteers[i].svc \in Services
    BY <2>1 DEF Volunteer, Opt
  <2>3. HAProxyTypeOK
    BY DEF TypeInv, TypeOK
  <2>4. HAProxyTypeOK'
    <3> DEFINE a == volunteers[i].addr
               s == volunteers[i].svc
    <3>1. /\ Upserted(volServers, i, a) \in MapsOf(Ids, Server)
          /\ HalfUpserted(volServers, i, a) \in MapsOf(Ids, Server)
      BY <2>2, <2>3, UpsertedType DEF HAProxyTypeOK
    <3>2. s # None =>
            /\ Upserted(svcServers, s, a) \in MapsOf(Services, Server)
            /\ HalfUpserted(svcServers, s, a) \in MapsOf(Services, Server)
      BY <2>2, <2>3, UpsertedType DEF HAProxyTypeOK
    <3>3. volServers' \in {volServers, HalfUpserted(volServers, i, a),
                           Upserted(volServers, i, a)}
      BY <1>9 DEF BootPass2
    <3>4. \/ svcServers' = svcServers
          \/ s # None /\ svcServers' \in {HalfUpserted(svcServers, s, a),
                                          Upserted(svcServers, s, a)}
      BY <1>9 DEF BootPass2
    <3>5. UNCHANGED <<cfg, loaded>>
      BY <1>9 DEF BootPass2
    <3> QED
      BY <2>3, <3>1, <3>2, <3>3, <3>4, <3>5 DEF HAProxyTypeOK
  <2>5. events' \in Nat
    <3>1. UNCHANGED events \/ Event("haproxy_err")
      BY <1>9 DEF BootPass2
    <3> QED
      BY <3>1 DEF Event, TypeInv, TypeOK
  <2>6. boot' \in BootState /\ boot'.todo \subseteq boot.todo
    <3>1. PICK ok \in BOOLEAN : boot' = [boot EXCEPT !.todo = @ \ {i}, !.clean = @ /\ ok]
      BY <1>9 DEF BootPass2, Treated
    <3> QED
      BY <1>0, <3>1 DEF BootState
  <2>7. BootOK'
    BY <1>2, <1>4, <1>9, <2>6 DEF BootPass2, memVars
  <2> QED
    BY <1>3, <1>9, <2>4, <2>5, <2>6, <2>7 DEF BootPass2, TypeInv, TypeOK,
       memVars, dbVars
<1>10. CASE BootServe
  <2>1. boot' \in BootState /\ boot'.todo = boot.todo
    BY <1>0, <1>10 DEF BootServe, BootState
  <2>2. BootOK'
    BY <1>2, <1>4, <1>10, <2>1 DEF BootServe, memVars
  <2> QED
    BY <1>3, <1>10, <2>1, <2>2 DEF BootServe, TypeInv, TypeOK,
       HAProxyTypeOK, memVars, dbVars, hapVars, auxVars
<1> QED
  BY <1>5, <1>6, <1>7, <1>8, <1>9, <1>10 DEF BootStep

\* A restarted registrar is in order, whatever HAProxy is left with.
LEMMA ResetType ==
  ASSUME TypeInv, Reset, HAProxyTypeOK', events' \in Nat
  PROVE  TypeInv'
<1>1. IdleTask \in Task /\ TaskOK(IdleTask)
  BY DEF IdleTask, Handler, Task, TaskPC, Opt, TaskOK, AgentPC, EnrollPC,
     HeartbeatPC, PortPC, RegisterPC
<1>2. tasks' \in [Slots -> Task] /\ \A t \in Slots : TaskOK(tasks[t])'
  BY <1>1 DEF Reset
<1>3. churn' \in ChurnState /\ ChurnOK'
  <2>1. EmptyMap \in MapsOf(Ids, Opt(Services))
    BY EmptyMapType
  <2> QED
    BY <2>1 DEF Reset, IdleChurn, ChurnState, ChurnOK, Opt
<1>4. boot' \in BootState /\ BootOK'
  BY DEF Reset, Booting, BootState, BootOK, Idle, IdleTask, Handler
<1>5. volunteers' \in MapsOf(Ids, Volunteer) /\ pending' \in Seq(Services)
  BY EmptyMapType DEF Reset
<1>6. lost' \in SUBSET Services
  BY DEF Reset, Accepted, TypeInv, TypeOK
<1> QED
  BY <1>2, <1>3, <1>4, <1>5, <1>6 DEF Reset, TypeInv, TypeOK, dbVars

\* A failing SQL statement leaves a state from which the caller can go on.
LEMMA SqlErrorType ==
  ASSUME TypeInv,
         \/ \E t \in Slots : WriteFails(t) \/ QueryFails(t)
         \/ ChurnWriteFails \/ BootSqlFails
  PROVE  TypeInv'
<1>0. /\ HAProxyTypeOK /\ HAProxyTypeOK' /\ events' \in Nat
      /\ UNCHANGED <<dbVol, dbAsg, pending, owner, lost>>
  <2>1. UNCHANGED <<hapVars, dbVars, pending, owner, lost>>
    BY DEF WriteFails, QueryFails, ChurnWriteFails, BootSqlFails, memVars
  <2>2. \E e \in Env : Event(e)
    BY DEF WriteFails, QueryFails, ChurnWriteFails, BootSqlFails, Event
  <2>3. events' \in Nat
    BY <2>2 DEF Event, TypeInv, TypeOK
  <2>4. HAProxyTypeOK /\ HAProxyTypeOK'
    BY <2>1 DEF TypeInv, TypeOK, HAProxyTypeOK, hapVars
  <2> QED
    BY <2>1, <2>3, <2>4 DEF dbVars
<1>1. ASSUME NEW t \in Slots, WriteFails(t)
      PROVE  TypeInv'
  <2>1. tasks[t] \in Task /\ TaskOK(tasks[t])
    BY DEF TypeInv, TypeOK
  <2>2. AfterWrite[tasks[t].pc] \in TaskPC
    BY <1>1 DEF WriteFails, AfterWrite, TaskPC, EnrollPC, RegisterPC, HeartbeatPC,
       PortPC, DisconnectPC
  <2>3. TaskOK([tasks[t] EXCEPT !.pc = AfterWrite[tasks[t].pc]])
    BY <1>1, <2>1 DEF WriteFails, AfterWrite, TaskOK, Task, AgentPC, EnrollPC,
       RegisterPC, HeartbeatPC, PortPC
  <2>4. tasks' \in [Slots -> Task] /\ \A u \in Slots : TaskOK(tasks'[u])
    BY <1>1, <2>2, <2>3, GotoTask DEF WriteFails
  <2>5. ~Idle(t)
    BY <1>1 DEF WriteFails, AfterWrite, Idle
  <2>6. ChurnOK' /\ BootOK'
    BY <1>1, <2>5, HandlerRest DEF WriteFails
  <2> QED
    BY <1>0, <1>1, <2>4, <2>6 DEF WriteFails, TypeInv, TypeOK, memVars
<1>2. ASSUME NEW t \in Slots, QueryFails(t)
      PROVE  TypeInv'
  <2>1. tasks[t] \in Task /\ TaskOK(tasks[t]) /\ "pop" \in TaskPC
    BY DEF TypeInv, TypeOK, TaskPC, EnrollPC
  <2>2. CASE At(t, "find_db")
    <3>1. PICK i \in Ids \ issued :
            /\ tasks' = [tasks EXCEPT ![t].pc = "pop", ![t].id = i]
            /\ issued' = issued \cup {i}
      BY <1>2, <2>2 DEF QueryFails, At
    <3> DEFINE k == [tasks[t] EXCEPT !.pc = "pop", !.id = i]
    <3>2. k \in Task
      BY <2>1 DEF Task, Opt
    <3>3. TaskOK(k)
      BY <2>1, <2>2 DEF TaskOK, Task, At, AgentPC, EnrollPC, RegisterPC
    <3>4. tasks' = [tasks EXCEPT ![t] = k]
      BY <3>1 DEF TypeInv, TypeOK
    <3>5. tasks' \in [Slots -> Task] /\ \A u \in Slots : TaskOK(tasks'[u])
      BY <3>2, <3>3, <3>4, NewTask
    <3>6. ChurnOK' /\ BootOK'
      BY <1>2, <2>2, HandlerRest DEF QueryFails, At, Idle
    <3> QED
      BY <1>0, <1>2, <3>1, <3>5, <3>6 DEF QueryFails, TypeInv, TypeOK, memVars
  <2>3. CASE At(t, "asg_db")
    <3>1. Goto(t, "pop") /\ UNCHANGED issued
      BY <1>2, <2>3 DEF QueryFails, At
    <3>2. TaskOK([tasks[t] EXCEPT !.pc = "pop"])
      BY <2>1, <2>3 DEF TaskOK, Task, At, AgentPC, EnrollPC, RegisterPC
    <3>3. tasks' \in [Slots -> Task] /\ \A u \in Slots : TaskOK(tasks'[u])
      BY <2>1, <3>1, <3>2, GotoTask
    <3>4. ChurnOK' /\ BootOK'
      BY <1>2, <2>3, HandlerRest DEF QueryFails, At, Idle
    <3> QED
      BY <1>0, <1>2, <3>1, <3>3, <3>4 DEF QueryFails, TypeInv, TypeOK, memVars
  <2> QED
    BY <1>2, <2>2, <2>3 DEF QueryFails
<1>3. CASE ChurnWriteFails
  <2>0. churn \in ChurnState
    BY DEF TypeInv, TypeOK
  <2>1. churn' \in ChurnState /\ ChurnOK'
    BY <1>3, <2>0 DEF ChurnWriteFails, ChurnState, ChurnOK, TypeInv
  <2>2. BootOK'
    BY <1>3 DEF ChurnWriteFails, BootOK, TypeInv, IdleChurn
  <2> QED
    BY <1>0, <1>3, <2>1, <2>2 DEF ChurnWriteFails, TypeInv, TypeOK, memVars
<1>4. CASE BootSqlFails
  <2>0. boot \in BootState
    BY DEF TypeInv, TypeOK
  <2>1. churn = IdleChurn /\ \A t \in Slots : Idle(t)
    BY <1>4 DEF BootSqlFails, TypeInv, BootOK
  <2>2. volunteers' \in MapsOf(Ids, Volunteer)
    <3>1. UNCHANGED volunteers \/ volunteers' = EmptyMap =>
            volunteers' \in MapsOf(Ids, Volunteer)
      BY EmptyMapType DEF TypeInv, TypeOK
    <3> DEFINE row(i) == [node |-> dbVol[i].node, addr |-> dbVol[i].addr,
                          svc |-> None, alive |-> TRUE]
    <3>2. DOMAIN dbVol \in SUBSET Ids /\ \A i \in DOMAIN dbVol : dbVol[i] \in VolunteerRow
      BY MapElim DEF TypeInv, TypeOK
    <3>3. [i \in DOMAIN dbVol |-> row(i)] \in [DOMAIN dbVol -> Volunteer]
      BY <3>2 DEF VolunteerRow, Volunteer, Opt
    <3>4. [i \in DOMAIN dbVol |-> row(i)] \in MapsOf(Ids, Volunteer)
      BY <3>2, <3>3, MapIntro
    <3> QED
      BY <1>4, <3>1, <3>4 DEF BootSqlFails
  <2>3. boot' \in BootState /\ boot'.todo \subseteq DOMAIN volunteers'
    <3>1. DOMAIN volunteers' \in SUBSET Ids
      BY <2>2, MapElim
    <3>2. boot.todo \subseteq DOMAIN volunteers
      BY <1>4 DEF BootSqlFails, TypeInv, BootOK
    <3>3. CASE boot.pc = "prune"
      BY <1>4, <2>0, <3>2, <3>3 DEF BootSqlFails, BootState
    <3>4. CASE boot.pc = "load"
      <4>1. boot' = [pc |-> "pass1", todo |-> DOMAIN volunteers', clean |-> FALSE]
        BY <1>4, <3>4 DEF BootSqlFails
      <4> QED
        BY <3>1, <4>1 DEF BootState
    <3> QED
      BY <1>4, <3>3, <3>4 DEF BootSqlFails
  <2>4. ChurnOK' /\ BootOK'
    BY <1>4, <2>1, <2>3 DEF BootSqlFails, ChurnOK, BootOK, Idle, IdleChurn
  <2> QED
    BY <1>0, <1>4, <2>2, <2>3, <2>4 DEF BootSqlFails, TypeInv, TypeOK
<1> QED
  BY <1>1, <1>2, <1>3, <1>4

LEMMA EnvironmentType ==
  ASSUME TypeInv, Environment
  PROVE  TypeInv'
<1>0. HAProxyTypeOK
  BY DEF TypeInv, TypeOK
<1>1. ASSUME NEW i \in Ids, Expire(i)
      PROVE  TypeInv'
  <2>1. volunteers' \in MapsOf(Ids, Volunteer) /\ DOMAIN volunteers' = DOMAIN volunteers
    BY <1>1, VolunteerFieldType DEF Expire, TypeInv
  <2>2. events' \in Nat
    BY <1>1 DEF Expire, Event, TypeInv, TypeOK
  <2>3. ChurnOK' /\ BootOK'
    BY <1>1, <2>1 DEF Expire, TypeInv, ChurnOK, BootOK, Idle
  <2> QED
    BY <1>1, <2>1, <2>2, <2>3 DEF Expire, TypeInv, TypeOK, HAProxyTypeOK,
       dbVars, hapVars
<1>2. ASSUME NEW i \in Ids, NotFound(i)
      PROVE  TypeInv'
  BY <1>2 DEF NotFound, vars, memVars, dbVars, hapVars, auxVars, TypeInv, TypeOK,
     HAProxyTypeOK, ChurnOK, BootOK, Idle
<1>3. CASE Crash
  <2>1. Editing \subseteq Services
    <3>1. \A t \in Slots : tasks[t].pc \in {"cfg", "reg_cfg"} => tasks[t].svc \in Services
      BY DEF TypeInv, TaskOK, RegisterPC
    <3>2. boot.pc = "pass1" => \A i \in boot.todo : volunteers[i] \in Volunteer
      BY MapElim DEF TypeInv, TypeOK, BootOK
    <3> QED
      BY <3>1, <3>2 DEF Editing, Volunteer, Opt
  <2>2. HAProxyTypeOK'
    BY <1>0, <1>3, <2>1 DEF Crash, HAProxyTypeOK
  <2>3. events' \in Nat
    BY <1>3 DEF Crash, Event, TypeInv, TypeOK
  <2> QED
    BY <1>3, <2>2, <2>3, ResetType DEF Crash
<1>4. CASE Redeploy
  <2>1. events' \in Nat
    BY <1>4 DEF Redeploy, Event, TypeInv, TypeOK
  <2> QED
    BY <1>4, <2>1, StartWorkerType, ResetType DEF Redeploy
<1>5. CASE HAProxyRestart
  <2>1. HAProxyTypeOK'
    BY <1>0, <1>5, StartWorkerType DEF HAProxyRestart, HAProxyTypeOK
  <2>2. events' \in Nat
    BY <1>5 DEF HAProxyRestart, Event, TypeInv, TypeOK
  <2>3. boot' \in BootState /\ boot'.pc = boot.pc /\ boot'.todo = boot.todo
    BY <1>5 DEF HAProxyRestart, BootState, TypeInv, TypeOK
  <2>4. ChurnOK' /\ BootOK'
    BY <1>5, <2>3 DEF HAProxyRestart, TypeInv, ChurnOK, BootOK, Idle, memVars
  <2> QED
    BY <1>5, <2>1, <2>2, <2>3, <2>4 DEF HAProxyRestart, TypeInv, TypeOK,
       memVars, dbVars
<1>6. ASSUME NEW t \in Slots, Cancel(t)
      PROVE  TypeInv'
  <2> DEFINE k == tasks[t]
  <2>1. k \in Task /\ TaskOK(k) /\ ~Idle(t)
    BY <1>6 DEF Cancel, TypeInv, TypeOK
  <2>2. HAProxyTypeOK'
    <3>1. /\ k.pc \in {"cfg", "reg_cfg", "primary", "reg_primary"} => k.svc \in Services
          /\ k.pc \in {"primary", "reg_primary", "upsert", "hb_add", "port_addr"}
               => k.addr \in Addrs
          /\ k.pc \in {"upsert", "hb_add", "port_addr", "dis_server"} => k.id \in Ids
      BY <2>1 DEF TaskOK, AgentPC, EnrollPC, HeartbeatPC, PortPC, RegisterPC
    <3>2. UNCHANGED hapVars => HAProxyTypeOK'
      BY <1>0 DEF hapVars, HAProxyTypeOK
    <3>3. \/ UNCHANGED hapVars
          \/ k.pc \in {"cfg", "reg_cfg"} /\ add_service_err(k.svc)
          \/ k.pc \in {"primary", "reg_primary"} /\ upsert_svc_server_err(k.svc, k.addr)
          \/ k.pc = "upsert" /\ upsert_volunteer_err(k.id, k.addr)
          \/ k.pc = "hb_add" /\ add_volunteer_err(k.id, k.addr)
          \/ /\ k.pc = "port_addr"
             /\ update_volunteer_addr_err(k.id, k.addr, k.svc # None, k.svc)
          \/ k.pc = "dis_server" /\ remove_volunteer_err(k.id)
      BY <1>6 DEF Cancel
    <3> HIDE DEF k
    <3> QED
      BY <1>0, <3>1, <3>2, <3>3, AddServiceType, UpsertSvcType, UpsertVolunteerType,
         UpdateAddrType, RemoveVolunteerType
  <2>3. owner' \in [Services -> {"new", "sent", "accepted"}] /\ events' \in Nat
    <3>1. owner' = owner \/ owner' = [owner EXCEPT ![k.svc] = "new"]
      BY <1>6 DEF Cancel
    <3>2. owner \in [Services -> {"new", "sent", "accepted"}]
      BY DEF TypeInv, TypeOK
    <3>3. events' \in Nat
      BY <1>6 DEF Cancel, Event, TypeInv, TypeOK
    <3> QED
      BY <3>1, <3>2, <3>3
  <2>6. lost' \in SUBSET Services
    <3>1. {k.svc} \ {None} \subseteq Services
      BY <2>1 DEF Task, Opt
    <3> QED
      BY <1>6, <3>1 DEF Cancel, TypeInv, TypeOK
  <2>4. tasks' \in [Slots -> Task] /\ \A u \in Slots : TaskOK(tasks'[u])
    BY <1>6, FinishTask DEF Cancel
  <2>5. ChurnOK' /\ BootOK'
    BY <1>6, <2>1, HandlerRest DEF Cancel
  <2> QED
    BY <1>6, <2>2, <2>3, <2>4, <2>5, <2>6 DEF Cancel, TypeInv, TypeOK, memVars, dbVars
<1> QED
  BY <1>1, <1>2, <1>3, <1>4, <1>5, <1>6, SqlErrorType DEF Environment

LEMMA TypeInit == Init => TypeInv
<1> SUFFICES ASSUME Init PROVE TypeInv
  OBVIOUS
<1>1. IdleTask \in Task /\ TaskOK(IdleTask)
  BY DEF IdleTask, Handler, Task, TaskPC, Opt, TaskOK, AgentPC, EnrollPC,
     HeartbeatPC, PortPC, RegisterPC
<1>2. HAProxyTypeOK
  BY EmptyMapType DEF Init, HAProxyInit, HAProxyTypeOK
<1>3. /\ volunteers \in MapsOf(Ids, Volunteer)
      /\ dbVol \in MapsOf(Ids, VolunteerRow)
      /\ dbAsg \in MapsOf(Ids, Services)
      /\ EmptyMap \in MapsOf(Ids, Opt(Services))
  BY EmptyMapType DEF Init
<1>4. churn \in ChurnState /\ ChurnOK
  BY <1>3 DEF Init, IdleChurn, ChurnState, ChurnOK, Opt
<1>5. boot \in BootState /\ BootOK
  BY DEF Init, Booting, BootState, BootOK, Idle, IdleTask, Handler
<1> QED
  BY <1>1, <1>2, <1>3, <1>4, <1>5 DEF Init, TypeInv, TypeOK

LEMMA TypeStep == TypeInv /\ [Next]_vars => TypeInv'
<1> SUFFICES ASSUME TypeInv, [Next]_vars PROVE TypeInv'
  OBVIOUS
<1>1. CASE UNCHANGED vars
  BY <1>1 DEF vars, memVars, dbVars, hapVars, auxVars, TypeInv, TypeOK,
     HAProxyTypeOK, ChurnOK, BootOK, Idle
<1>2. CASE Next
  BY <1>2, ArrivalType, EnrollType, RegisterType, UpkeepType, ChurnType,
     BootType, EnvironmentType DEF Next, TaskStep
<1> QED
  BY <1>1, <1>2

\* Type correctness, and what each handler, the churn monitor and the boot
\* sequence have in hand at every point, for every environment.
THEOREM TypeCorrect == Spec => [](TypeOK /\ TypeInv)
<1>1. TypeInv => TypeOK
  BY DEF TypeInv
<1> QED
  BY <1>1, TypeInit, TypeStep, PTL DEF Spec

-----------------------------------------------------------------------------
(* Stable identity.  The invariant follows an id from the handler that has *)
(* found or made it, through the table, into the map, and back.            *)

LEMMA KnownDrop ==
  ASSUME NEW m, NEW i, NEW n
  PROVE  KnownBy(Drop(m, i), n) \subseteq KnownBy(m, n)
<1> SUFFICES ASSUME NEW j \in KnownBy(Drop(m, i), n)
             PROVE  j \in KnownBy(m, n)
  OBVIOUS
<1>1. j \in DOMAIN Drop(m, i) /\ Drop(m, i)[j].node = n
  BY DEF KnownBy
<1>2. j \in DOMAIN m /\ Drop(m, i)[j] = m[j]
  BY <1>1, DropValues
<1> QED
  BY <1>1, <1>2 DEF KnownBy

LEMMA KnownPut ==
  ASSUME NEW m, NEW i, NEW v, NEW n
  PROVE  /\ KnownBy(Put(m, i, v), n) \subseteq KnownBy(m, n) \cup {i}
         /\ v.node # n => KnownBy(Put(m, i, v), n) \subseteq KnownBy(m, n)
<1> DEFINE p == Put(m, i, v)
<1>1. /\ DOMAIN p = DOMAIN m \cup {i}
      /\ p[i] = v
      /\ \A k \in DOMAIN m : k # i => p[k] = m[k]
  BY DEF Put
<1>2. ASSUME NEW j \in KnownBy(p, n)
      PROVE  j \in KnownBy(m, n) \/ (j = i /\ v.node = n)
  <2>1. j \in DOMAIN p /\ p[j].node = n
    BY DEF KnownBy
  <2> HIDE DEF p
  <2>2. CASE j = i
    BY <1>1, <2>1, <2>2
  <2>3. CASE j # i
    <3>1. j \in DOMAIN m /\ p[j] = m[j]
      BY <1>1, <2>1, <2>3
    <3> QED
      BY <2>1, <3>1 DEF KnownBy
  <2> QED
    BY <2>2, <2>3
<1> HIDE DEF p
<1>3. /\ KnownBy(p, n) \subseteq KnownBy(m, n) \cup {i}
      /\ v.node # n => KnownBy(p, n) \subseteq KnownBy(m, n)
  BY <1>2
<1> QED
  BY <1>3 DEF p

\* get_mut on any field but the hostname
LEMMA KnownExcept ==
  ASSUME TypeOK, NEW i \in DOMAIN volunteers, NEW x, NEW n,
         \/ volunteers' = [volunteers EXCEPT ![i].svc = x]
         \/ volunteers' = [volunteers EXCEPT ![i].alive = x]
         \/ volunteers' = [volunteers EXCEPT ![i].addr = x]
  PROVE  KnownBy(volunteers', n) = KnownBy(volunteers, n)
<1>1. volunteers[i] \in Volunteer /\ volunteers \in [DOMAIN volunteers -> Volunteer]
  BY MapElim DEF TypeOK
<1>2. /\ [volunteers[i] EXCEPT !.svc = x].node = volunteers[i].node
      /\ [volunteers[i] EXCEPT !.alive = x].node = volunteers[i].node
      /\ [volunteers[i] EXCEPT !.addr = x].node = volunteers[i].node
  BY <1>1 DEF Volunteer
<1>3. DOMAIN volunteers' = DOMAIN volunteers
  BY <1>1
<1>4. \A j \in DOMAIN volunteers : volunteers'[j].node = volunteers[j].node
  BY <1>1, <1>2
<1> QED
  BY <1>3, <1>4 DEF KnownBy

\* A step that puts no new host in the map, puts in the table only ids
\* already known, and starts no request, keeps the identities.
LEMMA IdentityFrame ==
  ASSUME IdentityInv, TypeInv',
         \A n \in Nodes : KnownBy(volunteers', n) \subseteq KnownBy(volunteers, n),
         \A n \in Nodes : KnownBy(dbVol', n) \subseteq KnownAs(n),
         \A t \in Slots :
           \/ tasks'[t].node = None
           \/ /\ tasks'[t].node = tasks[t].node
              /\ tasks'[t].id = tasks[t].id
              /\ tasks'[t].pc = "find_db" => tasks[t].pc = "find_db"
  PROVE  IdentityInv'
<1>0. None \notin Hosts
  BY ConstantsAssumption DEF Hosts
<1>1. \A n \in Nodes : Carried(n)' \subseteq Carried(n)
  BY <1>0 DEF Carried, Hosts
<1>2. OneIdentity'
  <2>1. ASSUME NEW n \in Nodes
        PROVE  KnownAs(n)' \subseteq KnownAs(n)
    BY <1>1 DEF KnownAs, KnownBy
  <2> QED
    BY <2>1 DEF IdentityInv, OneIdentity
<1>3. OneRequest'
  BY <1>0 DEF IdentityInv, OneRequest, Hosts
<1>4. AbsentWhileFinding'
  <2> SUFFICES ASSUME NEW t \in Slots, tasks'[t].pc = "find_db"
               PROVE  /\ tasks'[t].node \in Nodes
                      /\ KnownBy(volunteers', tasks'[t].node) = {}
    BY DEF AbsentWhileFinding, At
  <2>1. tasks'[t].node \in Hosts
    BY DEF TypeInv, TaskOK, AgentPC, EnrollPC
  <2>2. tasks'[t].node = tasks[t].node /\ At(t, "find_db")
    BY <1>0, <2>1 DEF At
  <2> QED
    BY <2>2 DEF IdentityInv, AbsentWhileFinding
<1> QED
  BY <1>2, <1>3, <1>4 DEF IdentityInv

\* The steps of a handler between its start and its end that neither choose
\* nor store an id.
LEMMA IdentityPlainStep ==
  ASSUME IdentityInv, TypeInv', NEW t \in Slots,
         \/ EnrollAsgMem(t) \/ EnrollAsgDb(t) \/ EnrollPop(t) \/ EnrollCfg(t)
         \/ EnrollPrimary(t) \/ EnrollPushFront(t) \/ EnrollRow(t)
         \/ EnrollUpsert(t) \/ RegisterStep(t) \/ HeartbeatWeight(t)
         \/ HeartbeatAdd(t) \/ PortAddr(t) \/ DisconnectStep(t)
  PROVE  IdentityInv'
<1>0. tasks \in [Slots -> Task]
  BY DEF IdentityInv, TypeInv, TypeOK
<1>1. \A u \in Slots :
        \/ tasks'[u].node = None
        \/ /\ tasks'[u].node = tasks[u].node
           /\ tasks'[u].id = tasks[u].id
           /\ tasks'[u].pc = "find_db" => tasks[u].pc = "find_db"
  <2>1. \/ Finish(t)
        \/ \E l \in TaskPC \ {"find_db"} : Goto(t, l)
        \/ \E l \in TaskPC \ {"find_db"} : \E s :
             tasks' = [tasks EXCEPT ![t].pc = l, ![t].svc = s]
        \/ \E l \in TaskPC \ {"find_db"} : \E s :
             tasks' = [tasks EXCEPT ![t].pc = l, ![t].svc = s, ![t].queued = TRUE]
    BY DEF EnrollAsgMem, EnrollAsgDb, EnrollPop, EnrollCfg, EnrollPrimary,
       EnrollPushFront, EnrollRow, EnrollUpsert, RegisterStep, RegisterCfg,
       RegisterPrimary, RegisterRow, RegisterSet, RegisterQueue, HeartbeatWeight,
       HeartbeatAdd, PortAddr, DisconnectStep, DisconnectRow, DisconnectServer,
       AssignFailed, Refused, TaskPC, EnrollPC, RegisterPC, HeartbeatPC, PortPC,
       DisconnectPC
  <2>2. CASE Finish(t)
    BY <1>0, <2>2 DEF Finish, IdleTask, Handler
  <2>3. CASE \E l \in TaskPC \ {"find_db"} : Goto(t, l)
    BY <1>0, <2>3 DEF Goto, Task
  <2>4. CASE \E l \in TaskPC \ {"find_db"} : \E s :
               tasks' = [tasks EXCEPT ![t].pc = l, ![t].svc = s]
    BY <1>0, <2>4 DEF Task
  <2>5. CASE \E l \in TaskPC \ {"find_db"} : \E s :
               tasks' = [tasks EXCEPT ![t].pc = l, ![t].svc = s, ![t].queued = TRUE]
    BY <1>0, <2>5 DEF Task
  <2> QED
    BY <2>1, <2>2, <2>3, <2>4, <2>5
<1>2. \A n \in Nodes : KnownBy(volunteers', n) \subseteq KnownBy(volunteers, n)
  <2>1. CASE RegisterSet(t)
    BY <2>1, KnownExcept DEF RegisterSet, IdentityInv, TypeInv
  <2>2. CASE ~RegisterSet(t)
    <3>1. UNCHANGED volunteers
      BY <2>2 DEF EnrollAsgMem, EnrollAsgDb, EnrollPop, EnrollCfg, EnrollPrimary,
         EnrollPushFront, EnrollRow, EnrollUpsert, RegisterStep, RegisterCfg,
         RegisterPrimary, RegisterRow, RegisterQueue, HeartbeatWeight,
         HeartbeatAdd, PortAddr, DisconnectStep, DisconnectRow, DisconnectServer,
         memVars
    <3> QED
      BY <3>1
  <2> QED
    BY <2>1, <2>2
<1>3. \A n \in Nodes : KnownBy(dbVol', n) \subseteq KnownAs(n)
  <2>1. UNCHANGED dbVol \/ dbVol' = Drop(dbVol, tasks[t].id)
    BY DEF EnrollAsgMem, EnrollAsgDb, EnrollPop, EnrollCfg, EnrollPrimary,
       EnrollPushFront, EnrollRow, EnrollUpsert, RegisterStep, RegisterCfg,
       RegisterPrimary, RegisterRow, RegisterSet, RegisterQueue, HeartbeatWeight,
       HeartbeatAdd, PortAddr, DisconnectStep, DisconnectRow, DisconnectServer,
       dbVars
  <2> QED
    BY <2>1, KnownDrop DEF KnownAs
<1> QED
  BY <1>1, <1>2, <1>3, IdentityFrame

\* What the save and insert steps write is what the handler carries.
LEMMA KnownSaved ==
  ASSUME TypeInv, NEW t \in Slots, tasks[t].id \in Ids, NEW table, NEW v,
         v.node = tasks[t].node, NEW n \in Nodes
  PROVE  KnownBy(Put(table, tasks[t].id, v), n) \subseteq KnownBy(table, n) \cup Carried(n)
<1>1. CASE tasks[t].node = n
  <2>1. tasks[t].id \in Carried(n)
    BY <1>1 DEF Carried
  <2>2. KnownBy(Put(table, tasks[t].id, v), n) \subseteq KnownBy(table, n) \cup {tasks[t].id}
    BY KnownPut
  <2> QED
    BY <2>1, <2>2
<1>2. CASE tasks[t].node # n
  <2>1. KnownBy(Put(table, tasks[t].id, v), n) \subseteq KnownBy(table, n)
    BY <1>2, KnownPut
  <2> QED
    BY <2>1
<1> QED
  BY <1>1, <1>2

\* db.upsert_volunteer, in enroll, heartbeat and update_tunnel_port
LEMMA IdentitySave ==
  ASSUME IdentityInv, TypeInv', NEW t \in Slots,
         EnrollSave(t) \/ HeartbeatSave(t) \/ PortSave(t)
  PROVE  IdentityInv'
<1>0. tasks \in [Slots -> Task] /\ TypeInv
  BY DEF IdentityInv, TypeInv, TypeOK
<1>1. /\ dbVol' = Put(dbVol, tasks[t].id, RowOf(t))
      /\ UNCHANGED volunteers
      /\ \E l \in TaskPC \ {"find_db"} : Goto(t, l)
      /\ tasks[t].pc \in {"save", "hb_save", "port_save"}
  BY DEF EnrollSave, HeartbeatSave, PortSave, memVars, At, TaskPC, EnrollPC,
     HeartbeatPC, PortPC
<1>2. tasks[t].id \in Ids
  BY <1>0, <1>1 DEF TypeInv, TaskOK
<1>3. \A n \in Nodes : KnownBy(dbVol', n) \subseteq KnownAs(n)
  <2>1. RowOf(t).node = tasks[t].node
    BY DEF RowOf
  <2> QED
    BY <1>0, <1>1, <1>2, <2>1, KnownSaved DEF KnownAs
<1>4. \A u \in Slots :
        /\ tasks'[u].node = tasks[u].node
        /\ tasks'[u].id = tasks[u].id
        /\ tasks'[u].pc = "find_db" => tasks[u].pc = "find_db"
  BY <1>0, <1>1 DEF Goto, Task
<1>5. \A n \in Nodes : KnownBy(volunteers', n) \subseteq KnownBy(volunteers, n)
  BY <1>1
<1> QED
  BY <1>3, <1>4, <1>5, IdentityFrame

\* map.insert: a host that another handler is looking up has only that one
\* request in flight, so it is not the host inserted here.
LEMMA IdentityInsert ==
  ASSUME IdentityInv, TypeInv', NEW t \in Slots, EnrollInsert(t)
  PROVE  IdentityInv'
<1> DEFINE v == [node |-> tasks[t].node, addr |-> tasks[t].addr,
                 svc |-> tasks[t].svc, alive |-> TRUE]
<1>0. tasks \in [Slots -> Task] /\ TypeInv
  BY DEF IdentityInv, TypeInv, TypeOK
<1>1. /\ volunteers' = Put(volunteers, tasks[t].id, v)
      /\ UNCHANGED dbVol
      /\ Goto(t, "upsert")
      /\ tasks[t].pc = "insert"
  BY DEF EnrollInsert, dbVars, At
<1>2. tasks[t].id \in Ids
  BY <1>0, <1>1 DEF TypeInv, TaskOK
<1>3. v.node = tasks[t].node
  OBVIOUS
<1> HIDE DEF v
<1>4. /\ tasks' \in [Slots -> Task]
      /\ \A u \in Slots : tasks'[u].node = tasks[u].node /\ tasks'[u].id = tasks[u].id
      /\ \A u \in Slots : tasks'[u].pc = "find_db" => u # t /\ tasks[u].pc = "find_db"
  BY <1>0, <1>1 DEF Goto, Task, TypeInv, TypeOK
<1>5. OneIdentity'
  <2>1. ASSUME NEW n \in Nodes
        PROVE  KnownAs(n)' \subseteq KnownAs(n)
    <3>1. KnownBy(volunteers', n) \subseteq KnownBy(volunteers, n) \cup Carried(n)
      BY <1>0, <1>1, <1>2, <1>3, KnownSaved
    <3>2. Carried(n)' \subseteq Carried(n)
      BY <1>4 DEF Carried
    <3>3. KnownBy(dbVol, n)' = KnownBy(dbVol, n) /\ KnownBy(volunteers, n)' = KnownBy(volunteers', n)
      BY <1>1 DEF KnownBy
    <3> QED
      BY <3>1, <3>2, <3>3 DEF KnownAs
  <2> QED
    BY <2>1 DEF IdentityInv, OneIdentity
<1>6. OneRequest'
  BY <1>4 DEF IdentityInv, OneRequest
<1>7. AbsentWhileFinding'
  <2> SUFFICES ASSUME NEW u \in Slots, tasks'[u].pc = "find_db"
               PROVE  /\ tasks'[u].node \in Nodes
                      /\ KnownBy(volunteers', tasks'[u].node) = {}
    BY DEF AbsentWhileFinding, At
  <2>1. /\ u # t
        /\ tasks[u].node \in Nodes
        /\ KnownBy(volunteers, tasks[u].node) = {}
    BY <1>4 DEF IdentityInv, AbsentWhileFinding, At
  <2>2. v.node # tasks[u].node
    BY <1>3, <2>1 DEF IdentityInv, OneRequest
  <2>3. KnownBy(Put(volunteers, tasks[t].id, v), tasks[u].node)
          \subseteq KnownBy(volunteers, tasks[u].node)
    BY <2>2, KnownPut
  <2> QED
    BY <1>1, <1>4, <2>1, <2>3
<1> QED
  BY <1>5, <1>6, <1>7 DEF IdentityInv

\* db.find_by_hostname: the row's id, or a fresh one when neither the table
\* nor the map knows the host, and this is its only request.
LEMMA IdentityFindDb ==
  ASSUME IdentityInv, TypeInv', NEW t \in Slots, EnrollFindDb(t)
  PROVE  IdentityInv'
<1> DEFINE host == tasks[t].node
<1>0. tasks \in [Slots -> Task]
  BY DEF IdentityInv, TypeInv, TypeOK
<1>1. PICK i \in Ids :
        /\ \/ i \in KnownBy(dbVol, host)
           \/ KnownBy(dbVol, host) = {}
        /\ \/ tasks' = [tasks EXCEPT ![t].pc = "asg_mem", ![t].id = i]
           \/ tasks' = [tasks EXCEPT ![t].pc = "pop", ![t].id = i]
  <2>1. DOMAIN dbVol \subseteq Ids
    BY MapElim DEF IdentityInv, TypeInv, TypeOK
  <2>2. KnownBy(dbVol, host) \subseteq Ids
    BY <2>1 DEF KnownBy
  <2> QED
    BY <2>2 DEF EnrollFindDb
<1>2. UNCHANGED <<volunteers, dbVol>> /\ tasks[t].pc = "find_db"
  BY DEF EnrollFindDb, memVars, dbVars, At
<1>3. /\ \A u \in Slots : tasks'[u].node = tasks[u].node
      /\ \A u \in Slots \ {t} : tasks'[u] = tasks[u]
      /\ tasks'[t].id = i
      /\ tasks'[t].pc # "find_db"
  BY <1>0, <1>1 DEF Task
<1>4. /\ host \in Nodes
      /\ KnownBy(volunteers, host) = {}
  BY <1>2 DEF IdentityInv, AbsentWhileFinding, At
<1>5. Carried(host) = {}
  <2>1. tasks[t].id = None /\ None \notin Ids
    BY <1>2, ConstantsAssumption DEF IdentityInv, TypeInv, TaskOK
  <2>2. \A u \in Slots : tasks[u].node = host => u = t
    BY <1>4 DEF IdentityInv, OneRequest
  <2> QED
    BY <2>1, <2>2 DEF Carried
<1>6. Carried(host)' = {i}
  <2>1. \A u \in Slots : tasks'[u].node = host => u = t
    BY <1>3, <1>4 DEF IdentityInv, OneRequest
  <2>2. Carried(host)' = {j \in Ids : \E u \in Slots : tasks'[u].node = tasks'[t].node /\ tasks'[u].id = j}
    BY <1>3 DEF Carried
  <2> QED
    BY <1>3, <2>1, <2>2
<1>7. OneIdentity'
  <2> SUFFICES ASSUME NEW n \in Nodes, NEW j \in KnownAs(n)', NEW k \in KnownAs(n)'
               PROVE  j = k
    BY DEF OneIdentity
  <2>1. KnownAs(n)' = KnownBy(volunteers, n) \cup KnownBy(dbVol, n) \cup Carried(n)'
    BY <1>2 DEF KnownAs, KnownBy
  <2>2. CASE n = host
    <3>1. Carried(n)' = {i}
      BY <1>3, <1>6, <2>2 DEF Carried
    <3>2. KnownBy(dbVol, n) \subseteq {i}
      BY <1>1, <1>4, <2>2 DEF IdentityInv, OneIdentity, KnownAs
    <3> QED
      BY <1>4, <2>1, <2>2, <3>1, <3>2
  <2>3. CASE n # host
    <3>1. Carried(n)' \subseteq Carried(n)
      BY <1>3, <2>3 DEF Carried
    <3> QED
      BY <2>1, <3>1 DEF IdentityInv, OneIdentity, KnownAs
  <2> QED
    BY <2>2, <2>3
<1>8. OneRequest'
  BY <1>3 DEF IdentityInv, OneRequest
<1>9. AbsentWhileFinding'
  BY <1>2, <1>3 DEF IdentityInv, AbsentWhileFinding, At, KnownBy
<1> QED
  BY <1>7, <1>8, <1>9 DEF IdentityInv

\* A request whose agent has no other request in flight, and which takes its
\* id from the map, keeps the identities.
LEMMA IdentityBegin ==
  ASSUME IdentityInv, TypeInv', NEW t \in Slots, NEW k,
         Begin(t, k), UNCHANGED dbVol,
         \A n \in Nodes : KnownBy(volunteers', n) \subseteq KnownBy(volunteers, n),
         k.node \in Nodes =>
           /\ \A u \in Slots : tasks[u].node # k.node
           /\ k.id \in KnownBy(volunteers, k.node) \cup {None},
         k.pc = "find_db" =>
           k.node \in Nodes /\ KnownBy(volunteers, k.node) = {}
  PROVE  IdentityInv'
<1>1. /\ tasks'[t] = k
      /\ \A u \in Slots \ {t} : tasks'[u] = tasks[u]
  BY DEF IdentityInv, TypeInv, TypeOK, Begin
<1>2. OneIdentity'
  <2>1. ASSUME NEW n \in Nodes
        PROVE  KnownAs(n)' \subseteq KnownAs(n)
    <3>1. Carried(n)' \subseteq Carried(n) \cup KnownBy(volunteers, n)
      BY <1>1, ConstantsAssumption DEF Carried
    <3>2. KnownBy(dbVol, n)' = KnownBy(dbVol, n) /\ KnownBy(volunteers, n)' = KnownBy(volunteers', n)
      BY DEF KnownBy
    <3> QED
      BY <3>1, <3>2 DEF KnownAs
  <2> QED
    BY <2>1 DEF IdentityInv, OneIdentity
<1>3. OneRequest'
  <2> SUFFICES ASSUME NEW u \in Slots, NEW w \in Slots, tasks'[u].node \in Nodes,
                      tasks'[u].node = tasks'[w].node
               PROVE  u = w
    BY DEF OneRequest
  <2> QED
    BY <1>1 DEF IdentityInv, OneRequest
<1>4. AbsentWhileFinding'
  <2> SUFFICES ASSUME NEW u \in Slots, tasks'[u].pc = "find_db"
               PROVE  /\ tasks'[u].node \in Nodes
                      /\ KnownBy(volunteers', tasks'[u].node) = {}
    BY DEF AbsentWhileFinding, At
  <2>1. tasks'[u].node \in Nodes /\ KnownBy(volunteers, tasks'[u].node) = {}
    BY <1>1 DEF IdentityInv, AbsentWhileFinding, At
  <2> QED
    BY <2>1
<1> QED
  BY <1>2, <1>3, <1>4 DEF IdentityInv

\* An agent that does not give up on a request has nothing in flight when it
\* sends the next one.
LEMMA NothingInFlight ==
  ASSUME "overlap" \notin Env, TypeInv, NEW n \in Nodes, NodeFree(n)
  PROVE  \A u \in Slots : tasks[u].node # n
<1>1. n # NoKey /\ n # None
  BY ConstantsAssumption
<1>2. \A u \in Slots : Idle(u) => tasks[u].node = None
  BY DEF TypeInv, TaskOK, Idle, AgentPC, EnrollPC, HeartbeatPC, PortPC
<1> QED
  BY <1>1, <1>2 DEF NodeFree

LEMMA IdentityArrival ==
  ASSUME "overlap" \notin Env, IdentityInv, TypeInv', NEW t \in Slots, Arrival(t)
  PROVE  IdentityInv'
<1>0. TypeInv /\ TypeOK /\ None \notin Nodes /\ None \notin Hosts
  BY ConstantsAssumption DEF IdentityInv, TypeInv, Hosts
<1>1. ASSUME NEW n \in Hosts, NEW a \in Addrs, EnrollStart(t, n, a)
      PROVE  IdentityInv'
  <2>1. PICK l \in {"pop", "asg_mem", "find_db"}, i \in Opt(Ids) :
          /\ Begin(t, Handler(l, n, i, None, a))
          /\ n \in Nodes => i \in KnownBy(volunteers, n) \cup {None}
          /\ l = "find_db" => n \in Nodes /\ KnownBy(volunteers, n) = {}
    <3>1. KnownBy(volunteers, n) \subseteq Ids
      BY <1>0, MapElim DEF KnownBy, TypeOK
    <3> QED
      BY <1>1, <3>1, ConstantsAssumption DEF EnrollStart, Hosts, Opt
  <2> DEFINE k == Handler(l, n, i, None, a)
  <2>2. k.node = n /\ k.id = i /\ k.pc = l
    BY DEF Handler
  <2>3. n \in Nodes => \A u \in Slots : tasks[u].node # n
    BY <1>0, <1>1, NothingInFlight DEF EnrollStart
  <2>4. UNCHANGED dbVol /\ UNCHANGED volunteers
    BY <1>1 DEF EnrollStart, memVars, dbVars
  <2>5. Begin(t, k)
    BY <2>1
  <2> HIDE DEF k
  <2> QED
    BY <2>1, <2>2, <2>3, <2>4, <2>5, IdentityBegin
<1>2. ASSUME NEW s \in Services, RegisterStart(t, s)
      PROVE  IdentityInv'
  <2>1. PICK l \in {"reg_cfg", "reg_queue"}, i \in Opt(Ids), a \in Opt(Addrs) :
          Begin(t, Handler(l, None, i, s, a))
    <3>1. \A i \in DOMAIN volunteers : i \in Ids /\ volunteers[i] \in Volunteer
      BY <1>0, MapElim DEF TypeOK
    <3> QED
      BY <1>2, <3>1 DEF RegisterStart, Free, Volunteer, Opt
  <2> DEFINE k == Handler(l, None, i, s, a)
  <2>2. k.node = None /\ k.pc # "find_db"
    BY DEF Handler
  <2>3. UNCHANGED dbVol /\ UNCHANGED volunteers
    BY <1>2 DEF RegisterStart, memVars, dbVars
  <2>4. Begin(t, k)
    BY <2>1
  <2> HIDE DEF k
  <2> QED
    BY <1>0, <2>2, <2>3, <2>4, IdentityBegin
<1>3. ASSUME NEW i \in Ids, HeartbeatStart(t, i)
      PROVE  IdentityInv'
  <2> DEFINE k == Handler("hb_save", volunteers[i].node, i, None,
                          volunteers[i].addr)
  <2>1. k.node = volunteers[i].node /\ k.id = i /\ k.pc # "find_db"
    BY DEF Handler
  <2>2. i \in KnownBy(volunteers, volunteers[i].node)
    BY <1>3 DEF HeartbeatStart, KnownBy
  <2>3. volunteers[i].node \in Nodes => \A u \in Slots : tasks[u].node # volunteers[i].node
    BY <1>0, <1>3, NothingInFlight DEF HeartbeatStart
  <2>4. Begin(t, k) /\ UNCHANGED dbVol
    BY <1>3 DEF HeartbeatStart, dbVars
  <2>5. \A n \in Nodes : KnownBy(volunteers', n) \subseteq KnownBy(volunteers, n)
    BY <1>0, <1>3, KnownExcept DEF HeartbeatStart
  <2> HIDE DEF k
  <2> QED
    BY <2>1, <2>2, <2>3, <2>4, <2>5, IdentityBegin
<1>4. ASSUME NEW i \in Ids, NEW a \in Addrs, PortStart(t, i, a)
      PROVE  IdentityInv'
  <2> DEFINE k == Handler("port_save", volunteers[i].node, i, volunteers[i].svc, a)
  <2>1. k.node = volunteers[i].node /\ k.id = i /\ k.pc # "find_db"
    BY DEF Handler
  <2>2. i \in KnownBy(volunteers, volunteers[i].node)
    BY <1>4 DEF PortStart, KnownBy
  <2>3. volunteers[i].node \in Nodes => \A u \in Slots : tasks[u].node # volunteers[i].node
    BY <1>0, <1>4, NothingInFlight DEF PortStart
  <2>4. Begin(t, k) /\ UNCHANGED dbVol
    BY <1>4 DEF PortStart, dbVars
  <2>5. \A n \in Nodes : KnownBy(volunteers', n) \subseteq KnownBy(volunteers, n)
    BY <1>0, <1>4, KnownExcept DEF PortStart
  <2> HIDE DEF k
  <2> QED
    BY <2>1, <2>2, <2>3, <2>4, <2>5, IdentityBegin
<1>5. ASSUME NEW i \in Ids, DisconnectStart(t, i)
      PROVE  IdentityInv'
  <2> DEFINE k == Handler("dis_row", None, i, None, None)
  <2>1. k.node = None /\ k.pc # "find_db"
    BY DEF Handler
  <2>2. Begin(t, k) /\ UNCHANGED dbVol
    BY <1>5 DEF DisconnectStart, dbVars
  <2>3. \A n \in Nodes : KnownBy(volunteers', n) \subseteq KnownBy(volunteers, n)
    BY <1>5, KnownDrop DEF DisconnectStart
  <2> HIDE DEF k
  <2> QED
    BY <1>0, <2>1, <2>2, <2>3, IdentityBegin
<1> QED
  BY <1>1, <1>2, <1>3, <1>4, <1>5 DEF Arrival

\* The churn monitor only removes.
LEMMA IdentityChurn ==
  ASSUME IdentityInv, TypeInv', ChurnStep
  PROVE  IdentityInv'
<1>1. UNCHANGED tasks
  BY DEF ChurnStep, ChurnScan, ChurnEvict, ChurnRow, ChurnServer,
     ChurnUnassign, ChurnRequeue
<1>2. UNCHANGED volunteers \/ \E i \in Ids : volunteers' = Drop(volunteers, i)
  BY DEF ChurnStep, ChurnScan, ChurnEvict, ChurnRow, ChurnServer,
     ChurnUnassign, ChurnRequeue, memVars
<1>3. UNCHANGED dbVol \/ dbVol' = Drop(dbVol, churn.id)
  BY DEF ChurnStep, ChurnScan, ChurnEvict, ChurnRow, ChurnServer,
     ChurnUnassign, ChurnRequeue, dbVars
<1>4. \A n \in Nodes : KnownBy(volunteers', n) \subseteq KnownBy(volunteers, n)
  BY <1>2, KnownDrop
<1>5. \A n \in Nodes : KnownBy(dbVol', n) \subseteq KnownAs(n)
  BY <1>3, KnownDrop DEF KnownAs
<1> QED
  BY <1>1, <1>4, <1>5, IdentityFrame

\* Recovery takes the map from the table, with no handler under way.
LEMMA IdentityBoot ==
  ASSUME IdentityInv, TypeInv', BootStep
  PROVE  IdentityInv'
<1>1. UNCHANGED <<tasks, dbVol>>
  BY DEF BootStep, BootPrune, BootLoad, BootPass1, BootPass1Done, BootPass2,
     BootServe, dbVars
<1>2. CASE BootLoad
  <2>1. ASSUME NEW n \in Nodes
        PROVE  KnownBy(volunteers', n) \subseteq KnownBy(dbVol, n)
    BY <1>2 DEF BootLoad, KnownBy
  <2>2. \A t \in Slots : tasks[t].pc = "idle"
    BY <1>2 DEF BootLoad, IdentityInv, TypeInv, BootOK, Idle
  <2>3. OneIdentity'
    <3>1. ASSUME NEW n \in Nodes
          PROVE  KnownAs(n)' \subseteq KnownAs(n)
      <4>1. KnownBy(dbVol, n)' = KnownBy(dbVol, n) /\ Carried(n)' = Carried(n)
        BY <1>1 DEF KnownBy, Carried
      <4>2. KnownBy(volunteers, n)' = KnownBy(volunteers', n)
        BY DEF KnownBy
      <4> QED
        BY <2>1, <4>1, <4>2 DEF KnownAs
    <3> QED
      BY <3>1 DEF IdentityInv, OneIdentity
  <2>4. OneRequest'
    BY <1>1 DEF IdentityInv, OneRequest
  <2>5. AbsentWhileFinding'
    BY <1>1, <2>2 DEF AbsentWhileFinding, At
  <2> QED
    BY <2>3, <2>4, <2>5 DEF IdentityInv
<1>3. CASE ~BootLoad
  <2>1. UNCHANGED volunteers
    BY <1>3 DEF BootStep, BootPrune, BootPass1, BootPass1Done, BootPass2,
       BootServe, memVars
  <2> QED
    BY <1>1, <2>1, IdentityFrame DEF KnownAs
<1> QED
  BY <1>2, <1>3

LEMMA IdentityEnvironment ==
  ASSUME IdentityInv, TypeInv', Environment, "query_err" \notin Env
  PROVE  IdentityInv'
<1>0. TypeOK
  BY DEF IdentityInv, TypeInv
<1>1. ASSUME NEW i \in Ids, Expire(i)
      PROVE  IdentityInv'
  <2>1. \A n \in Nodes : KnownBy(volunteers', n) \subseteq KnownBy(volunteers, n)
    BY <1>0, <1>1, KnownExcept DEF Expire
  <2>2. UNCHANGED <<dbVol, tasks>>
    BY <1>1 DEF Expire, dbVars
  <2> QED
    BY <2>1, <2>2, IdentityFrame DEF KnownAs
<1>2. ASSUME NEW i \in Ids, NotFound(i)
      PROVE  IdentityInv'
  <2>1. UNCHANGED <<volunteers, dbVol, tasks>>
    BY <1>2 DEF NotFound, vars, memVars, dbVars
  <2> QED
    BY <2>1, IdentityFrame DEF KnownAs
<1>3. CASE Crash \/ Redeploy
  <2>1. Reset
    BY <1>3 DEF Crash, Redeploy
  <2>2. \A n \in Nodes : KnownBy(volunteers', n) \subseteq KnownBy(volunteers, n)
    BY <2>1, EmptyMapType DEF Reset, KnownBy
  <2>3. \A t \in Slots : tasks'[t].node = None
    BY <2>1 DEF Reset, IdleTask, Handler
  <2>4. UNCHANGED dbVol
    BY <2>1 DEF Reset, dbVars
  <2> QED
    BY <2>2, <2>3, <2>4, IdentityFrame DEF KnownAs
<1>4. CASE HAProxyRestart
  <2>1. UNCHANGED <<volunteers, dbVol, tasks>>
    BY <1>4 DEF HAProxyRestart, memVars, dbVars
  <2> QED
    BY <2>1, IdentityFrame DEF KnownAs
<1>5. ASSUME NEW t \in Slots, Cancel(t)
      PROVE  IdentityInv'
  <2>1. UNCHANGED <<volunteers, dbVol>>
    BY <1>5 DEF Cancel, memVars, dbVars
  <2>2. tasks'[t].node = None /\ \A u \in Slots \ {t} : tasks'[u] = tasks[u]
    BY <1>0, <1>5 DEF Cancel, Finish, IdleTask, Handler, TypeOK
  <2> QED
    BY <2>1, <2>2, IdentityFrame DEF KnownAs
<1>6. ASSUME NEW t \in Slots, WriteFails(t)
      PROVE  IdentityInv'
  <2>1. UNCHANGED <<volunteers, dbVol>>
    BY <1>6 DEF WriteFails, memVars, dbVars
  <2>2. Goto(t, AfterWrite[tasks[t].pc]) /\ AfterWrite[tasks[t].pc] # "find_db"
    BY <1>6 DEF WriteFails, AfterWrite
  <2>3. \A u \in Slots : /\ tasks'[u].node = tasks[u].node
                         /\ tasks'[u].id = tasks[u].id
                         /\ tasks'[u].pc = "find_db" => tasks[u].pc = "find_db"
    BY <1>0, <2>2 DEF Goto, TypeOK, Task
  <2> QED
    BY <2>1, <2>3, IdentityFrame DEF KnownAs
<1>7. CASE ChurnWriteFails \/ BootSqlFails
  <2>1. UNCHANGED <<volunteers, dbVol, tasks>>
    BY <1>7 DEF ChurnWriteFails, BootSqlFails, Event, memVars, dbVars
  <2> QED
    BY <2>1, IdentityFrame DEF KnownAs
<1>8. ASSUME NEW t \in Slots
      PROVE  ~QueryFails(t)
  BY DEF QueryFails, Event
<1> QED
  BY <1>1, <1>2, <1>3, <1>4, <1>5, <1>6, <1>7, <1>8 DEF Environment

LEMMA IdentityInit == Init => IdentityInv
<1> SUFFICES ASSUME Init PROVE IdentityInv
  OBVIOUS
<1>1. \A t \in Slots : tasks[t].node = None /\ tasks[t].pc = "idle"
  BY DEF Init, IdleTask, Handler
<1>2. \A n \in Nodes : KnownAs(n) = {}
  <2>1. DOMAIN volunteers = {} /\ DOMAIN dbVol = {}
    BY EmptyMapType DEF Init
  <2> QED
    BY <1>1, <2>1, ConstantsAssumption DEF KnownAs, KnownBy, Carried
<1>3. OneIdentity
  BY <1>2 DEF OneIdentity
<1>4. OneRequest /\ AbsentWhileFinding
  BY <1>1, ConstantsAssumption DEF OneRequest, AbsentWhileFinding, At
<1> QED
  BY <1>3, <1>4, TypeInit DEF IdentityInv

LEMMA IdentityStep ==
  ASSUME "overlap" \notin Env, "query_err" \notin Env
  PROVE  IdentityInv /\ [Next]_vars => IdentityInv'
<1> SUFFICES ASSUME IdentityInv, [Next]_vars PROVE IdentityInv'
  OBVIOUS
<1>1. TypeInv'
  BY TypeStep DEF IdentityInv
<1>2. CASE UNCHANGED vars
  <2>1. UNCHANGED <<volunteers, dbVol, tasks>>
    BY <1>2 DEF vars, memVars, dbVars
  <2> QED
    BY <1>1, <2>1, IdentityFrame DEF KnownAs
<1>3. ASSUME NEW t \in Slots, TaskStep(t)
      PROVE  IdentityInv'
  BY <1>1, <1>3, IdentityPlainStep, IdentitySave, IdentityInsert, IdentityFindDb
     DEF TaskStep, EnrollStep, HeartbeatStep, PortStep
<1> QED
  BY <1>1, <1>2, <1>3, IdentityArrival, IdentityChurn, IdentityBoot,
     IdentityEnvironment DEF Next

\* Whatever a handler of enroll has in hand, the UUID it goes on with is the
\* only one its hostname has: in the map, in the table and in its own hands
\* (enroll reads map and table before the first await and writes both after).
THEOREM IdentityHolds ==
  ASSUME "overlap" \notin Env, "query_err" \notin Env
  PROVE  Spec => []IdentityInv
  BY IdentityInit, IdentityStep, PTL DEF Spec

\* A hostname keeps one UUID in the map and the table (enroll's "stable
\* per-node key"), for any number of hosts, handlers, crashes and failed
\* writes, as long as no agent has two requests in flight and no query fails:
\* find_by_hostname answers an error like a host it does not know.
THEOREM StableIdentityHolds ==
  ASSUME "overlap" \notin Env, "query_err" \notin Env
  PROVE  Spec => []StableIdentity
<1>1. IdentityInv => StableIdentity
  BY DEF IdentityInv, OneIdentity, KnownAs, StableIdentity
<1> QED
  BY <1>1, IdentityHolds, PTL

=============================================================================
