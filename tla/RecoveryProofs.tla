--------------------------- MODULE RecoveryProofs ---------------------------
(***************************************************************************)
(* Crash recovery is complete when the routes open, and the only ways in   *)
(* which the registrar forgets an accepted service, for every environment. *)
(***************************************************************************)
EXTENDS RegistrarProofs

-----------------------------------------------------------------------------
(* Recovery.                                                               *)

\* Without a request or a dead volunteer, handlers and churn monitor rest.
LEMMA NothingUnderWay ==
  ASSUME NEW t \in Slots, Idle(t)
  PROVE  ~TaskStep(t) /\ ~Cancel(t) /\ ~WriteFails(t) /\ ~QueryFails(t)
<1>1. ~EnrollStep(t)
  BY DEF Idle, At, EnrollStep, EnrollFindDb, EnrollAsgMem, EnrollAsgDb, EnrollPop,
     EnrollCfg, EnrollPrimary, EnrollPushFront, EnrollRow, EnrollSave, EnrollInsert,
     EnrollUpsert
<1>2. ~RegisterStep(t) /\ ~HeartbeatStep(t) /\ ~PortStep(t) /\ ~DisconnectStep(t)
  BY DEF Idle, At, RegisterStep, RegisterCfg, RegisterPrimary, RegisterRow, RegisterSet,
     RegisterQueue, HeartbeatStep, HeartbeatSave, HeartbeatWeight, HeartbeatAdd,
     PortStep, PortSave, PortAddr, DisconnectStep, DisconnectRow, DisconnectServer
<1>3. ~Cancel(t) /\ ~WriteFails(t) /\ ~QueryFails(t)
  BY DEF Idle, At, Cancel, WriteFails, AfterWrite, QueryFails
<1> QED
  BY <1>1, <1>2, <1>3 DEF TaskStep

\* main() runs alone until it serves the routes.
LEMMA BootAlone ==
  ASSUME TypeInv, boot.pc # "serve", Next
  PROVE  \/ BootStep \/ BootSqlFails \/ HAProxyRestart
         \/ \E i \in Ids : Expire(i)
         \/ Crash \/ Redeploy
<1>1. churn = IdleChurn /\ \A t \in Slots : Idle(t)
  BY DEF TypeInv, BootOK
<1>2. \A t \in Slots : ~Arrival(t)
  BY DEF Arrival, EnrollStart, RegisterStart, HeartbeatStart, PortStart,
     DisconnectStart, MayStart
<1>3. ~ChurnStep /\ ~ChurnWriteFails
  BY <1>1 DEF ChurnStep, ChurnScan, ChurnEvict, ChurnRow, ChurnServer, ChurnUnassign,
     ChurnRequeue, ChurnWriteFails, IdleChurn
<1>4. \A i \in Ids : ~NotFound(i)
  BY DEF NotFound
<1> QED
  BY <1>1, <1>2, <1>3, <1>4, NothingUnderWay DEF Next, Environment

\* Once the routes are served, boot stays where it is or the process dies.
LEMMA ServingStep ==
  ASSUME TypeInv, boot.pc = "serve", Next
  PROVE  boot'.pc \in {"serve", "prune"}
<1>0. boot \in BootState
  BY DEF TypeInv, TypeOK
<1>1. ASSUME NEW t \in Slots, Arrival(t)
      PROVE  UNCHANGED boot
  BY <1>1 DEF Arrival, EnrollStart, RegisterStart, HeartbeatStart, PortStart,
     DisconnectStart
<1>2. ASSUME NEW t \in Slots, TaskStep(t)
      PROVE  UNCHANGED boot
  <2>1. EnrollStep(t) => UNCHANGED boot
    BY DEF EnrollStep, EnrollFindDb, EnrollAsgMem, EnrollAsgDb, EnrollPop,
       EnrollCfg, EnrollPrimary, EnrollPushFront, EnrollRow, EnrollSave, EnrollInsert,
       EnrollUpsert
  <2>2. RegisterStep(t) => UNCHANGED boot
    BY DEF RegisterStep, RegisterCfg, RegisterPrimary, RegisterRow, RegisterSet,
       RegisterQueue
  <2>3. HeartbeatStep(t) \/ PortStep(t) \/ DisconnectStep(t) => UNCHANGED boot
    BY DEF HeartbeatStep, HeartbeatSave, HeartbeatWeight, HeartbeatAdd,
       PortStep, PortSave, PortAddr, DisconnectStep, DisconnectRow, DisconnectServer
  <2> QED
    BY <1>2, <2>1, <2>2, <2>3 DEF TaskStep
<1>3. CASE ChurnStep
  BY <1>3 DEF ChurnStep, ChurnScan, ChurnEvict, ChurnRow, ChurnServer, ChurnUnassign,
     ChurnRequeue
<1>4. ~BootStep /\ ~BootSqlFails
  BY DEF BootStep, BootPrune, BootLoad, BootPass1, BootPass1Done, BootPass2, BootServe,
     BootSqlFails
<1>5. CASE Environment
  <2>1. CASE Crash \/ Redeploy
    BY <2>1 DEF Crash, Redeploy, Reset, Booting
  <2>2. CASE HAProxyRestart
    BY <1>0, <2>2 DEF HAProxyRestart, BootState
  <2>3. ASSUME NEW t \in Slots, Cancel(t) \/ WriteFails(t) \/ QueryFails(t)
        PROVE  UNCHANGED boot
    BY <2>3 DEF Cancel, WriteFails, QueryFails
  <2>4. ASSUME NEW i \in Ids, Expire(i) \/ NotFound(i)
        PROVE  UNCHANGED boot
    BY <2>4 DEF Expire, NotFound, vars
  <2>5. CASE ChurnWriteFails
    BY <2>5 DEF ChurnWriteFails
  <2> QED
    BY <1>4, <1>5, <2>1, <2>2, <2>3, <2>4, <2>5 DEF Environment
<1> QED
  BY <1>1, <1>2, <1>3, <1>4, <1>5 DEF Next

\* The volunteers, as far as recovery looks at them, stay.
LEMMA Treating ==
  ASSUME TypeInv, NEW i, NEW ok \in BOOLEAN, Treated(i, ok)
  PROVE  /\ boot'.pc = boot.pc /\ boot'.todo = boot.todo \ {i}
         /\ boot'.clean = (boot.clean /\ ok)
BY DEF TypeInv, TypeOK, BootState, Treated

\* Pass 1 adds to the file what it lacks, and takes nothing out.
LEMMA Pass1Recovers ==
  ASSUME RecoveryInv, TypeInv', NEW i \in Ids, BootPass1(i)
  PROVE  RecoveryInv'
<1>0. TypeInv /\ boot.pc = "pass1" /\ i \in boot.todo /\ UNCHANGED volunteers
  BY DEF RecoveryInv, BootPass1, memVars
<1>1. CASE /\ IF volunteers[i].svc = None THEN UNCHANGED hapVars
                                          ELSE add_service(volunteers[i].svc)
           /\ Treated(i, TRUE)
  <2>1. /\ boot'.pc = "pass1" /\ boot'.todo = boot.todo \ {i}
        /\ boot'.clean = boot.clean
    BY <1>0, <1>1, Treating DEF TypeInv, TypeOK, BootState
  <2>2. cfg \subseteq cfg' /\ InFile(i)'
    BY <1>0, <1>1 DEF InFile, hapVars, add_service, StartWorker
  <2>3. ASSUME boot'.clean, NEW j \in DOMAIN volunteers \ boot.todo
        PROVE  InFile(j)'
    BY <1>0, <2>1, <2>2, <2>3 DEF RecoveryInv, InFile
  <2> QED
    BY <1>0, <2>1, <2>2, <2>3 DEF RecoveryInv
<1>2. CASE Treated(i, FALSE)
  BY <1>0, <1>2, Treating DEF RecoveryInv
<1> QED
  BY <1>1, <1>2 DEF BootPass1

\* Pass 2 restores one volunteer, and if it repoints the server of a service
\* that another one holds as well, it repoints it at a holder.
LEMMA Pass2Recovers ==
  ASSUME RecoveryInv, TypeInv', NEW i \in Ids, BootPass2(i)
  PROVE  RecoveryInv'
<1> DEFINE v == volunteers[i]
<1>0. /\ TypeInv /\ boot.pc = "pass2" /\ i \in boot.todo /\ i \in DOMAIN volunteers
      /\ UNCHANGED <<volunteers, cfg, loaded>>
  BY DEF RecoveryInv, BootPass2, memVars, TypeInv, BootOK
<1>1. CASE /\ volServers' = Upserted(volServers, i, v.addr)
           /\ svcServers' = IF v.svc # None /\ v.svc \in loaded
                              THEN Upserted(svcServers, v.svc, v.addr)
                              ELSE svcServers
           /\ Treated(i, TRUE)
  <2>1. /\ boot'.pc = "pass2" /\ boot'.todo = boot.todo \ {i}
        /\ boot'.clean = boot.clean
    BY <1>0, <1>1, Treating DEF TypeInv, TypeOK, BootState
  <2>2. /\ i \in DOMAIN volServers'
        /\ volServers'[i] = [addr |-> v.addr, state |-> "ready"]
        /\ \A j \in DOMAIN volServers \ {i} :
             j \in DOMAIN volServers' /\ volServers'[j] = volServers[j]
    BY <1>1 DEF Upserted, Put
  <2>3. \A s \in loaded : PrimaryRestored(s) => PrimaryRestored(s)'
    <3> SUFFICES ASSUME NEW s \in loaded, PrimaryRestored(s)
                 PROVE  PrimaryRestored(s)'
      OBVIOUS
    <3>1. CASE v.svc = s /\ v.svc # None
      <4>1. /\ s \in DOMAIN svcServers'
            /\ svcServers'[s] = [addr |-> v.addr, state |-> "ready"]
        BY <1>1, <3>1 DEF Upserted, Put
      <4> QED
        BY <1>0, <3>1, <4>1 DEF PrimaryRestored
    <3>2. CASE v.svc # s \/ v.svc = None
      <4>1. s \in DOMAIN svcServers' /\ svcServers'[s] = svcServers[s]
        BY <1>1, <3>2 DEF PrimaryRestored, Upserted, Put
      <4> QED
        BY <1>0, <4>1 DEF PrimaryRestored
    <3> QED
      BY <3>1, <3>2
  <2>4. v.svc # None /\ v.svc \in loaded => PrimaryRestored(v.svc)'
    <3> SUFFICES ASSUME v.svc # None, v.svc \in loaded
                 PROVE  PrimaryRestored(v.svc)'
      OBVIOUS
    <3>1. /\ v.svc \in DOMAIN svcServers'
          /\ svcServers'[v.svc] = [addr |-> v.addr, state |-> "ready"]
      BY <1>1 DEF Upserted, Put
    <3> QED
      BY <1>0, <3>1 DEF PrimaryRestored
  <2>5. Restored(i)'
    BY <1>0, <2>2, <2>4 DEF Restored
  <2>6. ASSUME boot'.clean, NEW j \in DOMAIN volunteers \ boot.todo
        PROVE  Restored(j)'
    <3>1. Restored(j) /\ j # i
      BY <1>0, <2>1, <2>6 DEF RecoveryInv
    <3> QED
      BY <1>0, <2>2, <2>3, <3>1 DEF Restored
  <2>7. ASSUME boot'.clean
        PROVE  \A j \in DOMAIN volunteers : InFile(j)'
    BY <1>0, <2>1, <2>7 DEF RecoveryInv, InFile
  <2> QED
    BY <1>0, <2>1, <2>5, <2>6, <2>7 DEF RecoveryInv
<1>2. CASE Treated(i, FALSE)
  BY <1>0, <1>2, Treating DEF RecoveryInv
<1> QED
  BY <1>1, <1>2 DEF BootPass2

LEMMA RecoveryStep == RecoveryInv /\ [Next]_vars => RecoveryInv'
<1> SUFFICES ASSUME RecoveryInv, [Next]_vars PROVE RecoveryInv'
  OBVIOUS
<1>0. TypeInv /\ TypeInv' /\ boot \in BootState
  BY TypeStep DEF RecoveryInv, TypeInv, TypeOK
<1>1. CASE UNCHANGED vars
  BY <1>0, <1>1 DEF RecoveryInv, InFile, Restored, PrimaryRestored, vars, memVars, hapVars
<1>2. CASE Next /\ boot.pc = "serve"
  BY <1>0, <1>2, ServingStep DEF RecoveryInv
<1>3. CASE BootPrune \/ BootServe \/ Crash \/ Redeploy
  <2>1. boot'.pc \in {"prune", "load", "serve"}
    <3>1. CASE BootPrune \/ BootServe
      BY <1>0, <3>1 DEF BootPrune, BootServe, BootState
    <3>2. CASE Crash \/ Redeploy
      BY <3>2 DEF Crash, Redeploy, Reset, Booting
    <3> QED
      BY <1>3, <3>1, <3>2
  <2> QED
    BY <1>0, <2>1 DEF RecoveryInv
<1>4. CASE BootLoad
  <2>1. /\ boot' = [boot EXCEPT !.pc = "pass1", !.todo = DOMAIN dbVol]
        /\ DOMAIN volunteers' = DOMAIN dbVol
    BY <1>4 DEF BootLoad
  <2> QED
    BY <1>0, <2>1 DEF RecoveryInv, BootState
<1>5. CASE BootSqlFails
  BY <1>0, <1>5 DEF RecoveryInv, BootSqlFails, BootState
<1>6. CASE BootPass1Done
  <2>1. /\ boot.pc = "pass1" /\ boot.todo = {} /\ UNCHANGED <<volunteers, cfg>>
        /\ boot'.pc = "pass2" /\ boot'.todo = DOMAIN volunteers /\ boot'.clean = boot.clean
    BY <1>0, <1>6 DEF BootPass1Done, BootState, memVars, hapVars
  <2> QED
    BY <1>0, <2>1 DEF RecoveryInv, InFile
<1>7. CASE HAProxyRestart
  BY <1>0, <1>7 DEF RecoveryInv, HAProxyRestart, BootState
<1>8. ASSUME NEW i \in Ids, Expire(i)
      PROVE  RecoveryInv'
  <2>1. /\ i \in DOMAIN volunteers
        /\ volunteers' = [volunteers EXCEPT ![i].alive = FALSE]
        /\ UNCHANGED <<boot, cfg, loaded, volServers, svcServers>>
    BY <1>8 DEF Expire, hapVars
  <2>2. /\ DOMAIN volunteers' = DOMAIN volunteers
        /\ \A j \in DOMAIN volunteers : /\ volunteers'[j].svc = volunteers[j].svc
                                        /\ volunteers'[j].addr = volunteers[j].addr
    <3>1. \A j \in DOMAIN volunteers : volunteers[j] \in Volunteer
      BY <1>0, MapElim DEF TypeInv, TypeOK
    <3> QED
      BY <2>1, <3>1 DEF Volunteer
  <2>3. \A j \in DOMAIN volunteers : /\ InFile(j) => InFile(j)'
                                     /\ Restored(j) => Restored(j)'
    BY <2>1, <2>2 DEF InFile, Restored, PrimaryRestored
  <2> QED
    BY <1>0, <2>1, <2>2, <2>3 DEF RecoveryInv
<1> QED
  BY <1>0, <1>1, <1>2, <1>3, <1>4, <1>5, <1>6, <1>7, <1>8, BootAlone,
     Pass1Recovers, Pass2Recovers DEF BootStep

\* When the routes open after a start or a crash, and no call of the recovery
\* failed, every recovered volunteer is a ready server at its address, its
\* service is in haproxy.cfg, and a service the worker knows leads to one of
\* its volunteers: for any number of volunteers, services and crashes, with
\* any failure before, and an HAProxy left in any state (main.rs, the two
\* passes over `recovery`).
THEOREM RecoveryIsComplete == Spec => []RecoveryComplete
<1>1. Init => RecoveryInv
  BY TypeInit DEF Init, Booting, RecoveryInv
<1>2. RecoveryInv => RecoveryComplete
  BY DEF RecoveryInv, RecoveryComplete, Recovered
<1> QED
  BY <1>1, <1>2, RecoveryStep, PTL DEF Spec

-----------------------------------------------------------------------------
(* What a step leaves of a service.                                        *)

\* The handlers that have the service in hand.
HandPC == (EnrollPC \ {"upsert"}) \cup RegisterPC
EarlyPC == {"find_db", "asg_mem", "asg_db", "pop"}

InHand(s) == \E t \in Slots : tasks[t].svc = s /\ tasks[t].pc \in HandPC
Listed(s) == \E i \in DOMAIN churn.dead : churn.dead[i] = s
InRow(s) == \E i \in DOMAIN dbAsg : dbAsg[i] = s
InMap(s) == \E i \in DOMAIN volunteers : volunteers[i].svc = s
InQueue(s) == \E k \in DOMAIN pending : pending[k] = s

Traced(s) == InQueue(s) \/ InMap(s) \/ InHand(s) \/ Listed(s) \/ InRow(s)

LEMMA RememberedIsTraced ==
  \A s : /\ Remembered(s) <=> Traced(s)
         /\ Remembered(s)' <=> Traced(s)'
<1> SUFFICES ASSUME NEW s
             PROVE  /\ Remembered(s) <=> Traced(s)
                    /\ Remembered(s)' <=> Traced(s)'
  OBVIOUS
<1>1. QueuedAt(s) # {} <=> InQueue(s)
  BY DEF QueuedAt, InQueue
<1>2. Holders(s) # {} <=> InMap(s)
  BY DEF Holders, InMap
<1>3. QueuedAt(s)' # {} <=> InQueue(s)'
  BY DEF QueuedAt, InQueue
<1>4. Holders(s)' # {} <=> InMap(s)'
  BY DEF Holders, InMap
<1> QED
  BY <1>1, <1>2, <1>3, <1>4
     DEF Remembered, Traced, InHand, Listed, InRow, HandPC

\* What a handler's step does to its task, and to nobody else's.
LEMMA GotoEffect ==
  ASSUME TypeInv, NEW t \in Slots, NEW l, Goto(t, l)
  PROVE  /\ tasks'[t].pc = l /\ tasks'[t].svc = tasks[t].svc
         /\ tasks'[t].id = tasks[t].id /\ tasks'[t].node = tasks[t].node
         /\ tasks'[t].addr = tasks[t].addr /\ tasks'[t].queued = tasks[t].queued
         /\ \A u \in Slots \ {t} : tasks'[u] = tasks[u]
BY DEF TypeInv, TypeOK, Goto, Task

LEMMA FinishEffect ==
  ASSUME TypeInv, NEW t \in Slots, Finish(t)
  PROVE  /\ tasks'[t].pc = "idle" /\ tasks'[t] = IdleTask
         /\ \A u \in Slots \ {t} : tasks'[u] = tasks[u]
BY DEF TypeInv, TypeOK, Finish, IdleTask, Handler

LEMMA BeginEffect ==
  ASSUME TypeInv, NEW t \in Slots, NEW k, Begin(t, k)
  PROVE  /\ tasks'[t] = k
         /\ \A u \in Slots \ {t} : tasks'[u] = tasks[u]
BY DEF TypeInv, TypeOK, Begin

\* A step of an enrollment that chooses where it goes, and its service.
LEMMA ChoiceEffect ==
  ASSUME TypeInv, NEW t \in Slots,
         EnrollFindDb(t) \/ EnrollAsgMem(t) \/ EnrollAsgDb(t) \/ EnrollPop(t) \/ QueryFails(t)
  PROVE  /\ tasks[t].pc \in EarlyPC
         /\ tasks'[t].pc \in EnrollPC \ {"upsert"}
         /\ tasks[t].svc = None /\ tasks'[t].pc \in EarlyPC => tasks'[t].svc = None
         /\ \A u \in Slots \ {t} : tasks'[u] = tasks[u]
         /\ UNCHANGED <<volunteers, dbAsg, churn, boot, owner, lost>>
         /\ \/ UNCHANGED pending
            \/ /\ pending # <<>> /\ pending' = Tail(pending)
               /\ tasks'[t].svc = Head(pending) /\ tasks'[t].pc = "cfg"
<1>0. tasks[t] \in Task /\ tasks \in [Slots -> Task]
  BY DEF TypeInv, TypeOK
<1>1. CASE EnrollFindDb(t)
  <2>1. PICK l \in {"asg_mem", "pop"}, i \in DOMAIN dbVol \cup Ids :
          tasks' = [tasks EXCEPT ![t].pc = l, ![t].id = i]
    BY <1>1 DEF EnrollFindDb, KnownBy
  <2>2. tasks'[t].pc = l /\ tasks'[t].svc = tasks[t].svc
        /\ \A u \in Slots \ {t} : tasks'[u] = tasks[u]
    BY <1>0, <2>1 DEF Task
  <2> QED
    BY <1>1, <2>2 DEF EnrollFindDb, At, EarlyPC, EnrollPC, memVars, dbVars
<1>2. CASE EnrollAsgMem(t)
  <2>0. PICK l \in {"cfg", "asg_db"} : \E s :
          /\ tasks' = [tasks EXCEPT ![t].pc = l, ![t].svc = s]
          /\ l = "asg_db" => s = None
    BY <1>2 DEF EnrollAsgMem
  <2>1. PICK s :
          /\ tasks' = [tasks EXCEPT ![t].pc = l, ![t].svc = s]
          /\ l = "asg_db" => s = None
    BY <2>0
  <2>2. tasks'[t].pc = l /\ tasks'[t].svc = s
        /\ \A u \in Slots \ {t} : tasks'[u] = tasks[u]
    BY <1>0, <2>1 DEF Task
  <2> QED
    BY <1>2, <2>1, <2>2 DEF EnrollAsgMem, At, EarlyPC, EnrollPC, memVars, dbVars, auxVars
<1>3. CASE EnrollAsgDb(t)
  <2>0. PICK l \in {"cfg", "pop"} : \E s :
          /\ tasks' = [tasks EXCEPT ![t].pc = l, ![t].svc = s]
          /\ l = "pop" => s = None
    BY <1>3 DEF EnrollAsgDb
  <2>1. PICK s :
          /\ tasks' = [tasks EXCEPT ![t].pc = l, ![t].svc = s]
          /\ l = "pop" => s = None
    BY <2>0
  <2>2. tasks'[t].pc = l /\ tasks'[t].svc = s
        /\ \A u \in Slots \ {t} : tasks'[u] = tasks[u]
    BY <1>0, <2>1 DEF Task
  <2> QED
    BY <1>3, <2>1, <2>2 DEF EnrollAsgDb, At, EarlyPC, EnrollPC, memVars, dbVars, auxVars
<1>4. CASE EnrollPop(t)
  <2>1. CASE pending = <<>> /\ Goto(t, "save") /\ UNCHANGED pending
    BY <1>4, <2>1, GotoEffect DEF EnrollPop, At, EarlyPC, EnrollPC, dbVars, auxVars
  <2>2. CASE /\ pending # <<>> /\ pending' = Tail(pending)
             /\ tasks' = [tasks EXCEPT ![t].pc = "cfg", ![t].svc = Head(pending),
                                       ![t].queued = TRUE]
    <3>1. tasks'[t].pc = "cfg" /\ tasks'[t].svc = Head(pending)
          /\ \A u \in Slots \ {t} : tasks'[u] = tasks[u]
      BY <1>0, <2>2 DEF Task
    <3> QED
      BY <1>4, <2>2, <3>1 DEF EnrollPop, At, EarlyPC, EnrollPC, dbVars, auxVars
  <2> QED
    BY <1>4, <2>1, <2>2 DEF EnrollPop
<1>5. CASE QueryFails(t)
  <2>1. CASE At(t, "asg_db") /\ Goto(t, "pop")
    BY <1>5, <2>1, GotoEffect DEF QueryFails, At, EarlyPC, EnrollPC, memVars, dbVars
  <2>2. ASSUME At(t, "find_db"), NEW i \in Ids,
               tasks' = [tasks EXCEPT ![t].pc = "pop", ![t].id = i]
        PROVE  /\ tasks'[t].pc = "pop" /\ tasks'[t].svc = tasks[t].svc
               /\ \A u \in Slots \ {t} : tasks'[u] = tasks[u]
    BY <1>0, <2>2 DEF Task
  <2> QED
    BY <1>5, <2>1, <2>2 DEF QueryFails, At, EarlyPC, EnrollPC, memVars, dbVars
<1> QED
  BY <1>1, <1>2, <1>3, <1>4, <1>5

Excused(s) ==
  \/ boot.pc = "prune" \/ boot'.pc = "prune"
  \/ s \in lost'
  \/ DroppedByHandler(s) \/ Overwritten(s) \/ EvictedAsOther(s)

Kept(s) == Traced(s) => Traced(s)' \/ Excused(s)

\* A step that touches one task and no other trace of s.
LEMMA TraceFrame ==
  ASSUME NEW s, NEW t \in Slots, \A u \in Slots \ {t} : tasks'[u] = tasks[u],
         tasks[t].svc = s /\ tasks[t].pc \in HandPC => Traced(s)' \/ Excused(s),
         InQueue(s) => Traced(s)' \/ Excused(s),
         InMap(s) => Traced(s)' \/ Excused(s),
         Listed(s) => Traced(s)' \/ Excused(s),
         InRow(s) => Traced(s)' \/ Excused(s)
  PROVE  Kept(s)
<1>1. InHand(s) => Traced(s)' \/ Excused(s)
  BY DEF InHand, Traced
<1> QED
  BY <1>1 DEF Kept, Traced

\* The traces that are where they were.
LEMMA SameTraces ==
  \A s : /\ UNCHANGED pending /\ InQueue(s) => Traced(s)'
         /\ UNCHANGED volunteers /\ InMap(s) => Traced(s)'
         /\ UNCHANGED churn /\ Listed(s) => Traced(s)'
         /\ UNCHANGED dbAsg /\ InRow(s) => Traced(s)'
         /\ UNCHANGED tasks /\ InHand(s) => Traced(s)'
BY DEF Traced, InQueue, InMap, Listed, InRow, InHand

\* pop_front hands the front service to the handler.
LEMMA ChoiceKeeps ==
  ASSUME TraceInv, NEW t \in Slots,
         \/ EnrollFindDb(t) \/ EnrollAsgMem(t) \/ EnrollAsgDb(t) \/ EnrollPop(t)
         \/ QueryFails(t),
         NEW s \in Accepted
  PROVE  Kept(s)
<1>1. /\ tasks[t].pc \in EarlyPC
      /\ tasks'[t].pc \in EnrollPC \ {"upsert"}
      /\ \A u \in Slots \ {t} : tasks'[u] = tasks[u]
      /\ UNCHANGED <<volunteers, dbAsg, churn, boot, owner, lost>>
      /\ \/ UNCHANGED pending
         \/ /\ pending # <<>> /\ pending' = Tail(pending)
            /\ tasks'[t].svc = Head(pending) /\ tasks'[t].pc = "cfg"
  BY ChoiceEffect DEF TraceInv
<1>2. s # None /\ tasks[t].svc = None
  BY <1>1, ConstantsAssumption DEF Accepted, TraceInv, EarlyPC
<1>3. InQueue(s) => Traced(s)'
  <2>1. CASE UNCHANGED pending
    BY <2>1, SameTraces
  <2>2. CASE /\ pending # <<>> /\ pending' = Tail(pending)
             /\ tasks'[t].svc = Head(pending) /\ tasks'[t].pc = "cfg"
    <3> SUFFICES ASSUME NEW k \in DOMAIN pending, pending[k] = s
                 PROVE  Traced(s)'
      BY DEF InQueue
    <3>1. pending \in Seq(Services)
      BY DEF TraceInv, TypeInv, TypeOK
    <3>2. CASE k = 1
      BY <1>1, <2>2, <3>1, <3>2 DEF Traced, InHand, HandPC, EnrollPC
    <3>3. CASE k # 1
      <4>1. k - 1 \in DOMAIN pending' /\ pending'[k - 1] = s
        BY <2>2, <3>1, <3>3
      <4> QED
        BY <4>1 DEF Traced, InQueue
    <3> QED
      BY <3>2, <3>3
  <2> QED
    BY <1>1, <2>1, <2>2
<1> QED
  BY <1>1, <1>2, <1>3, SameTraces, TraceFrame

\* An enrollment goes on with the service it has, stores it or puts it back.
LEMMA EnrollKeeps ==
  ASSUME TraceInv, NEW t \in Slots,
         \/ EnrollCfg(t) \/ EnrollPrimary(t) \/ EnrollPushFront(t) \/ EnrollRow(t)
         \/ EnrollSave(t) \/ EnrollInsert(t) \/ EnrollUpsert(t),
         NEW s \in Accepted
  PROVE  Kept(s)
<1>0. TypeInv /\ tasks[t] \in Task /\ tasks \in [Slots -> Task]
  BY DEF TraceInv, TypeInv, TypeOK
<1>1. ASSUME NEW l \in EnrollPC \ {"upsert"}, Goto(t, l)
      PROVE  /\ \A u \in Slots \ {t} : tasks'[u] = tasks[u]
             /\ tasks[t].svc = s /\ tasks[t].pc \in HandPC => Traced(s)'
  BY <1>0, <1>1, GotoEffect DEF Traced, InHand, HandPC
<1>2. CASE EnrollCfg(t) \/ EnrollPrimary(t) \/ EnrollSave(t)
  <2>1. PICK l \in EnrollPC \ {"upsert"} : Goto(t, l)
    BY <1>2 DEF EnrollCfg, EnrollPrimary, EnrollSave, AssignFailed, EnrollPC
  <2>2. UNCHANGED <<pending, volunteers, churn, dbAsg>>
    BY <1>2 DEF EnrollCfg, EnrollPrimary, EnrollSave, memVars, dbVars
  <2> QED
    BY <1>1, <2>1, <2>2, SameTraces, TraceFrame
<1>3. CASE EnrollPushFront(t)
  <2>1. tasks'[t].pc = "save" /\ \A u \in Slots \ {t} : tasks'[u] = tasks[u]
    BY <1>0, <1>3 DEF EnrollPushFront, Task
  <2>2. UNCHANGED <<volunteers, churn, dbAsg>>
    BY <1>3 DEF EnrollPushFront, dbVars
  <2>3. pending \in Seq(Services) /\ tasks[t].svc \in Services
        /\ pending' = <<tasks[t].svc>> \o pending
    BY <1>0, <1>3 DEF EnrollPushFront, TypeInv, TypeOK, TaskOK, At
  <2>4. /\ 1 \in DOMAIN pending' /\ pending'[1] = tasks[t].svc
        /\ \A k \in DOMAIN pending : k + 1 \in DOMAIN pending' /\ pending'[k + 1] = pending[k]
    BY <2>3
  <2>5. InQueue(s) => Traced(s)'
    BY <2>4 DEF Traced, InQueue
  <2>6. tasks[t].svc = s => Traced(s)'
    BY <2>4 DEF Traced, InQueue
  <2> QED
    BY <2>1, <2>2, <2>5, <2>6, SameTraces, TraceFrame
<1>4. CASE EnrollRow(t)
  <2>1. "save" \in EnrollPC \ {"upsert"} /\ Goto(t, "save")
    BY <1>4 DEF EnrollRow, EnrollPC
  <2>2. UNCHANGED <<pending, volunteers, churn>>
        /\ dbAsg' = Put(dbAsg, tasks[t].id, tasks[t].svc)
    BY <1>4 DEF EnrollRow, memVars
  <2>3. InRow(s) => Traced(s)' \/ Excused(s)
    BY <2>2 DEF InRow, Traced, Excused, Overwritten, Put
  <2> QED
    BY <1>1, <2>1, <2>2, <2>3, SameTraces, TraceFrame
<1>5. CASE EnrollInsert(t)
  <2> DEFINE v == [node |-> tasks[t].node, addr |-> tasks[t].addr,
                   svc |-> tasks[t].svc, alive |-> TRUE]
  <2>1. \A u \in Slots \ {t} : tasks'[u] = tasks[u]
    BY <1>0, <1>5, GotoEffect DEF EnrollInsert
  <2>2. UNCHANGED <<pending, churn, dbAsg>>
        /\ volunteers' = Put(volunteers, tasks[t].id, v)
    BY <1>5 DEF EnrollInsert, dbVars
  <2>3. /\ tasks[t].id \in DOMAIN volunteers' /\ volunteers'[tasks[t].id].svc = tasks[t].svc
        /\ \A i \in DOMAIN volunteers \ {tasks[t].id} :
             i \in DOMAIN volunteers' /\ volunteers'[i] = volunteers[i]
    BY <2>2 DEF Put
  <2>4. tasks[t].svc = s => Traced(s)'
    BY <2>3 DEF Traced, InMap
  <2>5. InMap(s) => Traced(s)' \/ Excused(s)
    BY <2>3 DEF InMap, Traced, Excused, Overwritten
  <2> QED
    BY <2>1, <2>2, <2>4, <2>5, SameTraces, TraceFrame
<1>6. CASE EnrollUpsert(t)
  <2>1. \A u \in Slots \ {t} : tasks'[u] = tasks[u]
    BY <1>0, <1>6, FinishEffect DEF EnrollUpsert
  <2>2. tasks[t].pc \notin HandPC /\ UNCHANGED <<pending, volunteers, churn, dbAsg>>
    BY <1>6 DEF EnrollUpsert, At, HandPC, RegisterPC, memVars, dbVars
  <2> QED
    BY <2>1, <2>2, SameTraces, TraceFrame
<1> QED
  BY <1>2, <1>3, <1>4, <1>5, <1>6

\* A registration has in hand only what is not accepted yet; it may write it
\* over another service.
LEMMA RegisterKeeps ==
  ASSUME TraceInv, NEW t \in Slots, RegisterStep(t), NEW s \in Accepted
  PROVE  Kept(s)
<1>0. TypeInv /\ tasks[t] \in Task /\ tasks \in [Slots -> Task]
  BY DEF TraceInv, TypeInv, TypeOK
<1>1. tasks[t].pc \in RegisterPC
  BY DEF RegisterStep, RegisterCfg, RegisterPrimary, RegisterRow, RegisterSet,
     RegisterQueue, At, RegisterPC
<1>2. tasks[t].svc # s
  BY <1>1 DEF TraceInv, Accepted
<1>3. UNCHANGED churn /\ \A u \in Slots \ {t} : tasks'[u] = tasks[u]
  <2>1. \A l : Goto(t, l) => \A u \in Slots \ {t} : tasks'[u] = tasks[u]
    BY <1>0, GotoEffect
  <2>2. Finish(t) => \A u \in Slots \ {t} : tasks'[u] = tasks[u]
    BY <1>0, FinishEffect
  <2> QED
    BY <2>1, <2>2 DEF RegisterStep, RegisterCfg, RegisterPrimary, RegisterRow,
       RegisterSet, RegisterQueue, Refused
<1>4. CASE RegisterCfg(t) \/ RegisterPrimary(t)
  <2>1. UNCHANGED <<pending, volunteers, dbAsg>>
    BY <1>4 DEF RegisterCfg, RegisterPrimary, memVars, dbVars
  <2> QED
    BY <1>2, <1>3, <2>1, SameTraces, TraceFrame
<1>5. CASE RegisterRow(t)
  <2>1. UNCHANGED <<pending, volunteers>> /\ dbAsg' = Put(dbAsg, tasks[t].id, tasks[t].svc)
    BY <1>5 DEF RegisterRow, memVars
  <2>2. InRow(s) => Traced(s)' \/ Excused(s)
    BY <2>1 DEF InRow, Traced, Excused, Overwritten, Put
  <2> QED
    BY <1>2, <1>3, <2>1, <2>2, SameTraces, TraceFrame
<1>6. CASE RegisterSet(t)
  <2>1. UNCHANGED <<pending, dbAsg>>
    BY <1>6 DEF RegisterSet, dbVars
  <2>2. /\ DOMAIN volunteers' = DOMAIN volunteers
    BY <1>6 DEF RegisterSet
  <2>3. InMap(s) => Traced(s)' \/ Excused(s)
    BY <2>2 DEF InMap, Traced, Excused, Overwritten
  <2> QED
    BY <1>2, <1>3, <2>1, <2>3, SameTraces, TraceFrame
<1>7. CASE RegisterQueue(t)
  <2>1. UNCHANGED <<volunteers, dbAsg>> /\ pending' = Append(pending, tasks[t].svc)
    BY <1>7 DEF RegisterQueue, dbVars
  <2>2. \A k \in DOMAIN pending : k \in DOMAIN pending' /\ pending'[k] = pending[k]
    BY <1>0, <2>1 DEF TypeInv, TypeOK
  <2>3. InQueue(s) => Traced(s)'
    BY <2>2 DEF InQueue, Traced
  <2> QED
    BY <1>2, <1>3, <2>1, <2>3, SameTraces, TraceFrame
<1> QED
  BY <1>4, <1>5, <1>6, <1>7 DEF RegisterStep

\* Heartbeats, tunnel-port changes and disconnects have no service in hand.
LEMMA UpkeepKeeps ==
  ASSUME TraceInv, NEW t \in Slots, HeartbeatStep(t) \/ PortStep(t) \/ DisconnectStep(t),
         NEW s
  PROVE  Kept(s)
<1>0. TypeInv
  BY DEF TraceInv
<1>1. /\ tasks[t].pc \notin HandPC
      /\ UNCHANGED <<pending, volunteers, churn, dbAsg>>
  BY DEF HeartbeatStep, HeartbeatSave, HeartbeatWeight, HeartbeatAdd, PortStep, PortSave,
     PortAddr, DisconnectStep, DisconnectRow, DisconnectServer, At, HandPC, EnrollPC,
     RegisterPC, memVars, dbVars
<1>2. \A u \in Slots \ {t} : tasks'[u] = tasks[u]
  <2>1. Finish(t) \/ \E l : Goto(t, l)
    BY DEF HeartbeatStep, HeartbeatSave, HeartbeatWeight, HeartbeatAdd, PortStep, PortSave,
       PortAddr, DisconnectStep, DisconnectRow, DisconnectServer
  <2> QED
    BY <1>0, <2>1, GotoEffect, FinishEffect
<1> QED
  BY <1>1, <1>2, SameTraces, TraceFrame

\* A volunteer's address or its heartbeat is refreshed; its service stays.
LEMMA FieldKeeps ==
  ASSUME TypeInv, NEW i \in DOMAIN volunteers, NEW x, NEW s,
         \/ volunteers' = [volunteers EXCEPT ![i].alive = x]
         \/ volunteers' = [volunteers EXCEPT ![i].addr = x]
  PROVE  /\ DOMAIN volunteers' = DOMAIN volunteers
         /\ \A j \in DOMAIN volunteers : volunteers'[j].svc = volunteers[j].svc
         /\ InMap(s) => Traced(s)'
<1>1. \A j \in DOMAIN volunteers : volunteers[j] \in Volunteer
  BY MapElim DEF TypeInv, TypeOK
<1>2. /\ DOMAIN volunteers' = DOMAIN volunteers
      /\ \A j \in DOMAIN volunteers : volunteers'[j].svc = volunteers[j].svc
  BY <1>1 DEF Volunteer
<1> QED
  BY <1>2 DEF InMap, Traced

\* A request that arrives takes nothing away, but a disconnect its volunteer.
LEMMA ArrivalKeeps ==
  ASSUME TraceInv, NEW t \in Slots, Arrival(t), NEW s \in Accepted
  PROVE  Kept(s)
<1>0. TypeInv
  BY DEF TraceInv
<1>1. PICK k : Begin(t, k)
  BY DEF Arrival, EnrollStart, RegisterStart, HeartbeatStart, PortStart, DisconnectStart
<1>2. \A u \in Slots \ {t} : tasks'[u] = tasks[u]
  BY <1>0, <1>1, BeginEffect
<1>3. /\ UNCHANGED <<pending, churn, dbAsg>>
      /\ tasks[t].pc \notin HandPC
  BY DEF Arrival, EnrollStart, RegisterStart, HeartbeatStart, PortStart, DisconnectStart,
     MayStart, Idle, HandPC, EnrollPC, RegisterPC, memVars, dbVars
<1>4. InMap(s) => Traced(s)' \/ Excused(s)
  <2>1. CASE \/ \E n \in Hosts, a \in Addrs : EnrollStart(t, n, a)
             \/ \E r \in Services : RegisterStart(t, r)
    <3>1. UNCHANGED volunteers
      BY <2>1 DEF EnrollStart, RegisterStart, memVars
    <3> QED
      BY <3>1, SameTraces
  <2>2. ASSUME NEW i \in Ids, HeartbeatStart(t, i)
        PROVE  InMap(s) => Traced(s)'
    BY <1>0, <2>2, FieldKeeps DEF HeartbeatStart
  <2>3. ASSUME NEW i \in Ids, NEW a \in Addrs, PortStart(t, i, a)
        PROVE  InMap(s) => Traced(s)'
    BY <1>0, <2>3, FieldKeeps DEF PortStart
  <2>4. ASSUME NEW i \in Ids, DisconnectStart(t, i)
        PROVE  InMap(s) => Traced(s)' \/ Excused(s)
    <3>1. /\ volunteers' = Drop(volunteers, i)
          /\ lost' = lost \cup ({volunteers[i].svc} \ {None})
      BY <2>4 DEF DisconnectStart
    <3>2. s # None
      BY ConstantsAssumption DEF Accepted
    <3> QED
      BY <3>1, <3>2 DEF InMap, Traced, Excused, Drop
  <2> QED
    BY <2>1, <2>2, <2>3, <2>4 DEF Arrival
<1> QED
  BY <1>2, <1>3, <1>4, SameTraces, TraceFrame

\* The churn monitor's list keeps the services of the other dead volunteers.
LEMMA NextDead ==
  ASSUME ChurnNext, churn.id \in DOMAIN churn.dead
  PROVE  /\ \A i \in DOMAIN churn.dead \ {churn.id} :
              i \in DOMAIN churn'.dead /\ churn'.dead[i] = churn.dead[i]
         /\ churn'.pc = "tick" => churn' = IdleChurn
<1> DEFINE rest == Drop(churn.dead, churn.id)
<1>1. /\ DOMAIN rest = DOMAIN churn.dead \ {churn.id}
      /\ \A i \in DOMAIN rest : rest[i] = churn.dead[i]
  BY DEF Drop
<1>2. churn' = IF DOMAIN rest = {} THEN IdleChurn
               ELSE [pc |-> "evict", id |-> None, dead |-> rest]
  BY DEF ChurnNext
<1> HIDE DEF rest
<1> QED
  BY <1>1, <1>2

\* What the churn monitor takes from a volunteer it has on its list.
LEMMA ChurnKeeps ==
  ASSUME TraceInv, ChurnStep \/ ChurnWriteFails, NEW s \in Accepted
  PROVE  Kept(s)
<1>0. TypeInv /\ churn \in ChurnState /\ ChurnOK /\ s # None
  BY ConstantsAssumption DEF TraceInv, TypeInv, TypeOK, Accepted
<1>1. UNCHANGED tasks
  BY DEF ChurnStep, ChurnScan, ChurnEvict, ChurnRow, ChurnServer, ChurnUnassign,
     ChurnRequeue, ChurnWriteFails
<1>2. ASSUME InQueue(s) => Traced(s)' \/ Excused(s),
             InMap(s) => Traced(s)' \/ Excused(s),
             Listed(s) => Traced(s)' \/ Excused(s),
             InRow(s) => Traced(s)' \/ Excused(s)
      PROVE  Kept(s)
  BY <1>1, <1>2, SameTraces DEF Kept, Traced
<1>3. CASE ChurnScan
  <2>1. UNCHANGED <<pending, volunteers, dbAsg>> /\ DOMAIN churn.dead = {}
    BY <1>3, EmptyMapType DEF ChurnScan, TraceInv, IdleChurn, memVars, dbVars
  <2> QED
    BY <1>2, <2>1, SameTraces DEF Listed
<1>4. ASSUME NEW i \in Ids, ChurnEvict(i)
      PROVE  Kept(s)
  <2>1. /\ UNCHANGED <<pending, dbAsg>> /\ i \in DOMAIN churn.dead
        /\ volunteers' = Drop(volunteers, i)
        /\ churn'.dead = churn.dead
    BY <1>0, <1>4 DEF ChurnEvict, ChurnState, dbVars
  <2>2. Listed(s) => Traced(s)'
    BY <2>1 DEF Listed, Traced
  <2>3. InMap(s) => Traced(s)' \/ Excused(s)
    <3> SUFFICES ASSUME NEW j \in DOMAIN volunteers, volunteers[j].svc = s
                 PROVE  Traced(s)' \/ Excused(s)
      BY DEF InMap
    <3>1. CASE j # i
      BY <2>1, <3>1 DEF Drop, Traced, InMap
    <3>2. CASE j = i /\ churn.dead[i] = s
      BY <2>1, <3>2 DEF Listed, Traced
    <3>3. CASE j = i /\ churn.dead[i] # s
      BY <2>1, <3>3 DEF Drop, Excused, EvictedAsOther
    <3> QED
      BY <3>1, <3>2, <3>3
  <2> QED
    BY <1>2, <2>1, <2>2, <2>3, SameTraces
<1>5. CASE ChurnRow \/ ChurnWriteFails
  <2>1. UNCHANGED <<pending, volunteers, dbAsg>> /\ churn'.dead = churn.dead
    BY <1>0, <1>5 DEF ChurnRow, ChurnWriteFails, ChurnState, memVars, dbVars
  <2>2. Listed(s) => Traced(s)'
    BY <2>1 DEF Listed, Traced
  <2> QED
    BY <1>2, <2>1, <2>2, SameTraces
<1>6. CASE ChurnServer
  <2>1. UNCHANGED <<pending, volunteers, dbAsg>> /\ churn.id \in DOMAIN churn.dead
    BY <1>0, <1>6 DEF ChurnServer, ChurnOK, memVars, dbVars
  <2>2. Listed(s) => Traced(s)'
    <3>1. CASE churn.dead[churn.id] # None
      <4>1. churn'.dead = churn.dead
        BY <1>0, <1>6, <3>1 DEF ChurnServer, ChurnState
      <4> QED
        BY <4>1 DEF Listed, Traced
    <3>2. CASE churn.dead[churn.id] = None
      BY <1>0, <1>6, <2>1, <3>2, NextDead DEF ChurnServer, Listed, Traced
    <3> QED
      BY <3>1, <3>2
  <2> QED
    BY <1>2, <2>1, <2>2, SameTraces
<1>7. CASE ChurnUnassign
  <2>1. /\ UNCHANGED <<pending, volunteers>> /\ churn.id \in DOMAIN churn.dead
        /\ churn'.dead = churn.dead /\ dbAsg' = Drop(dbAsg, churn.id)
    BY <1>0, <1>7 DEF ChurnUnassign, ChurnOK, ChurnState, memVars
  <2>2. Listed(s) => Traced(s)'
    BY <2>1 DEF Listed, Traced
  <2>3. InRow(s) => Traced(s)' \/ Excused(s)
    <3> SUFFICES ASSUME NEW j \in DOMAIN dbAsg, dbAsg[j] = s
                 PROVE  Traced(s)' \/ Excused(s)
      BY DEF InRow
    <3>1. CASE j # churn.id
      BY <2>1, <3>1 DEF Drop, Traced, InRow
    <3>2. CASE j = churn.id /\ churn.dead[j] = s
      BY <2>1, <3>2 DEF Listed, Traced
    <3>3. CASE j = churn.id /\ churn.dead[j] # s
      BY <2>1, <3>3 DEF Drop, Excused, EvictedAsOther
    <3> QED
      BY <3>1, <3>2, <3>3
  <2> QED
    BY <1>2, <2>1, <2>2, <2>3, SameTraces
<1>8. CASE ChurnRequeue
  <2>1. /\ UNCHANGED <<volunteers, dbAsg>> /\ churn.id \in DOMAIN churn.dead
        /\ pending' = Append(pending, churn.dead[churn.id])
        /\ pending \in Seq(Services)
    BY <1>0, <1>8 DEF ChurnRequeue, ChurnOK, TypeInv, TypeOK, dbVars
  <2>2. /\ \A k \in DOMAIN pending : k \in DOMAIN pending' /\ pending'[k] = pending[k]
        /\ Len(pending) + 1 \in DOMAIN pending'
        /\ pending'[Len(pending) + 1] = churn.dead[churn.id]
    BY <2>1
  <2>3. InQueue(s) => Traced(s)'
    BY <2>2 DEF InQueue, Traced
  <2>4. Listed(s) => Traced(s)'
    BY <1>8, <2>1, <2>2, NextDead DEF ChurnRequeue, Listed, InQueue, Traced
  <2> QED
    BY <1>2, <2>1, <2>3, <2>4, SameTraces
<1> QED
  BY <1>3, <1>4, <1>5, <1>6, <1>7, <1>8 DEF ChurnStep

\* main() drops assignments in its first step only; the rest of the
\* environment drops a handler, or restarts the process.
LEMMA RestKeeps ==
  ASSUME TraceInv, BootStep \/ BootSqlFails \/ Crash \/ Redeploy \/ HAProxyRestart
                   \/ (\E i \in Ids : Expire(i) \/ NotFound(i)),
         NEW s
  PROVE  Kept(s)
<1>0. TypeInv
  BY DEF TraceInv
<1>1. CASE boot.pc = "prune" \/ boot'.pc = "prune"
  BY <1>1 DEF Kept, Excused
<1>2. CASE boot.pc = "load" /\ (BootLoad \/ BootSqlFails)
  <2>1. ~InMap(s) /\ UNCHANGED <<pending, tasks, churn, dbAsg>>
    BY <1>2 DEF TraceInv, InMap, BootLoad, BootSqlFails, dbVars
  <2> QED
    BY <2>1, SameTraces DEF Kept, Traced
<1>3. CASE \/ \E i \in Ids : BootPass1(i) \/ BootPass2(i) \/ NotFound(i)
           \/ BootPass1Done \/ BootServe \/ HAProxyRestart
  <2>1. UNCHANGED <<pending, volunteers, tasks, churn, dbAsg>>
    BY <1>3 DEF BootPass1, BootPass2, NotFound, BootPass1Done, BootServe,
       HAProxyRestart, vars, memVars, dbVars
  <2> QED
    BY <2>1, SameTraces DEF Kept, Traced
<1>4. ASSUME NEW i \in Ids, Expire(i)
      PROVE  Kept(s)
  <2>1. UNCHANGED <<pending, tasks, churn, dbAsg>> /\ i \in DOMAIN volunteers
        /\ volunteers' = [volunteers EXCEPT ![i].alive = FALSE]
    BY <1>4 DEF Expire, dbVars
  <2> QED
    BY <1>0, <2>1, SameTraces, FieldKeeps DEF Kept, Traced
<1>5. Crash \/ Redeploy => boot'.pc = "prune"
  BY DEF Crash, Redeploy, Reset, Booting
<1>6. BootPrune \/ BootSqlFails => boot.pc \in {"prune", "load"}
  BY DEF BootPrune, BootSqlFails
<1>7. BootPrune => boot.pc = "prune"
  BY DEF BootPrune
<1>8. BootLoad => boot.pc = "load"
  BY DEF BootLoad
<1> QED
  BY <1>1, <1>2, <1>3, <1>4, <1>5, <1>6, <1>7, <1>8 DEF BootStep

\* A dropped handler, and one whose write failed.
LEMMA HandlerFailureKeeps ==
  ASSUME TraceInv, NEW t \in Slots, Cancel(t) \/ WriteFails(t), NEW s \in Accepted
  PROVE  Kept(s)
<1>0. TypeInv /\ tasks[t] \in Task
  BY DEF TraceInv, TypeInv, TypeOK
<1>1. UNCHANGED <<pending, volunteers, churn, dbAsg>>
  BY DEF Cancel, WriteFails, memVars, dbVars
<1>2. CASE Cancel(t)
  <2>1. /\ tasks'[t].pc = "idle"
        /\ \A u \in Slots \ {t} : tasks'[u] = tasks[u]
    BY <1>0, <1>2, FinishEffect DEF Cancel
  <2>2. tasks[t].svc = s /\ tasks[t].pc \in HandPC => Excused(s)
    BY <2>1 DEF TraceInv, Accepted, HandPC, Excused, DroppedByHandler
  <2> QED
    BY <1>1, <2>1, <2>2, SameTraces, TraceFrame
<1>3. CASE WriteFails(t)
  <2>1. tasks[t].pc \in DOMAIN AfterWrite /\ Goto(t, AfterWrite[tasks[t].pc])
    BY <1>3 DEF WriteFails
  <2>2. /\ tasks'[t].pc = AfterWrite[tasks[t].pc] /\ tasks'[t].svc = tasks[t].svc
        /\ \A u \in Slots \ {t} : tasks'[u] = tasks[u]
    BY <1>0, <2>1, GotoEffect
  <2>3. tasks[t].pc \in HandPC => tasks'[t].pc \in HandPC
    BY <2>1, <2>2 DEF AfterWrite, HandPC, EnrollPC, RegisterPC
  <2>4. tasks[t].svc = s /\ tasks[t].pc \in HandPC => Traced(s)'
    BY <2>2, <2>3 DEF Traced, InHand
  <2> QED
    BY <1>1, <2>2, <2>4, SameTraces, TraceFrame
<1> QED
  BY <1>2, <1>3

-----------------------------------------------------------------------------
(* The invariant that the above rests on.                                  *)

TasksTrace ==
  /\ \A t \in Slots : tasks[t].pc \in RegisterPC =>
       /\ owner[tasks[t].svc] = "sent"
       /\ \A u \in Slots :
            tasks[u].pc \in RegisterPC /\ tasks[u].svc = tasks[t].svc => u = t
  /\ \A t \in Slots : tasks[t].pc \in EarlyPC => tasks[t].svc = None

RestTrace ==
  /\ churn.pc = "tick" => churn = IdleChurn
  /\ boot.pc \in {"prune", "load"} => DOMAIN volunteers = {}

LEMMA TraceParts ==
  /\ TraceInv <=> TypeInv /\ TasksTrace /\ RestTrace
  /\ TraceInv' <=> TypeInv' /\ TasksTrace' /\ RestTrace'
BY DEF TraceInv, TasksTrace, RestTrace, EarlyPC

\* A handler that goes on with what it has.
LEMMA TasksGoOn ==
  ASSUME TasksTrace, NEW t \in Slots, \A u \in Slots \ {t} : tasks'[u] = tasks[u],
         tasks'[t].pc \in RegisterPC =>
           tasks[t].pc \in RegisterPC /\ tasks'[t].svc = tasks[t].svc,
         tasks'[t].pc \in EarlyPC => tasks'[t].svc = None,
         UNCHANGED owner
  PROVE  TasksTrace'
BY DEF TasksTrace

\* A registration that ends.
LEMMA TasksFinish ==
  ASSUME TypeInv, TasksTrace, NEW t \in Slots, Finish(t),
         \/ UNCHANGED owner
         \/ tasks[t].pc \in RegisterPC
            /\ \E o : owner' = [owner EXCEPT ![tasks[t].svc] = o]
  PROVE  TasksTrace'
<1>1. /\ tasks'[t].pc = "idle"
      /\ \A u \in Slots \ {t} : tasks'[u] = tasks[u]
  BY FinishEffect
<1>2. "idle" \notin RegisterPC /\ "idle" \notin EarlyPC
  BY DEF RegisterPC, EarlyPC
<1>3. CASE UNCHANGED owner
  BY <1>1, <1>2, <1>3, TasksGoOn
<1>4. CASE tasks[t].pc \in RegisterPC
           /\ \E o : owner' = [owner EXCEPT ![tasks[t].svc] = o]
  <2>1. \A r \in Services \ {tasks[t].svc} : owner'[r] = owner[r]
    BY <1>4 DEF TypeInv, TypeOK
  <2>2. \A u \in Slots : tasks'[u].pc \in RegisterPC =>
          /\ u # t /\ tasks'[u] = tasks[u]
          /\ tasks[u].svc \in Services \ {tasks[t].svc}
    BY <1>1, <1>2, <1>4 DEF TasksTrace, TypeInv, TaskOK
  <2>3. \A u \in Slots : tasks'[u].pc \in EarlyPC => u # t /\ tasks'[u] = tasks[u]
    BY <1>1, <1>2
  <2> QED
    BY <2>1, <2>2, <2>3 DEF TasksTrace
<1> QED
  BY <1>3, <1>4

LEMMA TaskStepTrace ==
  ASSUME TraceInv, NEW t \in Slots,
         TaskStep(t) \/ Cancel(t) \/ WriteFails(t) \/ QueryFails(t)
  PROVE  TasksTrace'
<1>0. TypeInv /\ TasksTrace /\ tasks[t] \in Task /\ tasks \in [Slots -> Task]
  BY TraceParts DEF TypeInv, TypeOK
<1>1. ASSUME NEW l, Goto(t, l), UNCHANGED owner, l \notin EarlyPC,
             l \in RegisterPC => tasks[t].pc \in RegisterPC
      PROVE  TasksTrace'
  BY <1>0, <1>1, GotoEffect, TasksGoOn
<1>2. CASE \/ EnrollFindDb(t) \/ EnrollAsgMem(t) \/ EnrollAsgDb(t) \/ EnrollPop(t)
           \/ QueryFails(t)
  <2>1. /\ tasks[t].pc \in EarlyPC
        /\ tasks'[t].pc \in EnrollPC \ {"upsert"}
        /\ tasks[t].svc = None /\ tasks'[t].pc \in EarlyPC => tasks'[t].svc = None
        /\ \A u \in Slots \ {t} : tasks'[u] = tasks[u]
        /\ UNCHANGED owner
    BY <1>0, <1>2, ChoiceEffect
  <2>2. tasks[t].svc = None
    BY <1>0, <2>1 DEF TasksTrace
  <2>3. tasks'[t].pc \notin RegisterPC
    BY <2>1 DEF EnrollPC, RegisterPC
  <2> QED
    BY <1>0, <2>1, <2>2, <2>3, TasksGoOn
<1>3. CASE EnrollCfg(t) \/ EnrollPrimary(t) \/ EnrollRow(t) \/ EnrollSave(t) \/ EnrollInsert(t)
  <2>1. PICK l \in {"primary", "push_front", "row", "save", "insert", "upsert"} : Goto(t, l)
    BY <1>3 DEF EnrollCfg, EnrollPrimary, EnrollRow, EnrollSave, EnrollInsert, AssignFailed
  <2>2. l \notin EarlyPC /\ l \notin RegisterPC
    BY DEF EarlyPC, RegisterPC
  <2>3. UNCHANGED owner
    BY <1>3 DEF EnrollCfg, EnrollPrimary, EnrollRow, EnrollSave, EnrollInsert, auxVars
  <2> QED
    BY <1>1, <2>1, <2>2, <2>3
<1>4. CASE EnrollPushFront(t)
  <2>1. tasks'[t].pc = "save" /\ \A u \in Slots \ {t} : tasks'[u] = tasks[u]
    BY <1>0, <1>4 DEF EnrollPushFront, Task
  <2> QED
    BY <1>0, <1>4, <2>1, TasksGoOn DEF EnrollPushFront, auxVars, EarlyPC, RegisterPC
<1>5. CASE EnrollUpsert(t)
  BY <1>0, <1>5, TasksFinish DEF EnrollUpsert
<1>6. CASE RegisterStep(t)
  <2>1. tasks[t].pc \in RegisterPC
    BY <1>6 DEF RegisterStep, RegisterCfg, RegisterPrimary, RegisterRow, RegisterSet,
       RegisterQueue, At, RegisterPC
  <2>2. \/ \E l \in {"reg_primary", "reg_row", "reg_set"} : Goto(t, l) /\ UNCHANGED owner
        \/ Finish(t) /\ \E o : owner' = [owner EXCEPT ![tasks[t].svc] = o]
    <3>1. Refused(t) => Finish(t) /\ \E o : owner' = [owner EXCEPT ![tasks[t].svc] = o]
      BY DEF Refused
    <3>2. Created(t) => \E o : owner' = [owner EXCEPT ![tasks[t].svc] = o]
      BY DEF Created
    <3> QED
      BY <1>6, <3>1, <3>2 DEF RegisterStep, RegisterCfg, RegisterPrimary, RegisterRow,
         RegisterSet, RegisterQueue, auxVars
  <2>3. \A l \in {"reg_primary", "reg_row", "reg_set"} : l \notin EarlyPC
    BY DEF EarlyPC
  <2> QED
    BY <1>0, <1>1, <2>1, <2>2, <2>3, TasksFinish
<1>7. CASE HeartbeatStep(t) \/ PortStep(t) \/ DisconnectStep(t)
  <2>1. UNCHANGED owner
    BY <1>7 DEF HeartbeatStep, HeartbeatSave, HeartbeatWeight, HeartbeatAdd, PortStep,
       PortSave, PortAddr, DisconnectStep, DisconnectRow, DisconnectServer, auxVars
  <2>2. Finish(t) \/ \E l \in {"hb_weight", "hb_add", "port_addr", "dis_server"} : Goto(t, l)
    BY <1>7 DEF HeartbeatStep, HeartbeatSave, HeartbeatWeight, HeartbeatAdd, PortStep,
       PortSave, PortAddr, DisconnectStep, DisconnectRow, DisconnectServer
  <2>3. \A l \in {"hb_weight", "hb_add", "port_addr", "dis_server"} :
          l \notin EarlyPC /\ l \notin RegisterPC
    BY DEF EarlyPC, RegisterPC
  <2> QED
    BY <1>0, <1>1, <2>1, <2>2, <2>3, TasksFinish
<1>8. CASE Cancel(t)
  <2>1. Finish(t)
    BY <1>8 DEF Cancel
  <2>2. \/ UNCHANGED owner
        \/ tasks[t].pc \in RegisterPC
           /\ \E o : owner' = [owner EXCEPT ![tasks[t].svc] = o]
    BY <1>8 DEF Cancel
  <2> QED
    BY <1>0, <2>1, <2>2, TasksFinish
<1>9. CASE WriteFails(t)
  <2>1. PICK l : Goto(t, l) /\ l = AfterWrite[tasks[t].pc]
    BY <1>9 DEF WriteFails
  <2>2. tasks[t].pc \in DOMAIN AfterWrite /\ UNCHANGED owner
    BY <1>9 DEF WriteFails
  <2>3. l \notin EarlyPC /\ (l \in RegisterPC => tasks[t].pc \in RegisterPC)
    BY <2>1, <2>2 DEF AfterWrite, EarlyPC, RegisterPC
  <2> QED
    BY <1>1, <2>1, <2>2, <2>3
<1> QED
  BY <1>2, <1>3, <1>4, <1>5, <1>6, <1>7, <1>8, <1>9 DEF TaskStep, EnrollStep

LEMMA ArrivalTrace ==
  ASSUME TraceInv, NEW t \in Slots, Arrival(t)
  PROVE  TasksTrace'
<1>0. TypeInv /\ TasksTrace /\ owner \in [Services -> {"new", "sent", "accepted"}]
  BY TraceParts DEF TypeInv, TypeOK
<1>1. ASSUME NEW k, Begin(t, k), UNCHANGED owner, k.pc \notin RegisterPC, k.svc = None \/ k.pc \notin EarlyPC
      PROVE  TasksTrace'
  BY <1>0, <1>1, BeginEffect, TasksGoOn
<1>2. ASSUME NEW n \in Hosts, NEW a \in Addrs, EnrollStart(t, n, a)
      PROVE  TasksTrace'
  <2>1. PICK l, i :
          l \in {"pop", "asg_mem", "find_db"} /\ Begin(t, Handler(l, n, i, None, a))
    BY <1>2 DEF EnrollStart
  <2>2. Handler(l, n, i, None, a).pc \notin RegisterPC /\ Handler(l, n, i, None, a).svc = None
    BY <2>1 DEF Handler, RegisterPC
  <2> QED
    BY <1>1, <1>2, <2>1, <2>2 DEF EnrollStart
<1>3. ASSUME NEW s \in Services, RegisterStart(t, s)
      PROVE  TasksTrace'
  <2>1. PICK l, i, a :
          l \in {"reg_cfg", "reg_queue"} /\ Begin(t, Handler(l, None, i, s, a))
    BY <1>3 DEF RegisterStart
  <2>2. /\ tasks'[t].pc = l /\ tasks'[t].svc = s
        /\ \A u \in Slots \ {t} : tasks'[u] = tasks[u]
    BY <1>0, <2>1, BeginEffect DEF Handler
  <2>3. owner[s] = "new" /\ owner'[s] = "sent"
        /\ \A r \in Services \ {s} : owner'[r] = owner[r]
    BY <1>0, <1>3 DEF RegisterStart
  <2>4. \A u \in Slots \ {t} : tasks[u].pc \in RegisterPC =>
          tasks[u].svc \in Services \ {s}
    BY <1>0, <2>3 DEF TasksTrace, TypeInv, TaskOK
  <2>5. l \notin EarlyPC
    BY <2>1 DEF EarlyPC
  <2>6. \A u \in Slots : tasks'[u].pc \in RegisterPC => owner'[tasks'[u].svc] = "sent"
    BY <1>0, <2>2, <2>3, <2>4 DEF TasksTrace
  <2>7. \A u, w \in Slots :
          tasks'[u].pc \in RegisterPC /\ tasks'[w].pc \in RegisterPC
            /\ tasks'[w].svc = tasks'[u].svc => w = u
    BY <1>0, <2>2, <2>4 DEF TasksTrace
  <2>8. \A u \in Slots : tasks'[u].pc \in EarlyPC => tasks'[u].svc = None
    BY <1>0, <2>2, <2>5 DEF TasksTrace
  <2> QED
    BY <2>6, <2>7, <2>8 DEF TasksTrace
<1>4. ASSUME NEW i \in Ids,
             \/ HeartbeatStart(t, i) \/ DisconnectStart(t, i)
             \/ \E a \in Addrs : PortStart(t, i, a)
      PROVE  TasksTrace'
  <2>1. PICK l, n, s, a :
          l \in {"hb_save", "port_save", "dis_row"} /\ Begin(t, Handler(l, n, i, s, a))
    BY <1>4 DEF HeartbeatStart, DisconnectStart, PortStart
  <2>2. /\ Handler(l, n, i, s, a).pc \notin RegisterPC
        /\ Handler(l, n, i, s, a).pc \notin EarlyPC
    BY <2>1 DEF Handler, RegisterPC, EarlyPC
  <2>3. UNCHANGED owner
    BY <1>4 DEF HeartbeatStart, DisconnectStart, PortStart, auxVars
  <2> QED
    BY <1>1, <2>1, <2>2, <2>3
<1> QED
  BY <1>2, <1>3, <1>4 DEF Arrival

LEMMA TraceStep == TraceInv /\ [Next]_vars => TraceInv'
<1> SUFFICES ASSUME TraceInv, [Next]_vars PROVE TraceInv'
  OBVIOUS
<1>0. /\ TypeInv /\ TypeInv' /\ TasksTrace /\ RestTrace
      /\ churn \in ChurnState /\ boot \in BootState
  BY TypeStep, TraceParts DEF TypeInv, TypeOK
<1>1. CASE UNCHANGED vars
  BY <1>0, <1>1, TraceParts DEF TasksTrace, RestTrace, vars, memVars, auxVars
<1>2. ASSUME UNCHANGED churn,
             (UNCHANGED <<boot, volunteers>>) \/ boot'.pc \notin {"prune", "load"}
      PROVE  RestTrace'
  BY <1>0, <1>2 DEF RestTrace
<1>3. ASSUME NEW t \in Slots, Arrival(t)
      PROVE  TraceInv'
  <2>1. UNCHANGED <<churn, boot>> /\ boot.pc = "serve"
    BY <1>3 DEF Arrival, EnrollStart, RegisterStart, HeartbeatStart, PortStart,
       DisconnectStart, MayStart
  <2> QED
    BY <1>0, <1>2, <1>3, <2>1, ArrivalTrace, TraceParts
<1>4. ASSUME NEW t \in Slots, TaskStep(t) \/ Cancel(t) \/ WriteFails(t) \/ QueryFails(t)
      PROVE  TraceInv'
  <2>1. boot.pc = "serve"
    BY <1>0, <1>4, NothingUnderWay DEF TypeInv, BootOK
  <2>2. UNCHANGED <<churn, boot>>
    <3>1. EnrollStep(t) => UNCHANGED <<churn, boot>>
      BY DEF EnrollStep, EnrollFindDb, EnrollAsgMem, EnrollAsgDb, EnrollPop,
         EnrollCfg, EnrollPrimary, EnrollPushFront, EnrollRow, EnrollSave, EnrollInsert,
         EnrollUpsert
    <3>2. RegisterStep(t) => UNCHANGED <<churn, boot>>
      BY DEF RegisterStep, RegisterCfg, RegisterPrimary, RegisterRow, RegisterSet,
         RegisterQueue
    <3>3. HeartbeatStep(t) \/ PortStep(t) \/ DisconnectStep(t) => UNCHANGED <<churn, boot>>
      BY DEF HeartbeatStep, HeartbeatSave, HeartbeatWeight, HeartbeatAdd,
         PortStep, PortSave, PortAddr, DisconnectStep, DisconnectRow, DisconnectServer
    <3>4. Cancel(t) \/ WriteFails(t) \/ QueryFails(t) => UNCHANGED <<churn, boot>>
      BY DEF Cancel, WriteFails, QueryFails
    <3> QED
      BY <1>4, <3>1, <3>2, <3>3, <3>4 DEF TaskStep
  <2> QED
    BY <1>0, <1>2, <1>4, <2>1, <2>2, TaskStepTrace, TraceParts
<1>5. CASE ChurnStep \/ ChurnWriteFails
  <2>1. UNCHANGED <<tasks, owner, boot>>
    BY <1>5 DEF ChurnStep, ChurnScan, ChurnEvict, ChurnRow, ChurnServer, ChurnUnassign,
       ChurnRequeue, ChurnWriteFails, auxVars
  <2>2. boot.pc = "serve"
    <3>1. boot.pc # "serve" => churn.pc = "tick"
      BY <1>0 DEF TypeInv, BootOK, IdleChurn
    <3> QED
      BY <1>5, <3>1 DEF ChurnStep, ChurnScan, ChurnEvict, ChurnRow, ChurnServer,
         ChurnUnassign, ChurnRequeue, ChurnWriteFails
  <2>3. churn'.pc = "tick" => churn' = IdleChurn
    <3>1. CASE ChurnServer \/ ChurnRequeue
      <4>1. churn.id \in DOMAIN churn.dead
        BY <1>0, <3>1 DEF ChurnServer, ChurnRequeue, TypeInv, ChurnOK
      <4>2. ChurnNext \/ churn' = [churn EXCEPT !.pc = "unassign"]
        BY <3>1 DEF ChurnServer, ChurnRequeue
      <4> QED
        BY <1>0, <4>1, <4>2, NextDead DEF ChurnState
    <3>2. churn \in ChurnState
      BY <1>0 DEF TypeInv, TypeOK
    <3>3. CASE ChurnScan
      BY <3>3 DEF ChurnScan
    <3>4. CASE ChurnRow \/ ChurnUnassign \/ ChurnWriteFails
      BY <3>2, <3>4 DEF ChurnRow, ChurnUnassign, ChurnWriteFails, ChurnState
    <3>5. ASSUME NEW i \in Ids, ChurnEvict(i)
          PROVE  churn'.pc # "tick"
      BY <3>2, <3>5 DEF ChurnEvict, ChurnState
    <3> QED
      BY <1>5, <3>1, <3>3, <3>4, <3>5 DEF ChurnStep
  <2>4. TasksTrace'
    BY <1>0, <2>1 DEF TasksTrace
  <2> QED
    BY <1>0, <2>1, <2>2, <2>3, <2>4, TraceParts DEF RestTrace
<1>6. CASE BootStep \/ BootSqlFails
  <2>1. UNCHANGED <<tasks, owner, churn>>
    BY <1>6 DEF BootStep, BootPrune, BootLoad, BootPass1, BootPass1Done, BootPass2,
       BootServe, BootSqlFails, auxVars
  <2>2. TasksTrace'
    BY <1>0, <2>1 DEF TasksTrace
  <2>3. boot'.pc \in {"prune", "load"} =>
          DOMAIN volunteers = {} /\ UNCHANGED volunteers
    <3>1. CASE BootPrune \/ BootSqlFails
      BY <1>0, <3>1 DEF BootPrune, BootSqlFails, RestTrace, memVars
    <3>2. CASE BootLoad \/ BootPass1Done \/ BootServe
      BY <1>0, <3>2 DEF BootLoad, BootPass1Done, BootServe, BootState
    <3>3. ASSUME NEW i \in Ids, BootPass1(i) \/ BootPass2(i)
          PROVE  boot'.pc \notin {"prune", "load"}
      BY <1>0, <3>3, Treating DEF BootPass1, BootPass2
    <3> QED
      BY <1>6, <3>1, <3>2, <3>3 DEF BootStep
  <2> QED
    BY <1>0, <2>1, <2>2, <2>3, TraceParts DEF RestTrace
<1>7. CASE Crash \/ Redeploy
  <2>1. /\ volunteers' = EmptyMap /\ churn' = IdleChurn
        /\ \A t \in Slots : tasks'[t].pc = "idle"
    BY <1>7 DEF Crash, Redeploy, Reset, IdleTask, Handler
  <2>2. TasksTrace'
    BY <2>1 DEF TasksTrace, RegisterPC, EarlyPC
  <2> QED
    BY <1>0, <2>1, <2>2, TraceParts, EmptyMapType DEF RestTrace
<1>8. ASSUME NEW i \in Ids, HAProxyRestart \/ Expire(i) \/ NotFound(i)
      PROVE  TraceInv'
  <2>1. UNCHANGED <<tasks, owner, churn>> /\ boot'.pc = boot.pc
        /\ DOMAIN volunteers' = DOMAIN volunteers
    BY <1>0, <1>8 DEF HAProxyRestart, Expire, NotFound, BootState, vars, memVars, auxVars
  <2> QED
    BY <1>0, <2>1, TraceParts DEF TasksTrace, RestTrace
<1>9. CASE HAProxyRestart
  <2>1. UNCHANGED <<tasks, owner, churn, volunteers>> /\ boot'.pc = boot.pc
    BY <1>0, <1>9 DEF HAProxyRestart, BootState, memVars
  <2> QED
    BY <1>0, <2>1, TraceParts DEF TasksTrace, RestTrace
<1> QED
  BY <1>1, <1>3, <1>4, <1>5, <1>6, <1>7, <1>8, <1>9 DEF Next, Environment

\* For every environment and any interleaving: the ways in which the last
\* trace of an accepted service goes are a restart of the process, a
\* disconnect of its volunteer, a dropped handler, a write over it, and an
\* eviction of its volunteer as the holder of another.  No eviction, failed
\* call, failed write or re-enrollment loses a service otherwise (enroll,
\* register_service, run_churn_monitor, main).
THEOREM NothingElseForgets == Spec => NotForgotten
<1>1. Init => TraceInv
  <2> SUFFICES ASSUME Init PROVE TraceInv
    OBVIOUS
  <2>1. \A t \in Slots : tasks[t].pc = "idle"
    BY DEF Init, IdleTask, Handler
  <2> QED
    BY <2>1, TypeInit, EmptyMapType DEF Init, TraceInv, RegisterPC
<1>2. ASSUME TraceInv, [Next]_vars
      PROVE  [\A s \in Services : Forgotten(s) =>
                \/ boot.pc = "prune" \/ boot'.pc = "prune"
                \/ s \in lost'
                \/ DroppedByHandler(s) \/ Overwritten(s) \/ EvictedAsOther(s)]_vars
  <2> SUFFICES ASSUME Next, NEW s \in Services, Forgotten(s)
               PROVE  Excused(s)
    BY <1>2 DEF Excused
  <2>1. s \in Accepted /\ Traced(s) /\ ~Traced(s)'
    BY RememberedIsTraced DEF Forgotten
  <2>2. Kept(s)
    BY <1>2, <2>1, ChoiceKeeps, EnrollKeeps, RegisterKeeps, UpkeepKeeps, ArrivalKeeps,
       ChurnKeeps, RestKeeps, HandlerFailureKeeps
       DEF Next, TaskStep, EnrollStep, Environment
  <2> QED
    BY <2>1, <2>2 DEF Kept
<1> QED
  BY <1>1, <1>2, TraceStep, PTL DEF Spec, NotForgotten

=============================================================================
