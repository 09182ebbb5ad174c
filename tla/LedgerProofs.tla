---------------------------- MODULE LedgerProofs ----------------------------
(***************************************************************************)
(* The registrar's ledger when it does one thing at a time: at rest the    *)
(* tables mirror the map, and an accepted service is in exactly one place. *)
(* The hypotheses are those of the run registrar_serial: no two activities *)
(* overlap, no handler is dropped and no SQL statement fails.              *)
(***************************************************************************)
EXTENDS RecoveryProofs, FiniteSetTheorems

-----------------------------------------------------------------------------
(* The inductive invariants.                                               *)

\* get_assignment
Asg(i) == IF i \in DOMAIN dbAsg THEN dbAsg[i] ELSE None

Row(i) == [node |-> volunteers[i].node, addr |-> volunteers[i].addr]

\* The tables agree with the map about volunteer j.
Mirrored(j) ==
  /\ j \in DOMAIN dbVol <=> j \in DOMAIN volunteers
  /\ j \in DOMAIN volunteers => dbVol[j] = Row(j) /\ volunteers[j].svc = Asg(j)

\* A handler, or the churn monitor, has changed one of the two and not yet
\* the other.
UnsettledPC == {"save", "insert", "reg_set", "port_save", "dis_row"}
Unsettled(j) ==
  \/ \E t \in Slots : tasks[t].pc \in UnsettledPC /\ tasks[t].id = j
  \/ churn.pc = "row" /\ churn.id = j

\* One activity at a time.
Alone ==
  /\ \A t, u \in Slots : ~Idle(t) /\ ~Idle(u) => t = u
  /\ churn.pc # "tick" => \A t \in Slots : Idle(t)

\* Every id in use has been issued.
AllIssued ==
  /\ DOMAIN volunteers \cup DOMAIN dbVol \cup DOMAIN dbAsg \subseteq issued
  /\ \A t \in Slots : tasks[t].id \in issued \cup {None}

\* What an enrollment knows of the rows of its id.
EnrollLedger(k) ==
  /\ k.pc \in EarlyPC => ~k.queued
  /\ k.pc \in {"asg_mem", "asg_db"} => k.id \in DOMAIN dbVol
  /\ k.pc \in {"pop", "push_front"} => k.id \notin DOMAIN dbAsg
  /\ k.pc = "push_front" => k.queued
  /\ k.pc \in {"cfg", "primary", "row"} =>
       IF k.queued THEN k.id \notin DOMAIN dbAsg
       ELSE k.id \in DOMAIN dbAsg \cap DOMAIN dbVol /\ dbAsg[k.id] = k.svc
  /\ k.pc \in {"save", "insert"} =>
       /\ k.svc = Asg(k.id)
       /\ k.svc # None /\ ~k.queued => k.id \in DOMAIN dbVol
  /\ k.pc = "insert" =>
       k.id \in DOMAIN dbVol /\ dbVol[k.id] = [node |-> k.node, addr |-> k.addr]

\* What the other handlers know of their volunteer.
VolunteerLedger(k) ==
  /\ k.pc = "reg_queue" => k.id = None
  /\ k.pc \in {"reg_cfg", "reg_primary", "reg_row", "reg_set"} =>
       k.id \in DOMAIN volunteers /\ volunteers[k.id].svc = None
  /\ k.pc = "reg_set" =>
       Asg(k.id) = k.svc /\ k.id \in DOMAIN dbVol /\ dbVol[k.id] = Row(k.id)
  /\ k.pc \in {"hb_save", "port_save"} =>
       k.id \in DOMAIN volunteers /\ Row(k.id) = [node |-> k.node, addr |-> k.addr]
  /\ k.pc = "port_save" =>
       k.id \in DOMAIN dbVol /\ volunteers[k.id].svc = Asg(k.id)
  /\ k.pc = "dis_row" => k.id \notin DOMAIN volunteers

\* The churn monitor's list stays true until it is worked off.
EvictPC == {"row", "server", "unassign", "requeue"}
ChurnLedger ==
  /\ \A i \in DOMAIN churn.dead \ {churn.id} :
       i \in DOMAIN volunteers /\ churn.dead[i] = volunteers[i].svc
  /\ churn.pc = "evict" => churn.id = None
  /\ churn.pc \in EvictPC => churn.id \notin DOMAIN volunteers
  /\ churn.pc = "row" => churn.dead[churn.id] = Asg(churn.id)

LedgerInv ==
  /\ TraceInv
  /\ Alone
  /\ AllIssued
  /\ \A t \in Slots : EnrollLedger(tasks[t]) /\ VolunteerLedger(tasks[t])
  /\ ChurnLedger
  /\ boot.pc \notin {"prune", "load"} =>
       \A j \in Ids : Mirrored(j) \/ Unsettled(j)

\* The volunteers that a restart would give service s to.
Rows(s) == {j \in DOMAIN dbAsg \cap DOMAIN dbVol : dbAsg[j] = s}

\* A handler has s from the queue or from its owner and has not stored it.
CarryPC == {"cfg", "primary", "push_front", "row", "save", "insert"}
Carries(k, s) ==
  k.svc = s /\ (k.pc \in RegisterPC \/ (k.queued /\ k.pc \in CarryPC))

\* The churn monitor has taken s from its volunteer and not yet queued it.
Evicting(s) == churn.pc \in EvictPC /\ churn.dead[churn.id] = s

\* Service s is nowhere.
Nowhere(s) ==
  /\ ~InQueue(s) /\ Rows(s) = {} /\ ~Evicting(s)
  /\ \A t \in Slots : ~Carries(tasks[t], s)

\* Service s is in at most one of the queue, a row, a hand; nowhere as long
\* as it is new; somewhere or lost once it is accepted.
OnePlace(s) ==
  /\ \A i, j \in Rows(s) : i = j
  /\ InQueue(s) => Rows(s) = {}
  /\ \A t \in Slots :
       Carries(tasks[t], s) => ~InQueue(s) /\ Rows(s) \subseteq {tasks[t].id}
  /\ Evicting(s) => ~InQueue(s) /\ Rows(s) \subseteq {churn.id}
  /\ owner[s] = "new" => Nowhere(s)
  /\ owner[s] = "accepted" => s \in lost \/ ~Nowhere(s)

\* No service is queued twice.
QueuedOnce == \A k, l \in DOMAIN pending : pending[k] = pending[l] => k = l

PlaceInv ==
  /\ QueuedOnce
  /\ \A s \in Services : OnePlace(s)
  /\ \A t \in Slots :
       tasks[t].pc = "dis_row" /\ tasks[t].id \in DOMAIN dbAsg \cap DOMAIN dbVol
         => dbAsg[tasks[t].id] \in lost

\* The hypotheses: an activity starts only when no other is under way, and no
\* handler is dropped, no SQL statement fails.
OneAtATime == Serialised /\ {"cancel", "write_err", "query_err"} \cap Env = {}

-----------------------------------------------------------------------------
(* The ledger while a handler runs.                                        *)

LEMMA NoFailures ==
  ASSUME OneAtATime
  PROVE  /\ \A t \in Slots : ~Cancel(t) /\ ~WriteFails(t) /\ ~QueryFails(t)
         /\ ~ChurnWriteFails /\ ~BootSqlFails
BY DEF OneAtATime, Cancel, WriteFails, QueryFails, ChurnWriteFails, BootSqlFails, Event

\* A handler that runs runs alone, and only its own volunteer may be unsettled.
LEMMA RunsAlone ==
  ASSUME LedgerInv, NEW t \in Slots, ~Idle(t)
  PROVE  /\ \A u \in Slots \ {t} : Idle(u)
         /\ churn.pc = "tick" /\ churn = IdleChurn /\ boot.pc = "serve"
         /\ \A j \in Ids :
              Mirrored(j) \/ (tasks[t].pc \in UnsettledPC /\ tasks[t].id = j)
<1>1. /\ \A u \in Slots \ {t} : Idle(u)
      /\ churn.pc = "tick" /\ churn = IdleChurn /\ boot.pc = "serve"
  BY DEF LedgerInv, Alone, TraceInv, TypeInv, BootOK
<1>2. \A u \in Slots \ {t} : tasks[u].pc \notin UnsettledPC
  BY <1>1 DEF Idle, UnsettledPC
<1> QED
  BY <1>1, <1>2 DEF LedgerInv, Unsettled

\* To show the invariant after a step of one handler.
LEMMA LedgerTask ==
  ASSUME TraceInv', NEW t \in Slots,
         \A u \in Slots \ {t} : Idle(u) /\ tasks'[u] = tasks[u],
         churn = IdleChurn, UNCHANGED <<churn, boot>>, boot.pc = "serve",
         AllIssued', EnrollLedger(tasks[t])', VolunteerLedger(tasks[t])',
         \A j \in Ids :
           Mirrored(j)' \/ (tasks'[t].pc \in UnsettledPC /\ tasks'[t].id = j)
  PROVE  LedgerInv'
<1>1. \A u \in Slots \ {t} : tasks'[u].pc = "idle"
  BY DEF Idle
<1>2. Alone'
  BY <1>1 DEF Alone, Idle, IdleChurn
<1>3. \A u \in Slots : EnrollLedger(tasks[u])' /\ VolunteerLedger(tasks[u])'
  <2> SUFFICES ASSUME NEW u \in Slots \ {t}
               PROVE  EnrollLedger(tasks[u])' /\ VolunteerLedger(tasks[u])'
    OBVIOUS
  <2> QED
    BY <1>1 DEF EnrollLedger, VolunteerLedger, EarlyPC
<1>4. ChurnLedger'
  BY EmptyMapType DEF ChurnLedger, IdleChurn, EvictPC
<1>5. \A j \in Ids : Mirrored(j)' \/ Unsettled(j)'
  BY DEF Unsettled
<1> QED
  BY <1>2, <1>3, <1>4, <1>5 DEF LedgerInv

\* The tables and the map stay as they are.
LEMMA SameMirror ==
  ASSUME UNCHANGED <<volunteers, dbVars>>
  PROVE  \A j : Mirrored(j) <=> Mirrored(j)'
BY DEF Mirrored, Row, Asg, dbVars

\* An enrollment looks for its id and its service.
LEMMA ChoiceLedger ==
  ASSUME LedgerInv, TraceInv', NEW t \in Slots,
         EnrollFindDb(t) \/ EnrollAsgMem(t) \/ EnrollAsgDb(t) \/ EnrollPop(t)
  PROVE  LedgerInv'
<1>0. /\ TypeInv /\ tasks[t] \in Task /\ tasks \in [Slots -> Task] /\ TaskOK(tasks[t])
      /\ AllIssued /\ EnrollLedger(tasks[t])
  BY DEF LedgerInv, TraceInv, TypeInv, TypeOK
<1>1. /\ tasks[t].pc \in EarlyPC /\ ~Idle(t)
      /\ UNCHANGED <<volunteers, dbVars, churn, boot>>
      /\ \A u \in Slots \ {t} : tasks'[u] = tasks[u]
  <2>1. UNCHANGED <<volunteers, dbVars, churn, boot>> /\ ~Idle(t)
    BY DEF EnrollFindDb, EnrollAsgMem, EnrollAsgDb, EnrollPop, At, Idle, memVars
  <2> QED
    BY <1>0, <2>1, ChoiceEffect
<1>2. /\ tasks[t].svc = None /\ ~tasks[t].queued
      /\ \A j \in Ids : Mirrored(j)
  <2>1. tasks[t].svc = None /\ ~tasks[t].queued /\ tasks[t].pc \notin UnsettledPC
    BY <1>0, <1>1 DEF LedgerInv, TraceInv, EnrollLedger, EarlyPC, UnsettledPC
  <2> QED
    BY <1>1, <2>1, RunsAlone
<1>3. \A j \in Ids : Mirrored(j)'
  BY <1>1, <1>2, SameMirror
<1>4. ASSUME AllIssued', EnrollLedger(tasks[t])', tasks'[t].pc \in EnrollPC
      PROVE  LedgerInv'
  <2>1. VolunteerLedger(tasks[t])'
    BY <1>4 DEF VolunteerLedger, EnrollPC
  <2> QED
    BY <1>1, <1>3, <1>4, <2>1, RunsAlone, LedgerTask
<1>5. CASE EnrollFindDb(t)
  <2>1. PICK i \in Ids :
          /\ \/ /\ tasks' = [tasks EXCEPT ![t].pc = "asg_mem", ![t].id = i]
                /\ i \in DOMAIN dbVol /\ UNCHANGED issued
             \/ /\ tasks' = [tasks EXCEPT ![t].pc = "pop", ![t].id = i]
                /\ i \notin issued /\ issued' = issued \cup {i}
    BY <1>0, <1>5, MapElim DEF EnrollFindDb, KnownBy, TypeInv, TypeOK
  <2>2. /\ tasks'[t].id = i /\ tasks'[t].queued = tasks[t].queued
        /\ tasks'[t].pc \in {"asg_mem", "pop"}
        /\ tasks'[t].pc = "asg_mem" => i \in DOMAIN dbVol
        /\ tasks'[t].pc = "pop" => i \notin issued
        /\ issued \subseteq issued' /\ i \in issued'
    BY <1>0, <2>1 DEF Task, AllIssued
  <2>3. AllIssued'
    BY <1>0, <1>1, <2>2 DEF AllIssued, dbVars
  <2>4. EnrollLedger(tasks[t])'
    BY <1>0, <1>1, <1>2, <2>2 DEF AllIssued, EnrollLedger, EarlyPC, dbVars
  <2> QED
    BY <1>4, <2>2, <2>3, <2>4 DEF EnrollPC
<1>6. CASE EnrollAsgMem(t) \/ EnrollAsgDb(t)
  <2> DEFINE i == tasks[t].id
  <2>1. i \in Ids /\ i \in DOMAIN dbVol
    BY <1>0, <1>6 DEF EnrollAsgMem, EnrollAsgDb, At, TaskOK, EnrollLedger
  <2>2. PICK l, s :
          /\ tasks' = [tasks EXCEPT ![t].pc = l, ![t].svc = s]
          /\ \/ l = "cfg" /\ i \in DOMAIN dbAsg /\ dbAsg[i] = s
             \/ l = "asg_db"
             \/ l = "pop" /\ i \notin DOMAIN dbAsg
    <3>1. CASE EnrollAsgMem(t)
      <4>1. i \in DOMAIN volunteers => volunteers[i].svc = Asg(i)
        BY <1>2, <2>1 DEF Mirrored
      <4>2. CASE i \in DOMAIN volunteers /\ volunteers[i].svc # None
        BY <3>1, <4>1, <4>2 DEF EnrollAsgMem, Asg
      <4>3. CASE ~(i \in DOMAIN volunteers /\ volunteers[i].svc # None)
        BY <3>1, <4>3 DEF EnrollAsgMem
      <4> QED
        BY <4>2, <4>3
    <3>2. CASE EnrollAsgDb(t)
      BY <3>2 DEF EnrollAsgDb
    <3> QED
      BY <1>6, <3>1, <3>2
  <2>3. /\ tasks'[t].id = i /\ tasks'[t].queued = tasks[t].queued
        /\ tasks'[t].pc = l /\ tasks'[t].svc = s
    BY <1>0, <2>2 DEF Task
  <2>4. UNCHANGED issued
    BY <1>6 DEF EnrollAsgMem, EnrollAsgDb, auxVars
  <2>5. AllIssued'
    BY <1>0, <1>1, <2>3, <2>4 DEF AllIssued, dbVars
  <2>6. EnrollLedger(tasks[t])'
    BY <1>1, <1>2, <2>1, <2>2, <2>3 DEF EnrollLedger, dbVars
  <2> QED
    BY <1>4, <2>2, <2>3, <2>5, <2>6 DEF EnrollPC
<1>7. CASE EnrollPop(t)
  <2>1. tasks[t].id \notin DOMAIN dbAsg /\ tasks[t].pc = "pop"
    BY <1>0, <1>7 DEF EnrollLedger, EnrollPop, At
  <2>2. /\ tasks'[t].id = tasks[t].id
        /\ \/ tasks'[t].pc = "save" /\ tasks'[t].svc = None /\ ~tasks'[t].queued
           \/ tasks'[t].pc = "cfg" /\ tasks'[t].queued
    BY <1>0, <1>2, <1>7 DEF EnrollPop, Goto, Task
  <2>3. AllIssued'
    BY <1>0, <1>1, <1>7, <2>2 DEF AllIssued, dbVars, EnrollPop, auxVars
  <2>4. EnrollLedger(tasks[t])'
    BY <1>1, <2>1, <2>2 DEF EnrollLedger, Asg, dbVars, EarlyPC
  <2> QED
    BY <1>4, <2>2, <2>3, <2>4 DEF EnrollPC
<1> QED
  BY <1>5, <1>6, <1>7

\* An enrollment stores its service and its volunteer.
LEMMA StoreLedger ==
  ASSUME LedgerInv, TraceInv', NEW t \in Slots,
         \/ EnrollCfg(t) \/ EnrollPrimary(t) \/ EnrollPushFront(t) \/ EnrollRow(t)
         \/ EnrollSave(t) \/ EnrollInsert(t) \/ EnrollUpsert(t)
  PROVE  LedgerInv'
<1> DEFINE i == tasks[t].id
           k == tasks[t]
<1>0. /\ TypeInv /\ k \in Task /\ tasks \in [Slots -> Task] /\ TaskOK(k)
      /\ AllIssued /\ EnrollLedger(k)
  BY DEF LedgerInv, TraceInv, TypeInv, TypeOK
<1>1. /\ k.pc \in EnrollPC /\ ~Idle(t) /\ UNCHANGED <<churn, boot, issued>>
      /\ i \in Ids /\ i # None /\ i \in issued
  <2>1. k.pc \in EnrollPC \ {"find_db"} /\ ~Idle(t) /\ UNCHANGED <<churn, boot, issued>>
    BY DEF EnrollCfg, EnrollPrimary, EnrollPushFront, EnrollRow, EnrollSave, EnrollInsert,
       EnrollUpsert, At, Idle, EnrollPC, auxVars
  <2>2. i \in Ids
    BY <1>0, <2>1 DEF TaskOK, EnrollPC
  <2> QED
    BY <1>0, <2>1, <2>2, ConstantsAssumption DEF AllIssued
<1>2. \A j \in Ids : Mirrored(j) \/ (k.pc \in UnsettledPC /\ i = j)
  BY <1>1, RunsAlone
<1>3. ASSUME AllIssued', EnrollLedger(tasks[t])', tasks'[t].pc \in EnrollPC \cup {"idle"},
             \A u \in Slots \ {t} : tasks'[u] = tasks[u],
             \A j \in Ids :
               Mirrored(j)' \/ (tasks'[t].pc \in UnsettledPC /\ tasks'[t].id = j)
      PROVE  LedgerInv'
  <2>1. VolunteerLedger(tasks[t])'
    BY <1>3 DEF VolunteerLedger, EnrollPC
  <2> QED
    BY <1>1, <1>3, <2>1, RunsAlone, LedgerTask
<1>4. CASE EnrollCfg(t) \/ EnrollPrimary(t)
  <2>1. PICK l \in {"primary", "row", "push_front"} :
          Goto(t, l) /\ (l = "push_front" => k.queued)
    BY <1>4 DEF EnrollCfg, EnrollPrimary, AssignFailed
  <2>2. /\ tasks'[t].pc = l /\ tasks'[t].id = i /\ tasks'[t].svc = k.svc
        /\ tasks'[t].queued = k.queued
        /\ \A u \in Slots \ {t} : tasks'[u] = tasks[u]
    BY <1>0, <2>1, GotoEffect
  <2>3. k.pc \in {"cfg", "primary"} /\ UNCHANGED <<volunteers, dbVars>>
    BY <1>4 DEF EnrollCfg, EnrollPrimary, At, memVars
  <2>4. \A j \in Ids : Mirrored(j)'
    BY <1>2, <2>3, SameMirror DEF UnsettledPC
  <2>5. AllIssued'
    BY <1>0, <1>1, <2>2, <2>3 DEF AllIssued, dbVars
  <2>6. EnrollLedger(tasks[t])'
    BY <1>0, <2>1, <2>2, <2>3 DEF EnrollLedger, EarlyPC, dbVars
  <2> QED
    BY <1>3, <2>2, <2>4, <2>5, <2>6 DEF EnrollPC
<1>5. CASE EnrollPushFront(t)
  <2>1. /\ tasks'[t].pc = "save" /\ tasks'[t].id = i /\ tasks'[t].svc = None
        /\ \A u \in Slots \ {t} : tasks'[u] = tasks[u]
        /\ k.pc = "push_front" /\ UNCHANGED <<volunteers, dbVars>>
    BY <1>0, <1>5 DEF EnrollPushFront, At, Task
  <2>2. \A j \in Ids : Mirrored(j)'
    BY <1>2, <2>1, SameMirror DEF UnsettledPC
  <2>3. AllIssued'
    BY <1>0, <1>1, <2>1 DEF AllIssued, dbVars
  <2>4. EnrollLedger(tasks[t])'
    BY <1>0, <2>1 DEF EnrollLedger, Asg, EarlyPC, dbVars
  <2> QED
    BY <1>3, <2>1, <2>2, <2>3, <2>4 DEF EnrollPC
<1>6. CASE EnrollRow(t)
  <2>1. /\ tasks'[t].pc = "save" /\ tasks'[t].id = i /\ tasks'[t].svc = k.svc
        /\ tasks'[t].queued = k.queued
        /\ \A u \in Slots \ {t} : tasks'[u] = tasks[u]
        /\ k.pc = "row" /\ UNCHANGED <<volunteers, dbVol>>
        /\ dbAsg' = Put(dbAsg, i, k.svc)
    BY <1>0, <1>6, GotoEffect DEF EnrollRow, At, memVars
  <2>2. ASSUME NEW j \in Ids, j # i
        PROVE  Mirrored(j)'
    BY <1>2, <2>1, <2>2 DEF Mirrored, Row, Asg, Put
  <2>3. AllIssued'
    BY <1>0, <1>1, <2>1 DEF AllIssued, Put
  <2>4. Asg(i)' = k.svc
    BY <2>1 DEF Asg, Put
  <2>5. EnrollLedger(tasks[t])'
    BY <1>0, <2>1, <2>4 DEF EnrollLedger, EarlyPC
  <2> QED
    BY <1>3, <2>1, <2>2, <2>3, <2>5 DEF EnrollPC, UnsettledPC
<1>7. CASE EnrollSave(t)
  <2>1. /\ tasks'[t].pc = "insert" /\ tasks'[t].id = i /\ tasks'[t].svc = k.svc
        /\ tasks'[t].queued = k.queued /\ tasks'[t].node = k.node /\ tasks'[t].addr = k.addr
        /\ \A u \in Slots \ {t} : tasks'[u] = tasks[u]
        /\ k.pc = "save" /\ UNCHANGED <<volunteers, dbAsg>>
        /\ dbVol' = Put(dbVol, i, [node |-> k.node, addr |-> k.addr])
    BY <1>0, <1>7, GotoEffect DEF EnrollSave, RowOf, At, memVars
  <2>2. ASSUME NEW j \in Ids, j # i
        PROVE  Mirrored(j)'
    BY <1>2, <2>1, <2>2 DEF Mirrored, Row, Asg, Put
  <2>3. AllIssued'
    BY <1>0, <1>1, <2>1 DEF AllIssued, Put
  <2>4. Asg(i)' = Asg(i)
    BY <2>1 DEF Asg
  <2>5. i \in DOMAIN dbVol' /\ dbVol'[i] = [node |-> k.node, addr |-> k.addr]
    BY <2>1 DEF Put
  <2>6. EnrollLedger(tasks[t])'
    BY <1>0, <2>1, <2>4, <2>5 DEF EnrollLedger, EarlyPC
  <2> QED
    BY <1>3, <2>1, <2>2, <2>3, <2>6 DEF EnrollPC, UnsettledPC
<1>8. CASE EnrollInsert(t)
  <2> DEFINE v == [node |-> k.node, addr |-> k.addr, svc |-> k.svc, alive |-> TRUE]
  <2>1. /\ tasks'[t].pc = "upsert" /\ tasks'[t].id = i
        /\ \A u \in Slots \ {t} : tasks'[u] = tasks[u]
        /\ k.pc = "insert" /\ UNCHANGED dbVars
        /\ volunteers' = Put(volunteers, i, v)
    BY <1>0, <1>8, GotoEffect DEF EnrollInsert, At
  <2>2. ASSUME NEW j \in Ids, j # i
        PROVE  Mirrored(j)'
    BY <1>2, <2>1, <2>2 DEF Mirrored, Row, Asg, Put, dbVars
  <2>3. i \in DOMAIN volunteers' /\ volunteers'[i] = v
    BY <2>1 DEF Put
  <2>4. /\ i \in DOMAIN dbVol /\ dbVol[i] = [node |-> k.node, addr |-> k.addr]
        /\ k.svc = Asg(i)
    BY <1>0, <2>1 DEF EnrollLedger
  <2>5. Mirrored(i)'
    BY <2>1, <2>3, <2>4 DEF Mirrored, Row, Asg, dbVars
  <2>6. AllIssued'
    BY <1>0, <1>1, <2>1 DEF AllIssued, Put, dbVars
  <2>7. EnrollLedger(tasks[t])'
    BY <2>1 DEF EnrollLedger, EarlyPC
  <2> QED
    BY <1>3, <2>1, <2>2, <2>5, <2>6, <2>7 DEF EnrollPC
<1>9. CASE EnrollUpsert(t)
  <2>1. /\ tasks'[t] = IdleTask /\ k.pc = "upsert" /\ UNCHANGED <<volunteers, dbVars>>
        /\ \A u \in Slots \ {t} : tasks'[u] = tasks[u]
    BY <1>0, <1>9, FinishEffect DEF EnrollUpsert, At, memVars
  <2>2. \A j \in Ids : Mirrored(j)'
    BY <1>2, <2>1, SameMirror DEF UnsettledPC
  <2>3. AllIssued'
    BY <1>0, <1>1, <2>1 DEF AllIssued, dbVars, IdleTask, Handler
  <2>4. EnrollLedger(tasks[t])'
    BY <2>1 DEF EnrollLedger, EarlyPC, IdleTask, Handler
  <2> QED
    BY <1>3, <2>1, <2>2, <2>3, <2>4 DEF IdleTask, Handler
<1> QED
  BY <1>4, <1>5, <1>6, <1>7, <1>8, <1>9

\* A registration, a heartbeat, a new port or a disconnect goes on.
LEMMA OtherLedger ==
  ASSUME LedgerInv, TraceInv', NEW t \in Slots,
         RegisterStep(t) \/ HeartbeatStep(t) \/ PortStep(t) \/ DisconnectStep(t)
  PROVE  LedgerInv'
<1> DEFINE i == tasks[t].id
           k == tasks[t]
<1>0. /\ TypeInv /\ k \in Task /\ tasks \in [Slots -> Task] /\ TaskOK(k)
      /\ AllIssued /\ VolunteerLedger(k)
  BY DEF LedgerInv, TraceInv, TypeInv, TypeOK
<1>1. /\ ~Idle(t) /\ UNCHANGED <<churn, boot, issued>>
      /\ k.pc \in RegisterPC \cup HeartbeatPC \cup PortPC \cup DisconnectPC
  <2>1. CASE RegisterStep(t)
    BY <2>1 DEF RegisterStep, RegisterCfg, RegisterPrimary, RegisterRow, RegisterSet,
       RegisterQueue, At, Idle, RegisterPC, auxVars
  <2>2. CASE HeartbeatStep(t)
    BY <2>2 DEF HeartbeatStep, HeartbeatSave, HeartbeatWeight, HeartbeatAdd,
       At, Idle, HeartbeatPC, auxVars
  <2>3. CASE PortStep(t) \/ DisconnectStep(t)
    BY <2>3 DEF PortStep, PortSave, PortAddr, DisconnectStep, DisconnectRow,
       DisconnectServer, At, Idle, PortPC, DisconnectPC, auxVars
  <2> QED
    BY <2>1, <2>2, <2>3
<1>2. \A j \in Ids : Mirrored(j) \/ (k.pc \in UnsettledPC /\ i = j)
  BY <1>1, RunsAlone
<1>3. ASSUME AllIssued', VolunteerLedger(tasks[t])', tasks'[t].pc \notin EnrollPC,
             \A u \in Slots \ {t} : tasks'[u] = tasks[u],
             \A j \in Ids :
               Mirrored(j)' \/ (tasks'[t].pc \in UnsettledPC /\ tasks'[t].id = j)
      PROVE  LedgerInv'
  <2>1. EnrollLedger(tasks[t])'
    BY <1>3 DEF EnrollLedger, EnrollPC, EarlyPC
  <2> QED
    BY <1>1, <1>3, <2>1, RunsAlone, LedgerTask
<1>4. k.pc # "reg_queue" => i \in Ids /\ i \in issued
  <2>1. k.pc # "reg_queue" => i \in Ids
    BY <1>0, <1>1 DEF TaskOK, RegisterPC, HeartbeatPC, PortPC, DisconnectPC
  <2> QED
    BY <1>0, <2>1, ConstantsAssumption DEF AllIssued
\* The handler ends, the tables as they were.
<1>5. ASSUME Finish(t), UNCHANGED <<volunteers, dbVars>>, k.pc \notin UnsettledPC
      PROVE  LedgerInv'
  <2>1. tasks'[t] = IdleTask /\ \A u \in Slots \ {t} : tasks'[u] = tasks[u]
    BY <1>0, <1>5, FinishEffect
  <2>2. \A j \in Ids : Mirrored(j)'
    BY <1>2, <1>5, SameMirror
  <2>3. AllIssued'
    BY <1>0, <1>1, <1>5, <2>1 DEF AllIssued, dbVars, IdleTask, Handler
  <2>4. VolunteerLedger(tasks[t])'
    BY <2>1 DEF VolunteerLedger, IdleTask, Handler
  <2>5. tasks'[t].pc \notin EnrollPC
    BY <2>1 DEF IdleTask, Handler, EnrollPC
  <2> QED
    BY <1>3, <2>1, <2>2, <2>3, <2>4, <2>5
\* The handler goes on, the tables as they were.
<1>6. ASSUME NEW l, Goto(t, l), UNCHANGED <<volunteers, dbVars>>, k.pc \notin UnsettledPC,
             \/ l \in {"hb_weight", "hb_add", "port_addr", "dis_server"}
             \/ l \in {"reg_primary", "reg_row"} /\ k.pc \in {"reg_cfg", "reg_primary"}
      PROVE  LedgerInv'
  <2>1. /\ tasks'[t].pc = l /\ tasks'[t].id = i
        /\ \A u \in Slots \ {t} : tasks'[u] = tasks[u]
    BY <1>0, <1>6, GotoEffect
  <2>2. \A j \in Ids : Mirrored(j)'
    BY <1>2, <1>6, SameMirror
  <2>3. AllIssued'
    BY <1>0, <1>1, <1>6, <2>1 DEF AllIssued, dbVars
  <2>4. VolunteerLedger(tasks[t])'
    BY <1>0, <1>6, <2>1 DEF VolunteerLedger
  <2>5. tasks'[t].pc \notin EnrollPC
    BY <1>6, <2>1 DEF EnrollPC
  <2> QED
    BY <1>3, <2>1, <2>2, <2>3, <2>4, <2>5
<1>7. CASE RegisterCfg(t) \/ RegisterPrimary(t)
  <2>1. UNCHANGED <<volunteers, dbVars>> /\ k.pc \in {"reg_cfg", "reg_primary"}
    BY <1>7 DEF RegisterCfg, RegisterPrimary, At, memVars
  <2>2. Finish(t) \/ Goto(t, "reg_primary") \/ Goto(t, "reg_row")
    BY <1>7 DEF RegisterCfg, RegisterPrimary, Refused
  <2>3. k.pc \notin UnsettledPC
    BY <2>1 DEF UnsettledPC
  <2> QED
    BY <1>5, <1>6, <2>1, <2>2, <2>3
<1>8. CASE RegisterRow(t)
  <2>1. /\ tasks'[t].pc = "reg_set" /\ tasks'[t].id = i /\ tasks'[t].svc = k.svc
        /\ \A u \in Slots \ {t} : tasks'[u] = tasks[u]
        /\ k.pc = "reg_row" /\ UNCHANGED <<volunteers, dbVol>>
        /\ dbAsg' = Put(dbAsg, i, k.svc)
    BY <1>0, <1>8, GotoEffect DEF RegisterRow, At, memVars
  <2>2. ASSUME NEW j \in Ids, j # i
        PROVE  Mirrored(j)'
    BY <1>2, <2>1, <2>2 DEF Mirrored, Row, Asg, Put
  <2>3. AllIssued'
    BY <1>0, <1>1, <1>4, <2>1 DEF AllIssued, Put
  <2>4. Asg(i)' = k.svc
    BY <2>1 DEF Asg, Put
  <2>5. Mirrored(i) /\ i \in DOMAIN volunteers /\ volunteers[i].svc = None
    BY <1>0, <1>2, <1>4, <2>1 DEF VolunteerLedger, UnsettledPC
  <2>6. VolunteerLedger(tasks[t])'
    BY <2>1, <2>4, <2>5 DEF VolunteerLedger, Mirrored, Row
  <2> QED
    BY <1>3, <2>1, <2>2, <2>3, <2>6 DEF EnrollPC, UnsettledPC
<1>9. CASE RegisterSet(t)
  <2>1. /\ tasks'[t] = IdleTask /\ k.pc = "reg_set" /\ UNCHANGED dbVars
        /\ \A u \in Slots \ {t} : tasks'[u] = tasks[u]
    BY <1>0, <1>9, FinishEffect DEF RegisterSet, At
  <2>2. /\ i \in DOMAIN volunteers /\ Asg(i) = k.svc
        /\ i \in DOMAIN dbVol /\ dbVol[i] = Row(i)
    BY <1>0, <2>1 DEF VolunteerLedger
  <2>3. volunteers[i] \in Volunteer /\ volunteers' = [volunteers EXCEPT ![i].svc = k.svc]
    BY <1>0, <1>9, <2>2, MapElim DEF RegisterSet, TypeInv, TypeOK
  <2>4. /\ DOMAIN volunteers' = DOMAIN volunteers
        /\ \A j \in DOMAIN volunteers \ {i} : volunteers'[j] = volunteers[j]
        /\ volunteers'[i].svc = k.svc /\ volunteers'[i].node = volunteers[i].node
        /\ volunteers'[i].addr = volunteers[i].addr
    BY <2>2, <2>3 DEF Volunteer
  <2>5. ASSUME NEW j \in Ids, j # i
        PROVE  Mirrored(j)'
    BY <1>2, <2>1, <2>4, <2>5 DEF Mirrored, Row, Asg, dbVars
  <2>6. ASSUME NEW j \in Ids, j = i
        PROVE  Mirrored(j)'
    BY <2>1, <2>2, <2>4, <2>6 DEF Mirrored, Row, Asg, dbVars
  <2>7. AllIssued'
    BY <1>0, <1>1, <2>1, <2>4 DEF AllIssued, dbVars, IdleTask, Handler
  <2>8. VolunteerLedger(tasks[t])'
    BY <2>1 DEF VolunteerLedger, IdleTask, Handler
  <2> QED
    BY <1>3, <2>1, <2>5, <2>6, <2>7, <2>8 DEF EnrollPC, IdleTask, Handler
<1>10. CASE RegisterQueue(t)
  BY <1>5, <1>10 DEF RegisterQueue, At, UnsettledPC
<1>11. CASE HeartbeatSave(t) \/ PortSave(t)
  <2>1. PICK l \in {"hb_weight", "port_addr"} : Goto(t, l)
    BY <1>11 DEF HeartbeatSave, PortSave
  <2>2. /\ tasks'[t].pc = l /\ tasks'[t].id = i
        /\ \A u \in Slots \ {t} : tasks'[u] = tasks[u]
        /\ k.pc \in {"hb_save", "port_save"} /\ UNCHANGED <<volunteers, dbAsg>>
        /\ dbVol' = Put(dbVol, i, [node |-> k.node, addr |-> k.addr])
    BY <1>0, <1>11, <2>1, GotoEffect DEF HeartbeatSave, PortSave, RowOf, At, memVars
  <2>3. /\ i \in DOMAIN volunteers /\ Row(i) = [node |-> k.node, addr |-> k.addr]
        /\ volunteers[i].svc = Asg(i)
    BY <1>0, <1>2, <1>4, <2>2 DEF VolunteerLedger, UnsettledPC, Mirrored
  <2>4. ASSUME NEW j \in Ids, j # i
        PROVE  Mirrored(j)'
    BY <1>2, <2>2, <2>4 DEF Mirrored, Row, Asg, Put
  <2>5. i \in DOMAIN dbVol' /\ dbVol'[i] = Row(i)
    BY <2>2, <2>3 DEF Put
  <2>6. Mirrored(i)'
    BY <2>2, <2>3, <2>5 DEF Mirrored, Row, Asg
  <2>7. AllIssued'
    BY <1>0, <1>1, <1>4, <2>2 DEF AllIssued, Put
  <2>8. VolunteerLedger(tasks[t])'
    BY <2>2 DEF VolunteerLedger
  <2> QED
    BY <1>3, <2>2, <2>4, <2>6, <2>7, <2>8 DEF EnrollPC
<1>12. CASE HeartbeatWeight(t) \/ HeartbeatAdd(t) \/ PortAddr(t) \/ DisconnectServer(t)
  <2>1. UNCHANGED <<volunteers, dbVars>> /\ k.pc \notin UnsettledPC
    BY <1>12 DEF HeartbeatWeight, HeartbeatAdd, PortAddr, DisconnectServer, At, memVars,
       UnsettledPC
  <2>2. Finish(t) \/ Goto(t, "hb_add")
    BY <1>12 DEF HeartbeatWeight, HeartbeatAdd, PortAddr, DisconnectServer
  <2> QED
    BY <1>5, <1>6, <2>1, <2>2
<1>13. CASE DisconnectRow(t)
  <2>1. /\ tasks'[t].pc = "dis_server" /\ tasks'[t].id = i
        /\ \A u \in Slots \ {t} : tasks'[u] = tasks[u]
        /\ k.pc = "dis_row" /\ UNCHANGED <<volunteers, dbAsg>>
        /\ dbVol' = Drop(dbVol, i)
    BY <1>0, <1>13, GotoEffect DEF DisconnectRow, At, memVars
  <2>2. i \notin DOMAIN volunteers
    BY <1>0, <2>1 DEF VolunteerLedger
  <2>3. \A j \in Ids : Mirrored(j)'
    BY <1>2, <2>1, <2>2 DEF Mirrored, Row, Asg, Drop
  <2>4. AllIssued'
    BY <1>0, <1>1, <2>1 DEF AllIssued, Drop
  <2>5. VolunteerLedger(tasks[t])'
    BY <2>1 DEF VolunteerLedger
  <2> QED
    BY <1>3, <2>1, <2>3, <2>4, <2>5 DEF EnrollPC
<1> QED
  BY <1>7, <1>8, <1>9, <1>10, <1>11, <1>12, <1>13
     DEF RegisterStep, HeartbeatStep, PortStep, DisconnectStep

\* A request arrives at rest.
LEMMA ArrivalLedger ==
  ASSUME OneAtATime, LedgerInv, TraceInv', NEW t \in Slots, Arrival(t)
  PROVE  LedgerInv'
<1>0. /\ TypeInv /\ tasks \in [Slots -> Task] /\ AllIssued
      /\ volunteers \in MapsOf(Ids, Volunteer)
      /\ \A i \in DOMAIN volunteers : i \in Ids /\ volunteers[i] \in Volunteer
  BY MapElim DEF LedgerInv, TraceInv, TypeInv, TypeOK
<1>1. /\ \A u \in Slots : Idle(u)
      /\ churn = IdleChurn /\ boot.pc = "serve"
      /\ UNCHANGED <<dbVars, churn, boot>>
  <2>1. Quiet /\ boot.pc = "serve" /\ UNCHANGED <<dbVars, churn, boot>>
    BY DEF Arrival, EnrollStart, RegisterStart, HeartbeatStart, PortStart, DisconnectStart,
       MayStart, OneAtATime
  <2> QED
    BY <2>1 DEF Quiet, LedgerInv, TraceInv
<1>2. \A j \in Ids : Mirrored(j)
  BY <1>1 DEF LedgerInv, Unsettled, UnsettledPC, Idle, IdleChurn
<1>3. ASSUME NEW k, Begin(t, k), AllIssued', EnrollLedger(k)', VolunteerLedger(k)',
             \A j \in Ids : Mirrored(j)' \/ (k.pc \in UnsettledPC /\ k.id = j)
      PROVE  LedgerInv'
  <2>1. tasks'[t] = k /\ \A u \in Slots \ {t} : tasks'[u] = tasks[u]
    BY <1>0, <1>3, BeginEffect
  <2>2. EnrollLedger(tasks[t])' /\ VolunteerLedger(tasks[t])'
    BY <1>3, <2>1 DEF EnrollLedger, VolunteerLedger
  <2> QED
    BY <1>1, <1>3, <2>1, <2>2, LedgerTask
<1>4. ASSUME NEW n \in Hosts, NEW a \in Addrs, EnrollStart(t, n, a)
      PROVE  LedgerInv'
  <2>1. PICK l, i :
          /\ Begin(t, Handler(l, n, i, None, a))
          /\ issued \subseteq issued' /\ i \in issued' \cup {None}
          /\ \/ l = "pop" /\ i \in Ids \ issued
             \/ l = "asg_mem" /\ i \in DOMAIN volunteers
             \/ l = "find_db"
    BY <1>0, <1>4 DEF EnrollStart, KnownBy, AllIssued
  <2>2. UNCHANGED volunteers
    BY <1>4 DEF EnrollStart, memVars
  <2>3. \A j \in Ids : Mirrored(j)'
    BY <1>1, <1>2, <2>2, SameMirror
  <2> DEFINE k == Handler(l, n, i, None, a)
  <2>4. k.pc = l /\ k.id = i /\ ~k.queued
    BY DEF Handler
  <2>5. AllIssued'
    <3>1. \A u \in Slots : tasks'[u].id \in issued' \cup {None}
      BY <1>0, <2>1, <2>4, BeginEffect DEF AllIssued
    <3> QED
      BY <1>0, <1>1, <2>1, <2>2, <3>1 DEF AllIssued, dbVars
  <2>6. i \in DOMAIN volunteers => i \in DOMAIN dbVol
    BY <1>0, <1>2 DEF Mirrored
  <2>7. EnrollLedger(k)'
    BY <1>0, <1>1, <2>1, <2>4, <2>6 DEF EnrollLedger, AllIssued, dbVars
  <2>8. VolunteerLedger(k)'
    BY <2>1, <2>4 DEF VolunteerLedger
  <2> HIDE DEF k
  <2> QED
    BY <1>3, <2>1, <2>3, <2>5, <2>7, <2>8 DEF k
<1>5. ASSUME NEW s \in Services, RegisterStart(t, s)
      PROVE  LedgerInv'
  <2>1. PICK l, i, a :
          /\ Begin(t, Handler(l, None, i, s, a))
          /\ \/ l = "reg_cfg" /\ i \in DOMAIN volunteers /\ volunteers[i].svc = None
             \/ l = "reg_queue" /\ i = None
    BY <1>5 DEF RegisterStart, Free
  <2>2. UNCHANGED <<volunteers, issued>>
    BY <1>5 DEF RegisterStart, memVars
  <2>3. \A j \in Ids : Mirrored(j)'
    BY <1>1, <1>2, <2>2, SameMirror
  <2> DEFINE k == Handler(l, None, i, s, a)
  <2>4. k.pc = l /\ k.id = i
    BY DEF Handler
  <2>5. AllIssued'
    <3>1. \A u \in Slots : tasks'[u].id \in issued' \cup {None}
      BY <1>0, <2>1, <2>2, <2>4, BeginEffect DEF AllIssued
    <3> QED
      BY <1>0, <1>1, <2>2, <3>1 DEF AllIssued, dbVars
  <2>6. EnrollLedger(k)'
    BY <2>1, <2>4 DEF EnrollLedger, EarlyPC
  <2>7. VolunteerLedger(k)'
    BY <2>1, <2>2, <2>4 DEF VolunteerLedger
  <2> HIDE DEF k
  <2> QED
    BY <1>3, <2>1, <2>3, <2>5, <2>6, <2>7 DEF k
<1>6. ASSUME NEW i \in Ids, HeartbeatStart(t, i)
      PROVE  LedgerInv'
  <2> DEFINE k == Handler("hb_save", volunteers[i].node, i, None, volunteers[i].addr)
  <2>1. /\ Begin(t, k) /\ UNCHANGED issued
        /\ i \in DOMAIN volunteers /\ volunteers' = [volunteers EXCEPT ![i].alive = TRUE]
    BY <1>6 DEF HeartbeatStart, auxVars
  <2>2. /\ DOMAIN volunteers' = DOMAIN volunteers
        /\ \A j \in DOMAIN volunteers :
             /\ volunteers'[j].node = volunteers[j].node
             /\ volunteers'[j].addr = volunteers[j].addr
             /\ volunteers'[j].svc = volunteers[j].svc
    BY <1>0, <2>1 DEF Volunteer
  <2>3. \A j \in Ids : Mirrored(j)'
    BY <1>1, <1>2, <2>2 DEF Mirrored, Row, Asg, dbVars
  <2>4. /\ k.pc = "hb_save" /\ k.id = i
        /\ k.node = volunteers[i].node /\ k.addr = volunteers[i].addr
    BY DEF Handler
  <2>5. AllIssued'
    <3>1. \A u \in Slots : tasks'[u].id \in issued' \cup {None}
      BY <1>0, <2>1, <2>4, BeginEffect DEF AllIssued
    <3> QED
      BY <1>0, <1>1, <2>1, <2>2, <3>1 DEF AllIssued, dbVars
  <2>6. \A c : c = k => EnrollLedger(c)'
    BY <2>4 DEF EnrollLedger, EarlyPC
  <2>7. \A c : c = k => VolunteerLedger(c)'
    BY <2>1, <2>2, <2>4 DEF VolunteerLedger, Row
  <2>8. PICK c : c = k
    OBVIOUS
  <2> HIDE DEF k
  <2> QED
    BY <1>3, <2>1, <2>3, <2>5, <2>6, <2>7, <2>8
<1>7. ASSUME NEW i \in Ids, NEW a \in Addrs, PortStart(t, i, a)
      PROVE  LedgerInv'
  <2> DEFINE k == Handler("port_save", volunteers[i].node, i, volunteers[i].svc, a)
  <2>1. /\ Begin(t, k) /\ UNCHANGED issued
        /\ i \in DOMAIN volunteers /\ volunteers' = [volunteers EXCEPT ![i].addr = a]
    BY <1>7 DEF PortStart, auxVars
  <2>2. /\ DOMAIN volunteers' = DOMAIN volunteers
        /\ \A j \in DOMAIN volunteers :
             /\ volunteers'[j].node = volunteers[j].node
             /\ j # i => volunteers'[j].addr = volunteers[j].addr
             /\ volunteers'[j].svc = volunteers[j].svc
        /\ volunteers'[i].addr = a
    BY <1>0, <2>1 DEF Volunteer
  <2>3. \A j \in Ids : j # i => Mirrored(j)'
    BY <1>1, <1>2, <2>2 DEF Mirrored, Row, Asg, dbVars
  <2>4. k.pc = "port_save" /\ k.id = i /\ k.node = volunteers[i].node /\ k.addr = a
    BY DEF Handler
  <2>5. AllIssued'
    <3>1. \A u \in Slots : tasks'[u].id \in issued' \cup {None}
      BY <1>0, <2>1, <2>4, BeginEffect DEF AllIssued
    <3> QED
      BY <1>0, <1>1, <2>1, <2>2, <3>1 DEF AllIssued, dbVars
  <2>6. \A c : c = k => EnrollLedger(c)'
    BY <2>4 DEF EnrollLedger, EarlyPC
  <2>7. \A c : c = k => VolunteerLedger(c)'
    <3>1. i \in DOMAIN dbVol' /\ volunteers'[i].svc = Asg(i)'
      BY <1>1, <1>2, <2>1, <2>2 DEF Mirrored, Asg, dbVars
    <3> QED
      BY <2>1, <2>2, <2>4, <3>1 DEF VolunteerLedger, Row
  <2>8. PICK c : c = k
    OBVIOUS
  <2>9. \A j \in Ids : Mirrored(j)' \/ (c.pc \in UnsettledPC /\ c.id = j)
    BY <2>3, <2>4, <2>8 DEF UnsettledPC
  <2> HIDE DEF k
  <2> QED
    BY <1>3, <2>1, <2>5, <2>6, <2>7, <2>8, <2>9
<1>8. ASSUME NEW i \in Ids, DisconnectStart(t, i)
      PROVE  LedgerInv'
  <2> DEFINE k == Handler("dis_row", None, i, None, None)
  <2>1. /\ Begin(t, k) /\ UNCHANGED issued
        /\ i \in DOMAIN volunteers /\ volunteers' = Drop(volunteers, i)
    BY <1>8 DEF DisconnectStart
  <2>2. \A j \in Ids : j # i => Mirrored(j)'
    BY <1>1, <1>2, <2>1 DEF Mirrored, Row, Asg, Drop, dbVars
  <2>3. k.pc = "dis_row" /\ k.id = i
    BY DEF Handler
  <2>4. AllIssued'
    <3>1. \A u \in Slots : tasks'[u].id \in issued' \cup {None}
      BY <1>0, <2>1, <2>3, BeginEffect DEF AllIssued
    <3> QED
      BY <1>0, <1>1, <2>1, <3>1 DEF AllIssued, dbVars, Drop
  <2>5. EnrollLedger(k)'
    BY <2>3 DEF EnrollLedger, EarlyPC
  <2>6. VolunteerLedger(k)'
    BY <2>1, <2>3 DEF VolunteerLedger, Drop
  <2>7. \A j \in Ids : Mirrored(j)' \/ (k.pc \in UnsettledPC /\ k.id = j)
    BY <2>2, <2>3 DEF UnsettledPC
  <2> HIDE DEF k
  <2> QED
    BY <1>3, <2>1, <2>4, <2>5, <2>6, <2>7 DEF k
<1> QED
  BY <1>4, <1>5, <1>6, <1>7, <1>8 DEF Arrival

-----------------------------------------------------------------------------
(* The ledger while the churn monitor runs, or main() recovers.            *)

\* To show the invariant after a step of the churn monitor.
LEMMA LedgerChurn ==
  ASSUME TraceInv', \A u \in Slots : Idle(u), UNCHANGED <<tasks, boot>>, AllIssued',
         ChurnLedger',
         \A j \in Ids : Mirrored(j)' \/ (churn'.pc = "row" /\ churn'.id = j)
  PROVE  LedgerInv'
<1>1. \A u \in Slots : tasks'[u].pc = "idle"
  BY DEF Idle
<1>2. Alone'
  BY <1>1 DEF Alone, Idle
<1>3. \A u \in Slots : EnrollLedger(tasks[u])' /\ VolunteerLedger(tasks[u])'
  BY <1>1 DEF EnrollLedger, VolunteerLedger, EarlyPC
<1>4. \A j \in Ids : Mirrored(j)' \/ Unsettled(j)'
  BY DEF Unsettled
<1> QED
  BY <1>2, <1>3, <1>4 DEF LedgerInv

\* The rest of the list is as true as the whole list was.
LEMMA NextLedger ==
  ASSUME LedgerInv, ChurnNext, UNCHANGED volunteers, churn.pc \in EvictPC
  PROVE  ChurnLedger' /\ churn'.pc \in {"tick", "evict"}
<1>1. churn \in ChurnState /\ ChurnLedger /\ churn.id \in DOMAIN churn.dead
  BY DEF LedgerInv, TraceInv, TypeInv, TypeOK, ChurnOK, EvictPC
<1> DEFINE rest == Drop(churn.dead, churn.id)
<1>2. CASE DOMAIN rest = {}
  <2>1. churn' = IdleChurn
    BY <1>2 DEF ChurnNext
  <2> QED
    BY <2>1, EmptyMapType DEF IdleChurn, ChurnLedger, EvictPC
<1>3. CASE DOMAIN rest # {}
  <2>1. churn' = [pc |-> "evict", id |-> None, dead |-> rest]
    BY <1>3 DEF ChurnNext
  <2>2. churn'.pc = "evict" /\ churn'.dead = rest /\ churn'.id = None
    BY <2>1
  <2>3. \A i \in DOMAIN rest : i \in DOMAIN churn.dead \ {churn.id} /\ rest[i] = churn.dead[i]
    BY DEF Drop
  <2> QED
    BY <1>1, <2>2, <2>3 DEF ChurnLedger, EvictPC
<1> QED
  BY <1>2, <1>3

LEMMA ChurnStepLedger ==
  ASSUME OneAtATime, LedgerInv, TraceInv', ChurnStep
  PROVE  LedgerInv'
<1>0. /\ TypeInv /\ AllIssued /\ ChurnLedger /\ churn \in ChurnState
      /\ \A i \in DOMAIN volunteers : i \in Ids
      /\ \A i \in DOMAIN churn.dead : i \in Ids
      /\ ConstantsAssumption
  <2>1. churn.dead \in MapsOf(Ids, Opt(Services)) /\ volunteers \in MapsOf(Ids, Volunteer)
    BY DEF LedgerInv, TraceInv, TypeInv, TypeOK, ChurnState
  <2> QED
    BY <2>1, MapElim, ConstantsAssumption DEF LedgerInv, TraceInv, TypeInv, TypeOK
<1>1. /\ \A u \in Slots : Idle(u)
      /\ boot.pc = "serve"
      /\ UNCHANGED <<tasks, boot, issued>>
  <2>1. UNCHANGED <<tasks, boot, issued>>
    BY DEF ChurnStep, ChurnScan, ChurnEvict, ChurnRow, ChurnServer, ChurnUnassign,
       ChurnRequeue, auxVars
  <2>2. churn.pc # "tick" \/ (Quiet /\ boot.pc = "serve")
    BY DEF ChurnStep, ChurnScan, ChurnEvict, ChurnRow, ChurnServer, ChurnUnassign,
       ChurnRequeue, OneAtATime
  <2>3. boot.pc # "serve" => churn.pc = "tick"
    BY <1>0 DEF TypeInv, BootOK, IdleChurn
  <2> QED
    BY <2>1, <2>2, <2>3 DEF Quiet, LedgerInv, Alone
<1>2. \A j \in Ids : Mirrored(j) \/ (churn.pc = "row" /\ churn.id = j)
  BY <1>1 DEF LedgerInv, Unsettled, UnsettledPC, Idle
<1>3. CASE ChurnScan
  <2>1. /\ churn'.pc = "evict" /\ churn'.id = None /\ DOMAIN churn'.dead = Dead
        /\ \A i \in Dead : churn'.dead[i] = volunteers[i].svc
        /\ UNCHANGED <<volunteers, dbVars>> /\ churn.pc = "tick"
    BY <1>3 DEF ChurnScan, memVars
  <2>2. ChurnLedger'
    BY <2>1 DEF ChurnLedger, Dead, EvictPC
  <2>3. AllIssued'
    BY <1>0, <1>1, <2>1 DEF AllIssued, dbVars
  <2> QED
    BY <1>1, <1>2, <2>1, <2>2, <2>3, SameMirror, LedgerChurn
<1>4. ASSUME NEW i \in Ids, ChurnEvict(i)
      PROVE  LedgerInv'
  <2>1. /\ churn'.pc = "row" /\ churn'.dead = churn.dead /\ churn'.id = i
        /\ volunteers' = Drop(volunteers, i) /\ UNCHANGED dbVars
        /\ churn.pc = "evict" /\ i \in DOMAIN churn.dead
    BY <1>0, <1>4 DEF ChurnEvict, ChurnState
  <2>2. churn.id = None
    BY <1>0, <2>1 DEF ChurnLedger
  <2>3. ChurnLedger'
    <3>1. i \in DOMAIN volunteers /\ churn.dead[i] = volunteers[i].svc
      BY <1>0, <2>1, <2>2 DEF ChurnLedger
    <3>2. churn.dead[i] = Asg(i)
      BY <1>2, <2>1, <3>1 DEF Mirrored
    <3> QED
      BY <1>0, <2>1, <2>2, <3>2 DEF ChurnLedger, Drop, Asg, dbVars
  <2>4. \A j \in Ids : j # i => Mirrored(j)'
    BY <1>2, <2>1 DEF Mirrored, Row, Asg, Drop, dbVars
  <2>5. AllIssued'
    BY <1>0, <1>1, <2>1 DEF AllIssued, Drop, dbVars
  <2> QED
    BY <1>1, <2>1, <2>3, <2>4, <2>5, LedgerChurn
<1>5. CASE ChurnRow
  <2>1. /\ churn'.pc = "server" /\ churn'.dead = churn.dead /\ churn'.id = churn.id
        /\ dbVol' = Drop(dbVol, churn.id) /\ UNCHANGED <<volunteers, dbAsg>>
        /\ churn.pc = "row"
    BY <1>0, <1>5 DEF ChurnRow, ChurnState, memVars
  <2>2. churn.id \notin DOMAIN volunteers
    BY <1>0, <2>1 DEF ChurnLedger, EvictPC
  <2>3. ChurnLedger'
    BY <1>0, <2>1, <2>2 DEF ChurnLedger
  <2>4. \A j \in Ids : Mirrored(j)'
    BY <1>2, <2>1, <2>2 DEF Mirrored, Row, Asg, Drop
  <2>5. AllIssued'
    BY <1>0, <1>1, <2>1 DEF AllIssued, Drop
  <2> QED
    BY <1>1, <2>1, <2>3, <2>4, <2>5, LedgerChurn
<1>6. CASE ChurnServer \/ ChurnRequeue
  <2>1. /\ UNCHANGED <<volunteers, dbVars>> /\ churn.pc \in {"server", "requeue"}
        /\ ChurnNext \/ churn' = [churn EXCEPT !.pc = "unassign"]
    BY <1>6 DEF ChurnServer, ChurnRequeue, memVars
  <2>2. ChurnLedger' /\ churn'.pc # "row"
    <3>1. CASE ChurnNext
      BY <2>1, <3>1, NextLedger DEF EvictPC
    <3>2. CASE churn' = [churn EXCEPT !.pc = "unassign"]
      BY <1>0, <2>1, <3>2 DEF ChurnLedger, ChurnState, EvictPC
    <3> QED
      BY <2>1, <3>1, <3>2
  <2>3. \A j \in Ids : Mirrored(j)'
    BY <1>2, <2>1, SameMirror
  <2>4. AllIssued'
    BY <1>0, <1>1, <2>1 DEF AllIssued, dbVars
  <2> QED
    BY <1>1, <2>2, <2>3, <2>4, LedgerChurn
<1>7. CASE ChurnUnassign
  <2>1. /\ churn'.pc = "requeue" /\ churn'.dead = churn.dead /\ churn'.id = churn.id
        /\ dbAsg' = Drop(dbAsg, churn.id) /\ UNCHANGED <<volunteers, dbVol>>
        /\ churn.pc = "unassign"
    BY <1>0, <1>7 DEF ChurnUnassign, ChurnState, memVars
  <2>2. churn.id \notin DOMAIN volunteers
    BY <1>0, <2>1 DEF ChurnLedger, EvictPC
  <2>3. ChurnLedger'
    BY <1>0, <2>1, <2>2 DEF ChurnLedger
  <2>4. \A j \in Ids : Mirrored(j)'
    BY <1>2, <2>1, <2>2 DEF Mirrored, Row, Asg, Drop
  <2>5. AllIssued'
    BY <1>0, <1>1, <2>1 DEF AllIssued, Drop
  <2> QED
    BY <1>1, <2>1, <2>3, <2>4, <2>5, LedgerChurn
<1> QED
  BY <1>3, <1>4, <1>5, <1>6, <1>7 DEF ChurnStep

\* To show the invariant when nothing but main() is under way.
LEMMA LedgerBoot ==
  ASSUME TraceInv', \A u \in Slots : tasks'[u] = IdleTask, churn' = IdleChurn,
         DOMAIN volunteers' \cup DOMAIN dbVol' \cup DOMAIN dbAsg' \subseteq issued',
         boot'.pc \in {"prune", "load"} \/ \A j \in Ids : Mirrored(j)'
  PROVE  LedgerInv'
<1>1. \A u \in Slots : tasks'[u].pc = "idle" /\ tasks'[u].id = None
  BY DEF IdleTask, Handler
<1>2. Alone'
  BY <1>1 DEF Alone, Idle, IdleChurn
<1>3. \A u \in Slots : EnrollLedger(tasks[u])' /\ VolunteerLedger(tasks[u])'
  BY <1>1 DEF EnrollLedger, VolunteerLedger, EarlyPC
<1>4. ChurnLedger'
  BY EmptyMapType DEF ChurnLedger, IdleChurn, EvictPC
<1>5. AllIssued'
  BY <1>1 DEF AllIssued
<1> QED
  BY <1>2, <1>3, <1>4, <1>5 DEF LedgerInv

\* Before the routes are served, and when a process starts.
LEMMA BootLedger ==
  ASSUME LedgerInv, TraceInv', BootStep
  PROVE  LedgerInv'
<1>0. /\ TypeInv /\ AllIssued /\ boot \in BootState /\ tasks \in [Slots -> Task]
      /\ dbVol \in MapsOf(Ids, VolunteerRow) /\ dbAsg \in MapsOf(Ids, Services)
  BY DEF LedgerInv, TraceInv, TypeInv, TypeOK
<1>1. /\ boot.pc # "serve" /\ UNCHANGED <<tasks, churn, issued>>
      /\ churn = IdleChurn /\ \A u \in Slots : tasks[u].pc = "idle"
  BY <1>0 DEF BootStep, BootPrune, BootLoad, BootPass1, BootPass1Done, BootPass2, BootServe,
     TypeInv, BootOK, Idle, auxVars
<1>2. ASSUME DOMAIN volunteers' \cup DOMAIN dbVol' \cup DOMAIN dbAsg' \subseteq issued,
             boot'.pc \in {"prune", "load"} \/ \A j \in Ids : Mirrored(j)'
      PROVE  LedgerInv'
  <2>1. \A u \in Slots : tasks'[u].pc = "idle"
    BY <1>1
  <2>2. Alone'
    BY <1>1, <2>1 DEF Alone, Idle, IdleChurn
  <2>3. \A u \in Slots : EnrollLedger(tasks[u])' /\ VolunteerLedger(tasks[u])'
    BY <2>1 DEF EnrollLedger, VolunteerLedger, EarlyPC
  <2>4. ChurnLedger'
    BY <1>1, EmptyMapType DEF ChurnLedger, IdleChurn, EvictPC
  <2>5. AllIssued'
    BY <1>0, <1>1, <1>2 DEF AllIssued
  <2> QED
    BY <1>2, <2>2, <2>3, <2>4, <2>5 DEF LedgerInv
<1>3. CASE BootPrune
  <2>1. /\ boot'.pc = "load" /\ UNCHANGED <<volunteers, dbVol>>
        /\ DOMAIN dbAsg' \subseteq DOMAIN dbAsg
    BY <1>0, <1>3 DEF BootPrune, BootState, memVars
  <2> QED
    BY <1>0, <1>2, <2>1 DEF AllIssued
<1>4. CASE BootLoad
  <2>1. /\ DOMAIN volunteers' = DOMAIN dbVol /\ UNCHANGED dbVars
        /\ \A j \in DOMAIN dbVol :
             volunteers'[j] = [node |-> dbVol[j].node, addr |-> dbVol[j].addr,
                               svc |-> Asg(j), alive |-> TRUE]
    BY <1>4 DEF BootLoad, Asg
  <2>2. \A j \in DOMAIN dbVol : dbVol[j] = [node |-> dbVol[j].node, addr |-> dbVol[j].addr]
    <3>1. \A j \in DOMAIN dbVol : dbVol[j] \in VolunteerRow
      BY <1>0, MapElim
    <3> QED
      BY <3>1 DEF VolunteerRow
  <2>3. \A j \in Ids : Mirrored(j)'
    BY <2>1, <2>2 DEF Mirrored, Row, Asg, dbVars
  <2> QED
    BY <1>0, <1>2, <2>1, <2>3 DEF AllIssued, dbVars
<1>5. CASE BootPass1Done \/ BootServe \/ \E i \in Ids : BootPass1(i) \/ BootPass2(i)
  <2>1. UNCHANGED <<volunteers, dbVars>> /\ boot.pc \in {"pass1", "pass2"}
    BY <1>5 DEF BootPass1, BootPass1Done, BootPass2, BootServe, memVars
  <2>2. \A j \in Ids : Mirrored(j)
    BY <1>1, <2>1 DEF LedgerInv, Unsettled, UnsettledPC, IdleChurn
  <2> QED
    BY <1>0, <1>2, <2>1, <2>2, SameMirror DEF AllIssued, dbVars
<1> QED
  BY <1>3, <1>4, <1>5 DEF BootStep

\* The process dies, HAProxy restarts or a heartbeat is overdue.
LEMMA EnvironmentLedger ==
  ASSUME OneAtATime, LedgerInv, TraceInv', Environment
  PROVE  LedgerInv'
<1>0. /\ TypeInv /\ AllIssued /\ boot \in BootState
      /\ \A i \in DOMAIN volunteers : volunteers[i] \in Volunteer
  BY MapElim DEF LedgerInv, TraceInv, TypeInv, TypeOK
<1>1. CASE Crash \/ Redeploy
  <2>1. Reset
    BY <1>1 DEF Crash, Redeploy
  <2>2. /\ \A u \in Slots : tasks'[u] = IdleTask
        /\ churn' = IdleChurn /\ DOMAIN volunteers' = {} /\ boot'.pc = "prune"
        /\ UNCHANGED <<dbVol, dbAsg, issued>>
    BY <2>1, EmptyMapType DEF Reset, Booting, dbVars
  <2> QED
    BY <1>0, <2>2, LedgerBoot DEF AllIssued
<1>2. ASSUME UNCHANGED <<dbVars, tasks, churn, issued>>, boot'.pc = boot.pc,
             DOMAIN volunteers' = DOMAIN volunteers,
             \A j \in DOMAIN volunteers :
               /\ volunteers'[j].node = volunteers[j].node
               /\ volunteers'[j].addr = volunteers[j].addr
               /\ volunteers'[j].svc = volunteers[j].svc
      PROVE  LedgerInv'
  <2>1. \A j : Mirrored(j) => Mirrored(j)'
    BY <1>2 DEF Mirrored, Row, Asg, dbVars
  <2>2. \A j : Unsettled(j) => Unsettled(j)'
    BY <1>2 DEF Unsettled
  <2>3. \A u \in Slots : EnrollLedger(tasks[u])'
    BY <1>2 DEF LedgerInv, EnrollLedger, Asg, dbVars
  <2>4. ASSUME NEW u \in Slots
        PROVE  VolunteerLedger(tasks[u])'
    <3>1. VolunteerLedger(tasks[u]) /\ tasks'[u] = tasks[u]
      BY <1>2 DEF LedgerInv
    <3>2. \A j : Asg(j)' = Asg(j)
      BY <1>2 DEF Asg, dbVars
    <3>3. \A j \in DOMAIN volunteers : Row(j)' = Row(j)
      BY <1>2 DEF Row
    <3> QED
      BY <1>2, <3>1, <3>2, <3>3 DEF VolunteerLedger, dbVars
  <2>5. ChurnLedger'
    BY <1>2 DEF LedgerInv, ChurnLedger, Asg, dbVars
  <2>6. AllIssued' /\ Alone'
    BY <1>0, <1>2 DEF LedgerInv, AllIssued, Alone, Idle, dbVars
  <2> QED
    BY <1>2, <2>1, <2>2, <2>3, <2>4, <2>5, <2>6 DEF LedgerInv
<1>3. CASE HAProxyRestart
  BY <1>0, <1>2, <1>3 DEF HAProxyRestart, BootState, memVars
<1>4. ASSUME NEW i \in Ids, Expire(i)
      PROVE  LedgerInv'
  <2>1. /\ UNCHANGED <<dbVars, tasks, churn, issued, boot>>
        /\ i \in DOMAIN volunteers
        /\ volunteers' = [volunteers EXCEPT ![i].alive = FALSE]
    BY <1>4 DEF Expire
  <2>2. /\ DOMAIN volunteers' = DOMAIN volunteers
        /\ \A j \in DOMAIN volunteers :
             /\ volunteers'[j].node = volunteers[j].node
             /\ volunteers'[j].addr = volunteers[j].addr
             /\ volunteers'[j].svc = volunteers[j].svc
    BY <1>0, <2>1 DEF Volunteer
  <2> QED
    BY <1>2, <2>1, <2>2
<1>5. ASSUME NEW i \in Ids, NotFound(i)
      PROVE  LedgerInv'
  BY <1>2, <1>5 DEF NotFound, vars, memVars, auxVars
<1> QED
  BY <1>1, <1>3, <1>4, <1>5, NoFailures DEF Environment

LEMMA LedgerInit == Init => LedgerInv
<1> SUFFICES ASSUME Init PROVE LedgerInv
  OBVIOUS
<1>1. /\ \A t \in Slots : tasks[t].pc = "idle" /\ tasks[t].id = None
      /\ churn = IdleChurn /\ boot.pc = "prune"
      /\ DOMAIN volunteers = {} /\ DOMAIN dbVol = {} /\ DOMAIN dbAsg = {}
  BY EmptyMapType DEF Init, IdleTask, Handler, Booting
<1>2. TraceInv
  BY <1>1, TypeInit DEF TraceInv, RegisterPC
<1>3. Alone /\ AllIssued
  BY <1>1 DEF Alone, AllIssued, Idle, IdleChurn
<1>4. \A t \in Slots : EnrollLedger(tasks[t]) /\ VolunteerLedger(tasks[t])
  BY <1>1 DEF EnrollLedger, VolunteerLedger, EarlyPC
<1>5. ChurnLedger
  BY <1>1, EmptyMapType DEF ChurnLedger, IdleChurn, EvictPC
<1> QED
  BY <1>1, <1>2, <1>3, <1>4, <1>5 DEF LedgerInv

LEMMA LedgerStep ==
  ASSUME OneAtATime
  PROVE  LedgerInv /\ [Next]_vars => LedgerInv'
<1> SUFFICES ASSUME LedgerInv, [Next]_vars PROVE LedgerInv'
  OBVIOUS
<1>1. TraceInv'
  BY TraceStep DEF LedgerInv
<1>2. CASE UNCHANGED vars
  <2>1. \A j : (Mirrored(j) <=> Mirrored(j)') /\ (Unsettled(j) <=> Unsettled(j)')
    BY <1>2, SameMirror DEF vars, memVars, Unsettled
  <2>2. \A u \in Slots : EnrollLedger(tasks[u])' /\ VolunteerLedger(tasks[u])'
    BY <1>2 DEF LedgerInv, EnrollLedger, VolunteerLedger, Row, Asg, vars, memVars, dbVars
  <2>3. AllIssued' /\ Alone' /\ ChurnLedger'
    BY <1>2 DEF LedgerInv, AllIssued, Alone, ChurnLedger, Asg, Idle, vars, memVars, dbVars,
       auxVars
  <2> QED
    BY <1>1, <1>2, <2>1, <2>2, <2>3 DEF LedgerInv, vars
<1>3. ASSUME NEW t \in Slots, Arrival(t) \/ TaskStep(t)
      PROVE  LedgerInv'
  BY <1>1, <1>3, ArrivalLedger, ChoiceLedger, StoreLedger, OtherLedger
     DEF TaskStep, EnrollStep
<1> QED
  BY <1>1, <1>2, <1>3, ChurnStepLedger, BootLedger, EnvironmentLedger DEF Next

\* With one activity at a time, no failing SQL and no dropped handler: at rest
\* the tables volunteers and service_assignments say what the map says, so
\* that a crash then loses nothing but the queue (db.rs writes that follow or
\* precede the map's in enroll, register_service, heartbeat, tunnel-port,
\* disconnect, run_churn_monitor and main).
THEOREM TablesMirrorTheMap ==
  ASSUME OneAtATime
  PROVE  Spec => []MirrorAtRest
<1>1. LedgerInv => MirrorAtRest
  <2> SUFFICES ASSUME LedgerInv, AtRest
               PROVE  /\ DOMAIN dbVol = DOMAIN volunteers
                      /\ \A i \in DOMAIN volunteers :
                           /\ dbVol[i] = [node |-> volunteers[i].node,
                                          addr |-> volunteers[i].addr]
                           /\ volunteers[i].svc = IF i \in DOMAIN dbAsg THEN dbAsg[i]
                                                                        ELSE None
    BY DEF MirrorAtRest
  <2>1. \A j \in Ids : Mirrored(j)
    BY DEF AtRest, Quiet, Idle, LedgerInv, Unsettled, UnsettledPC
  <2>2. DOMAIN volunteers \subseteq Ids /\ DOMAIN dbVol \subseteq Ids
    BY MapElim DEF LedgerInv, TraceInv, TypeInv, TypeOK
  <2> QED
    BY <2>1, <2>2 DEF Mirrored, Row, Asg
<1> QED
  BY <1>1, LedgerInit, LedgerStep, PTL DEF Spec

-----------------------------------------------------------------------------
(* The queue.                                                              *)

LEMMA PopQueue ==
  ASSUME pending \in Seq(Services), pending # <<>>, pending' = Tail(pending), QueuedOnce,
         NEW h, h = Head(pending)
  PROVE  /\ QueuedOnce' /\ InQueue(h) /\ ~InQueue(h)'
         /\ \A s : s # h => (InQueue(s) <=> InQueue(s)')
<1>1. /\ DOMAIN pending = 1..Len(pending) /\ Len(pending) \in Nat /\ Len(pending) > 0
      /\ DOMAIN pending' = 1..(Len(pending) - 1)
      /\ \A k \in DOMAIN pending' : k + 1 \in DOMAIN pending /\ pending'[k] = pending[k + 1]
      /\ pending[1] = h /\ 1 \in DOMAIN pending
  OBVIOUS
<1>2. \A k \in DOMAIN pending : k # 1 => k - 1 \in DOMAIN pending' /\ pending'[k - 1] = pending[k]
  BY <1>1
<1>3. QueuedOnce'
  BY <1>1 DEF QueuedOnce
<1>4. ~InQueue(h)'
  BY <1>1 DEF QueuedOnce, InQueue
<1>5. ASSUME NEW s, s # h
      PROVE  InQueue(s) <=> InQueue(s)'
  <2>1. InQueue(s) => InQueue(s)'
    <3>1. ASSUME NEW k \in DOMAIN pending, pending[k] = s
          PROVE  k - 1 \in DOMAIN pending' /\ pending'[k - 1] = s
      <4>1. k # 1
        BY <1>1, <1>5, <3>1
      <4> QED
        BY <1>2, <3>1, <4>1
    <3> QED
      BY <3>1 DEF InQueue
  <2>2. InQueue(s)' => InQueue(s)
    BY <1>1 DEF InQueue
  <2> QED
    BY <2>1, <2>2
<1> QED
  BY <1>1, <1>3, <1>4, <1>5 DEF InQueue

LEMMA PushFrontQueue ==
  ASSUME pending \in Seq(Services), NEW h \in Services, ~InQueue(h), QueuedOnce,
         pending' = <<h>> \o pending
  PROVE  /\ QueuedOnce' /\ InQueue(h)'
         /\ \A s : s # h => (InQueue(s) <=> InQueue(s)')
<1>1. /\ DOMAIN pending = 1..Len(pending) /\ Len(pending) \in Nat
      /\ DOMAIN pending' = 1..(Len(pending) + 1)
      /\ pending'[1] = h
      /\ \A k \in DOMAIN pending' : k # 1 =>
           k - 1 \in DOMAIN pending /\ pending'[k] = pending[k - 1]
  OBVIOUS
<1>2. \A k \in DOMAIN pending : k + 1 \in DOMAIN pending' /\ pending'[k + 1] = pending[k]
  BY <1>1
<1>3. QueuedOnce'
  <2> SUFFICES ASSUME NEW k \in DOMAIN pending', NEW l \in DOMAIN pending',
                      pending'[k] = pending'[l]
               PROVE  k = l
    BY DEF QueuedOnce
  <2>1. CASE k # 1 /\ l # 1
    BY <1>1, <2>1 DEF QueuedOnce
  <2>2. \A m \in DOMAIN pending' : m # 1 => pending'[m] # h
    BY <1>1 DEF InQueue
  <2> QED
    BY <1>1, <2>1, <2>2
<1>4. InQueue(h)'
  BY <1>1 DEF InQueue
<1>5. ASSUME NEW s, s # h
      PROVE  InQueue(s) <=> InQueue(s)'
  <2>1. InQueue(s) => InQueue(s)'
    BY <1>2 DEF InQueue
  <2>2. InQueue(s)' => InQueue(s)
    BY <1>1, <1>5 DEF InQueue
  <2> QED
    BY <2>1, <2>2
<1> QED
  BY <1>3, <1>4, <1>5

LEMMA PushBackQueue ==
  ASSUME pending \in Seq(Services), NEW h \in Services, ~InQueue(h), QueuedOnce,
         pending' = Append(pending, h)
  PROVE  /\ QueuedOnce' /\ InQueue(h)'
         /\ \A s : s # h => (InQueue(s) <=> InQueue(s)')
<1>1. /\ DOMAIN pending = 1..Len(pending) /\ Len(pending) \in Nat
      /\ DOMAIN pending' = 1..(Len(pending) + 1)
      /\ pending'[Len(pending) + 1] = h
      /\ \A k \in DOMAIN pending' : k # Len(pending) + 1 =>
           k \in DOMAIN pending /\ pending'[k] = pending[k]
      /\ \A k \in DOMAIN pending : k \in DOMAIN pending' /\ pending'[k] = pending[k]
  OBVIOUS
<1>2. QueuedOnce'
  <2> SUFFICES ASSUME NEW k \in DOMAIN pending', NEW l \in DOMAIN pending',
                      pending'[k] = pending'[l]
               PROVE  k = l
    BY DEF QueuedOnce
  <2>1. CASE k # Len(pending) + 1 /\ l # Len(pending) + 1
    BY <1>1, <2>1 DEF QueuedOnce
  <2>2. \A m \in DOMAIN pending' : m # Len(pending) + 1 => pending'[m] # h
    BY <1>1 DEF InQueue
  <2> QED
    BY <1>1, <2>1, <2>2
<1>3. InQueue(h)'
  BY <1>1 DEF InQueue
<1>4. ASSUME NEW s, s # h
      PROVE  InQueue(s) <=> InQueue(s)'
  <2>1. InQueue(s) => InQueue(s)'
    BY <1>1 DEF InQueue
  <2>2. InQueue(s)' => InQueue(s)
    BY <1>1, <1>4 DEF InQueue
  <2> QED
    BY <2>1, <2>2
<1> QED
  BY <1>2, <1>3, <1>4

-----------------------------------------------------------------------------
(* The place of a service while a handler runs.                            *)

\* OnePlace when only handler t runs.
TaskPlace(t, s) ==
  /\ \A i, j \in Rows(s) : i = j
  /\ InQueue(s) => Rows(s) = {}
  /\ Carries(tasks[t], s) => ~InQueue(s) /\ Rows(s) \subseteq {tasks[t].id}
  /\ owner[s] = "new" => ~InQueue(s) /\ Rows(s) = {} /\ ~Carries(tasks[t], s)
  /\ owner[s] = "accepted" =>
       s \in lost \/ InQueue(s) \/ Rows(s) # {} \/ Carries(tasks[t], s)

LEMMA IdleCarries == \A k, s : k.pc = "idle" => ~Carries(k, s)
BY DEF Carries, RegisterPC, CarryPC

LEMMA PlaceOfTask ==
  ASSUME NEW t \in Slots, \A u \in Slots \ {t} : tasks[u].pc = "idle", churn.pc = "tick"
  PROVE  \A s : OnePlace(s) <=> TaskPlace(t, s)
<1> SUFFICES ASSUME NEW s PROVE OnePlace(s) <=> TaskPlace(t, s)
  OBVIOUS
<1>1. ~Evicting(s)
  BY DEF Evicting, EvictPC
<1>2. \A u \in Slots \ {t} : ~Carries(tasks[u], s)
  BY IdleCarries
<1> QED
  BY <1>1, <1>2 DEF OnePlace, TaskPlace, Nowhere

LEMMA PlaceOfTaskNext ==
  ASSUME NEW t \in Slots, \A u \in Slots \ {t} : tasks'[u].pc = "idle", churn'.pc = "tick"
  PROVE  \A s : OnePlace(s)' <=> TaskPlace(t, s)'
<1> SUFFICES ASSUME NEW s PROVE OnePlace(s)' <=> TaskPlace(t, s)'
  OBVIOUS
<1>1. ~Evicting(s)'
  BY DEF Evicting, EvictPC
<1>2. \A u \in Slots \ {t} : ~Carries(tasks[u], s)'
  BY IdleCarries
<1> QED
  BY <1>1, <1>2 DEF OnePlace, TaskPlace, Nowhere

\* To show the invariant after a step of one handler.
LEMMA PlaceTask ==
  ASSUME NEW t \in Slots, \A u \in Slots \ {t} : Idle(u) /\ tasks'[u] = tasks[u],
         churn.pc = "tick", UNCHANGED churn, QueuedOnce', tasks'[t].pc # "dis_row",
         \A s \in Services : TaskPlace(t, s)'
  PROVE  PlaceInv'
<1>1. \A u \in Slots \ {t} : tasks'[u].pc = "idle"
  BY DEF Idle
<1>2. \A s \in Services : OnePlace(s)'
  BY <1>1, PlaceOfTaskNext
<1>3. \A u \in Slots : tasks'[u].pc # "dis_row"
  BY <1>1
<1> QED
  BY <1>2, <1>3 DEF PlaceInv

\* A service stays where it is.
LEMMA SamePlace ==
  ASSUME NEW t \in Slots, NEW s, TaskPlace(t, s), Rows(s)' = Rows(s),
         InQueue(s)' <=> InQueue(s), Carries(tasks[t], s)' <=> Carries(tasks[t], s),
         Carries(tasks[t], s) => tasks'[t].id = tasks[t].id,
         owner'[s] = owner[s], s \in lost => s \in lost'
  PROVE  TaskPlace(t, s)'
BY DEF TaskPlace

LEMMA SameRows ==
  ASSUME UNCHANGED dbVars
  PROVE  \A s : Rows(s)' = Rows(s)
BY DEF Rows, dbVars

LEMMA SameQueue ==
  ASSUME UNCHANGED pending
  PROVE  /\ QueuedOnce => QueuedOnce'
         /\ \A s : InQueue(s)' <=> InQueue(s)
BY DEF QueuedOnce, InQueue

LEMMA RowsAreIds ==
  ASSUME TypeOK, NEW s
  PROVE  Rows(s) \subseteq Ids /\ None \notin Rows(s)
<1>1. DOMAIN dbVol \subseteq Ids
  BY MapElim DEF TypeOK
<1> QED
  BY <1>1, ConstantsAssumption DEF Rows

\* A row is written for an id that has none.
LEMMA RowsPut ==
  ASSUME NEW i, NEW r, i \notin DOMAIN dbAsg, dbAsg' = Put(dbAsg, i, r), UNCHANGED dbVol
  PROVE  /\ \A s : s # r => Rows(s)' = Rows(s)
         /\ Rows(r)' \subseteq Rows(r) \cup {i} /\ Rows(r) \subseteq Rows(r)'
         /\ i \in DOMAIN dbVol => i \in Rows(r)'
BY DEF Rows, Put

\* What holds while handler t runs.
LEMMA PlaceNow ==
  ASSUME LedgerInv, PlaceInv, NEW t \in Slots, ~Idle(t)
  PROVE  /\ TypeInv /\ QueuedOnce /\ pending \in Seq(Services)
         /\ tasks \in [Slots -> Task] /\ tasks[t] \in Task /\ TaskOK(tasks[t])
         /\ EnrollLedger(tasks[t]) /\ VolunteerLedger(tasks[t])
         /\ \A s \in Services : TaskPlace(t, s)
         /\ None \notin Services
<1>1. \A u \in Slots \ {t} : tasks[u].pc = "idle"
  BY RunsAlone DEF Idle
<1>2. churn.pc = "tick"
  BY RunsAlone
<1> QED
  BY <1>1, <1>2, PlaceOfTask, ConstantsAssumption
     DEF LedgerInv, PlaceInv, TraceInv, TypeInv, TypeOK

\* A handler's step that moves no service.
LEMMA QuietPlace ==
  ASSUME LedgerInv, PlaceInv, NEW t \in Slots, ~Idle(t),
         \A u \in Slots \ {t} : tasks'[u] = tasks[u],
         UNCHANGED <<pending, churn, owner, lost>>,
         \A s \in Services : Rows(s)' = Rows(s),
         tasks'[t].pc # "dis_row",
         \A s \in Services :
           /\ Carries(tasks[t], s)' <=> Carries(tasks[t], s)
           /\ Carries(tasks[t], s) => tasks'[t].id = tasks[t].id
  PROVE  PlaceInv'
<1>1. \A s \in Services : TaskPlace(t, s)'
  BY PlaceNow, SamePlace, SameQueue
<1>2. QueuedOnce'
  BY PlaceNow, SameQueue
<1> QED
  BY <1>1, <1>2, RunsAlone, PlaceTask

\* An enrollment looks for its id and its service; pop_front moves the front
\* service into the handler's hands.
LEMMA ChoicePlace ==
  ASSUME LedgerInv, PlaceInv, NEW t \in Slots,
         EnrollFindDb(t) \/ EnrollAsgMem(t) \/ EnrollAsgDb(t) \/ EnrollPop(t)
  PROVE  PlaceInv'
<1>1. /\ tasks[t].pc \in EarlyPC /\ ~Idle(t) /\ UNCHANGED <<churn, dbVars, owner, lost>>
      /\ \A u \in Slots \ {t} : tasks'[u] = tasks[u]
  <2>1. UNCHANGED <<churn, dbVars, owner, lost>> /\ ~Idle(t)
    BY DEF EnrollFindDb, EnrollAsgMem, EnrollAsgDb, EnrollPop, At, Idle, auxVars
  <2> QED
    BY <2>1, PlaceNow, ChoiceEffect
<1>0. /\ TypeInv /\ QueuedOnce /\ pending \in Seq(Services)
      /\ tasks \in [Slots -> Task] /\ tasks[t] \in Task
      /\ EnrollLedger(tasks[t]) /\ \A s \in Services : TaskPlace(t, s)
  BY <1>1, PlaceNow
<1>2. ~tasks[t].queued /\ \A s : ~Carries(tasks[t], s)
  BY <1>0, <1>1 DEF EnrollLedger, Carries, EarlyPC, RegisterPC
<1>3. ASSUME UNCHANGED pending, tasks'[t].pc \in EnrollPC, ~tasks'[t].queued
      PROVE  PlaceInv'
  <2>1. \A s : ~Carries(tasks[t], s)'
    BY <1>3 DEF Carries, EnrollPC, RegisterPC
  <2>2. tasks'[t].pc # "dis_row"
    BY <1>3 DEF EnrollPC
  <2> QED
    BY <1>1, <1>2, <1>3, <2>1, <2>2, SameRows, QuietPlace
<1>4. CASE EnrollFindDb(t) \/ EnrollAsgMem(t) \/ EnrollAsgDb(t)
  <2>1. UNCHANGED pending
    BY <1>4 DEF EnrollFindDb, EnrollAsgMem, EnrollAsgDb, memVars
  <2>2. tasks'[t].pc \in EnrollPC
    BY <1>0, <1>4, ChoiceEffect
  <2>3. tasks'[t].queued = tasks[t].queued
    <3>1. CASE EnrollFindDb(t)
      BY <1>0, <3>1 DEF EnrollFindDb, Task
    <3>2. CASE EnrollAsgMem(t) \/ EnrollAsgDb(t)
      BY <1>0, <3>2 DEF EnrollAsgMem, EnrollAsgDb, Task
    <3> QED
      BY <1>4, <3>1, <3>2
  <2> QED
    BY <1>2, <1>3, <2>1, <2>2, <2>3
<1>5. CASE EnrollPop(t)
  <2>1. CASE pending = <<>>
    <3>1. UNCHANGED pending /\ Goto(t, "save")
      BY <1>5, <2>1 DEF EnrollPop
    <3>2. tasks'[t].pc = "save" /\ tasks'[t].queued = tasks[t].queued
      BY <1>0, <3>1, GotoEffect
    <3> QED
      BY <1>2, <1>3, <3>1, <3>2 DEF EnrollPC
  <2>2. CASE pending # <<>>
    <3>1. PICK h : h = Head(pending)
      OBVIOUS
    <3>2. /\ pending' = Tail(pending) /\ h \in Services
          /\ tasks'[t].pc = "cfg" /\ tasks'[t].svc = h /\ tasks'[t].queued
      BY <1>0, <1>5, <2>2, <3>1 DEF EnrollPop, Task
    <3>3. /\ QueuedOnce' /\ InQueue(h) /\ ~InQueue(h)'
          /\ \A s : s # h => (InQueue(s) <=> InQueue(s)')
      BY <1>0, <2>2, <3>1, <3>2, PopQueue
    <3>4. \A s : Carries(tasks[t], s)' <=> s = h
      BY <3>2 DEF Carries, CarryPC
    <3>5. ASSUME NEW s \in Services
          PROVE  TaskPlace(t, s)'
      <4>1. Rows(s)' = Rows(s) /\ owner'[s] = owner[s] /\ UNCHANGED lost
        BY <1>1, SameRows
      <4>2. CASE s # h
        BY <1>0, <1>2, <3>3, <3>4, <4>1, <4>2, SamePlace
      <4>3. CASE s = h
        BY <1>0, <3>3, <3>4, <4>1, <4>3 DEF TaskPlace
      <4> QED
        BY <4>2, <4>3
    <3> QED
      BY <1>1, <3>2, <3>3, <3>5, RunsAlone, PlaceTask
  <2> QED
    BY <2>1, <2>2
<1> QED
  BY <1>4, <1>5

\* The row of a service that comes from the queue, or of the one it had.
LEMMA EnrollRowPlace ==
  ASSUME LedgerInv, PlaceInv, NEW t \in Slots, EnrollRow(t)
  PROVE  PlaceInv'
<1>1. tasks[t].pc = "row" /\ ~Idle(t) /\ UNCHANGED <<churn, pending, dbVol, owner, lost>>
  BY DEF EnrollRow, At, Idle, memVars, auxVars
<1>0. /\ TypeInv /\ TypeOK /\ QueuedOnce /\ tasks \in [Slots -> Task] /\ tasks[t] \in Task
      /\ EnrollLedger(tasks[t]) /\ \A s \in Services : TaskPlace(t, s)
  BY <1>1, PlaceNow DEF TypeInv
<1>2. PICK i, r : i = tasks[t].id /\ r = tasks[t].svc
  OBVIOUS
<1>3. /\ tasks'[t].pc = "save" /\ tasks'[t].id = i /\ tasks'[t].svc = r
      /\ tasks'[t].queued = tasks[t].queued
      /\ \A u \in Slots \ {t} : tasks'[u] = tasks[u]
      /\ dbAsg' = Put(dbAsg, i, r)
  BY <1>0, <1>2, GotoEffect DEF EnrollRow
<1>4. \A s : Carries(tasks[t], s)' <=> Carries(tasks[t], s)
  BY <1>1, <1>2, <1>3 DEF Carries, CarryPC, RegisterPC
<1>5. CASE ~tasks[t].queued
  <2>1. i \in DOMAIN dbAsg /\ dbAsg[i] = r
    BY <1>0, <1>1, <1>2, <1>5 DEF EnrollLedger
  <2>2. \A s : Rows(s)' = Rows(s)
    BY <1>1, <1>3, <2>1 DEF Rows, Put
  <2> QED
    BY <1>1, <1>2, <1>3, <1>4, <2>2, QuietPlace
<1>6. CASE tasks[t].queued
  <2>1. i \notin DOMAIN dbAsg /\ Carries(tasks[t], r)
    BY <1>0, <1>1, <1>2, <1>6 DEF EnrollLedger, Carries, CarryPC
  <2>2. /\ \A s : s # r => Rows(s)' = Rows(s)
        /\ Rows(r)' \subseteq Rows(r) \cup {i} /\ Rows(r) \subseteq Rows(r)'
    BY <1>1, <1>3, <2>1, RowsPut
  <2>3. ASSUME NEW s \in Services
        PROVE  TaskPlace(t, s)'
    <3>1. InQueue(s)' <=> InQueue(s)
      BY <1>1, SameQueue
    <3>2. CASE s # r
      BY <1>0, <1>1, <1>2, <1>3, <1>4, <2>2, <3>1, <3>2, SamePlace
    <3>3. CASE s = r
      <4>1. TaskPlace(t, r)
        BY <1>0, <3>3
      <4> QED
        BY <1>1, <1>2, <1>3, <1>4, <2>1, <2>2, <3>1, <3>3, <4>1 DEF TaskPlace
    <3> QED
      BY <3>2, <3>3
  <2> QED
    BY <1>0, <1>1, <1>3, <2>3, RunsAlone, PlaceTask, SameQueue
<1> QED
  BY <1>5, <1>6

\* The volunteer's row makes the service's row count.
LEMMA EnrollSavePlace ==
  ASSUME LedgerInv, PlaceInv, NEW t \in Slots, EnrollSave(t)
  PROVE  PlaceInv'
<1>1. tasks[t].pc = "save" /\ ~Idle(t) /\ UNCHANGED <<churn, pending, dbAsg, owner, lost>>
  BY DEF EnrollSave, At, Idle, memVars, auxVars
<1>0. /\ TypeInv /\ TypeOK /\ QueuedOnce /\ tasks \in [Slots -> Task] /\ tasks[t] \in Task
      /\ EnrollLedger(tasks[t]) /\ \A s \in Services : TaskPlace(t, s)
      /\ None \notin Services
  BY <1>1, PlaceNow DEF TypeInv
<1>2. PICK i, r : i = tasks[t].id /\ r = tasks[t].svc
  OBVIOUS
<1>3. /\ tasks'[t].pc = "insert" /\ tasks'[t].id = i /\ tasks'[t].svc = r
      /\ tasks'[t].queued = tasks[t].queued
      /\ \A u \in Slots \ {t} : tasks'[u] = tasks[u]
      /\ DOMAIN dbVol' = DOMAIN dbVol \cup {i}
  BY <1>0, <1>2, GotoEffect DEF EnrollSave, Put
<1>4. \A s : Carries(tasks[t], s)' <=> Carries(tasks[t], s)
  BY <1>1, <1>2, <1>3 DEF Carries, CarryPC, RegisterPC
<1>5. ASSUME NEW s \in Services
      PROVE  TaskPlace(t, s)'
  <2>1. InQueue(s)' <=> InQueue(s)
    BY <1>1, SameQueue
  <2>2. CASE i \in DOMAIN dbVol \/ i \notin DOMAIN dbAsg \/ dbAsg[i] # s
    <3>1. Rows(s)' = Rows(s)
      BY <1>1, <1>3, <2>2 DEF Rows
    <3> QED
      BY <1>0, <1>1, <1>2, <1>3, <1>4, <2>1, <3>1, SamePlace
  <2>3. CASE i \notin DOMAIN dbVol /\ i \in DOMAIN dbAsg /\ dbAsg[i] = s
    <3>1. r = s /\ Carries(tasks[t], s)
      BY <1>0, <1>1, <1>2, <2>3 DEF EnrollLedger, Asg, Carries, CarryPC
    <3>2. Rows(s)' \subseteq Rows(s) \cup {i} /\ i \in Rows(s)'
      BY <1>1, <1>3, <2>3 DEF Rows
    <3>3. TaskPlace(t, s)
      BY <1>0
    <3> QED
      BY <1>1, <1>2, <1>3, <1>4, <2>1, <3>1, <3>2, <3>3 DEF TaskPlace
  <2> QED
    BY <2>2, <2>3
<1> QED
  BY <1>0, <1>1, <1>3, <1>5, RunsAlone, PlaceTask, SameQueue

\* The other steps of an enrollment: the call to HAProxy, push_front after it
\* has failed, the insertion into the map.
LEMMA StorePlace ==
  ASSUME LedgerInv, PlaceInv, NEW t \in Slots,
         \/ EnrollCfg(t) \/ EnrollPrimary(t) \/ EnrollPushFront(t)
         \/ EnrollInsert(t) \/ EnrollUpsert(t)
  PROVE  PlaceInv'
<1>1. ~Idle(t) /\ UNCHANGED <<churn, dbVars, owner, lost>>
  BY DEF EnrollCfg, EnrollPrimary, EnrollPushFront, EnrollInsert, EnrollUpsert, At, Idle,
     auxVars
<1>0. /\ TypeInv /\ TypeOK /\ QueuedOnce /\ tasks \in [Slots -> Task] /\ tasks[t] \in Task
      /\ EnrollLedger(tasks[t]) /\ (\A s \in Services : TaskPlace(t, s))
      /\ None \notin Services /\ TaskOK(tasks[t]) /\ pending \in Seq(Services)
  BY <1>1, PlaceNow DEF TypeInv
<1>2. CASE EnrollCfg(t) \/ EnrollPrimary(t)
  <2>1. PICK l \in {"primary", "row", "push_front"} : Goto(t, l)
    BY <1>2 DEF EnrollCfg, EnrollPrimary, AssignFailed
  <2>2. /\ tasks'[t].pc = l /\ tasks'[t].id = tasks[t].id /\ tasks'[t].svc = tasks[t].svc
        /\ tasks'[t].queued = tasks[t].queued
        /\ \A u \in Slots \ {t} : tasks'[u] = tasks[u]
    BY <1>0, <2>1, GotoEffect
  <2>3. tasks[t].pc \in {"cfg", "primary"} /\ UNCHANGED pending
    BY <1>2 DEF EnrollCfg, EnrollPrimary, At, memVars
  <2>4. \A s : Carries(tasks[t], s)' <=> Carries(tasks[t], s)
    BY <2>2, <2>3 DEF Carries, CarryPC, RegisterPC
  <2> QED
    BY <1>1, <2>2, <2>3, <2>4, SameRows, QuietPlace
<1>3. CASE EnrollPushFront(t)
  <2>1. PICK r : r = tasks[t].svc
    OBVIOUS
  <2>2. /\ tasks[t].pc = "push_front" /\ pending' = <<r>> \o pending
        /\ tasks'[t].pc = "save" /\ tasks'[t].svc = None
        /\ \A u \in Slots \ {t} : tasks'[u] = tasks[u]
    BY <1>0, <1>3, <2>1 DEF EnrollPushFront, At, Task
  <2>3. r \in Services /\ tasks[t].queued /\ tasks[t].id \notin DOMAIN dbAsg
    BY <1>0, <2>1, <2>2 DEF TaskOK, EnrollLedger
  <2>4. Carries(tasks[t], r)
    BY <2>1, <2>2, <2>3 DEF Carries, CarryPC
  <2>5. ~InQueue(r) /\ Rows(r) = {}
    BY <1>0, <2>3, <2>4 DEF TaskPlace, Rows
  <2>6. QueuedOnce' /\ InQueue(r)' /\ \A s : s # r => (InQueue(s) <=> InQueue(s)')
    BY <1>0, <2>2, <2>3, <2>5, PushFrontQueue
  <2>7. ASSUME NEW s \in Services
        PROVE  TaskPlace(t, s)'
    <3>1. Rows(s)' = Rows(s) /\ ~Carries(tasks[t], s)'
      BY <1>0, <1>1, <2>2, SameRows DEF Carries
    <3>2. CASE s # r
      <4>1. ~Carries(tasks[t], s)
        BY <2>1, <3>2 DEF Carries
      <4> QED
        BY <1>0, <1>1, <2>6, <3>1, <3>2, <4>1, SamePlace
    <3>3. CASE s = r
      BY <1>0, <1>1, <2>4, <2>5, <2>6, <3>1, <3>3 DEF TaskPlace
    <3> QED
      BY <3>2, <3>3
  <2> QED
    BY <1>1, <2>2, <2>6, <2>7, RunsAlone, PlaceTask
<1>4. CASE EnrollInsert(t)
  <2>1. /\ tasks[t].pc = "insert" /\ UNCHANGED pending /\ tasks'[t].pc = "upsert"
        /\ \A u \in Slots \ {t} : tasks'[u] = tasks[u]
    BY <1>0, <1>4, GotoEffect DEF EnrollInsert, At
  <2>2. ASSUME NEW s \in Services
        PROVE  TaskPlace(t, s)'
    <3>1. /\ Rows(s)' = Rows(s) /\ ~Carries(tasks[t], s)'
          /\ InQueue(s)' <=> InQueue(s)
      BY <1>1, <2>1, SameRows, SameQueue DEF Carries, RegisterPC, CarryPC
    <3>2. Carries(tasks[t], s) => tasks[t].id \in Rows(s)
      BY <1>0, <2>1 DEF Carries, EnrollLedger, Asg, Rows
    <3>3. TaskPlace(t, s)
      BY <1>0
    <3> QED
      BY <1>1, <3>1, <3>2, <3>3 DEF TaskPlace
  <2> QED
    BY <1>0, <1>1, <2>1, <2>2, RunsAlone, PlaceTask, SameQueue
<1>5. CASE EnrollUpsert(t)
  <2>1. /\ tasks[t].pc = "upsert" /\ UNCHANGED pending /\ tasks'[t].pc = "idle"
        /\ \A u \in Slots \ {t} : tasks'[u] = tasks[u]
    BY <1>0, <1>5, FinishEffect DEF EnrollUpsert, At, memVars
  <2>2. \A s : ~Carries(tasks[t], s)' /\ ~Carries(tasks[t], s)
    BY <2>1 DEF Carries, RegisterPC, CarryPC
  <2> QED
    BY <1>1, <2>1, <2>2, SameRows, QuietPlace
<1> QED
  BY <1>2, <1>3, <1>4, <1>5

\* A service on its way from its owner to a volunteer or to the queue.
LEMMA RegisterPlace ==
  ASSUME LedgerInv, PlaceInv, NEW t \in Slots, RegisterStep(t)
  PROVE  PlaceInv'
<1>1. /\ ~Idle(t) /\ UNCHANGED <<churn, dbVol, lost>> /\ tasks[t].pc \in RegisterPC
  BY DEF RegisterStep, RegisterCfg, RegisterPrimary, RegisterRow, RegisterSet,
     RegisterQueue, At, Idle, RegisterPC, auxVars, dbVars
<1>0. /\ TypeInv /\ TypeOK /\ QueuedOnce /\ tasks \in [Slots -> Task] /\ tasks[t] \in Task
      /\ VolunteerLedger(tasks[t]) /\ (\A s \in Services : TaskPlace(t, s))
      /\ None \notin Services /\ TaskOK(tasks[t]) /\ pending \in Seq(Services)
      /\ owner \in [Services -> {"new", "sent", "accepted"}]
  BY <1>1, PlaceNow DEF TypeInv, TypeOK
<1>2. PICK i, r : i = tasks[t].id /\ r = tasks[t].svc
  OBVIOUS
<1>3. /\ r \in Services /\ Carries(tasks[t], r)
      /\ \A s : s # r => ~Carries(tasks[t], s)
  BY <1>0, <1>1, <1>2 DEF TaskOK, Carries
<1>4. ~InQueue(r) /\ Rows(r) \subseteq {i}
  BY <1>0, <1>2, <1>3 DEF TaskPlace
\* Before its row is written the service has none.
<1>5. tasks[t].pc \in {"reg_cfg", "reg_primary", "reg_row"} =>
        i \notin DOMAIN dbAsg /\ i \in DOMAIN dbVol
  <2> SUFFICES ASSUME tasks[t].pc \in {"reg_cfg", "reg_primary", "reg_row"}
               PROVE  i \notin DOMAIN dbAsg /\ i \in DOMAIN dbVol
    OBVIOUS
  <2>1. i \in Ids /\ i \in DOMAIN volunteers /\ volunteers[i].svc = None
    BY <1>0, <1>2 DEF VolunteerLedger, TaskOK
  <2>2. Mirrored(i)
    BY <1>1, <2>1, RunsAlone DEF UnsettledPC
  <2>3. i \in DOMAIN dbAsg => dbAsg[i] \in Services
    BY <1>0, MapElim DEF TypeOK
  <2> QED
    BY <1>0, <2>1, <2>2, <2>3 DEF Mirrored, Asg
<1>6. CASE RegisterCfg(t) \/ RegisterPrimary(t)
  <2>1. tasks[t].pc \in {"reg_cfg", "reg_primary"} /\ UNCHANGED <<pending, dbVars>>
    BY <1>6 DEF RegisterCfg, RegisterPrimary, At, memVars
  <2>2. CASE UNCHANGED owner /\ \E l \in {"reg_primary", "reg_row"} : Goto(t, l)
    <3>1. PICK l \in {"reg_primary", "reg_row"} : Goto(t, l)
      BY <2>2
    <3>2. /\ tasks'[t].pc = l /\ tasks'[t].id = tasks[t].id /\ tasks'[t].svc = tasks[t].svc
          /\ tasks'[t].queued = tasks[t].queued
          /\ \A u \in Slots \ {t} : tasks'[u] = tasks[u]
      BY <1>0, <3>1, GotoEffect
    <3>3. \A s : Carries(tasks[t], s)' <=> Carries(tasks[t], s)
      BY <2>1, <3>2 DEF Carries, RegisterPC
    <3> QED
      BY <1>1, <2>1, <2>2, <3>2, <3>3, SameRows, QuietPlace
  <2>3. CASE Refused(t)
    <3>1. /\ tasks'[t].pc = "idle" /\ \A u \in Slots \ {t} : tasks'[u] = tasks[u]
      BY <1>0, <2>3, FinishEffect DEF Refused
    <3>2. owner'[r] = "new" /\ \A s \in Services : s # r => owner'[s] = owner[s]
      BY <1>0, <1>2, <1>3, <2>3 DEF Refused
    <3>3. Rows(r) = {}
      BY <1>4, <1>5, <2>1 DEF Rows
    <3>4. ASSUME NEW s \in Services
          PROVE  TaskPlace(t, s)'
      <4>1. /\ Rows(s)' = Rows(s) /\ ~Carries(tasks[t], s)'
            /\ InQueue(s)' <=> InQueue(s)
        BY <2>1, <3>1, SameRows, SameQueue, IdleCarries
      <4>2. CASE s # r
        BY <1>0, <1>1, <1>3, <3>2, <4>1, <4>2, SamePlace
      <4>3. CASE s = r
        BY <1>4, <3>2, <3>3, <4>1, <4>3 DEF TaskPlace
      <4> QED
        BY <4>2, <4>3
    <3> QED
      BY <1>0, <1>1, <2>1, <3>1, <3>4, RunsAlone, PlaceTask, SameQueue
  <2> QED
    BY <1>6, <2>2, <2>3 DEF RegisterCfg, RegisterPrimary
<1>7. CASE RegisterRow(t)
  <2>1. /\ tasks[t].pc = "reg_row" /\ UNCHANGED <<pending, owner>>
        /\ tasks'[t].pc = "reg_set" /\ tasks'[t].id = i /\ tasks'[t].svc = r
        /\ \A u \in Slots \ {t} : tasks'[u] = tasks[u]
        /\ dbAsg' = Put(dbAsg, i, r)
    BY <1>0, <1>2, <1>7, GotoEffect DEF RegisterRow, At, memVars, auxVars
  <2>2. /\ \A s : s # r => Rows(s)' = Rows(s)
        /\ Rows(r)' \subseteq Rows(r) \cup {i} /\ i \in Rows(r)'
    BY <1>1, <1>5, <2>1, RowsPut
  <2>3. \A s : Carries(tasks[t], s)' <=> Carries(tasks[t], s)
    BY <1>2, <2>1 DEF Carries, RegisterPC
  <2>4. ASSUME NEW s \in Services
        PROVE  TaskPlace(t, s)'
    <3>1. InQueue(s)' <=> InQueue(s)
      BY <2>1, SameQueue
    <3>2. CASE s # r
      BY <1>0, <1>1, <1>3, <2>1, <2>2, <2>3, <3>1, <3>2, SamePlace
    <3>3. CASE s = r
      <4>1. owner[r] # "new"
        BY <1>0, <1>3 DEF TaskPlace
      <4> QED
        BY <1>3, <1>4, <2>1, <2>2, <2>3, <3>1, <3>3, <4>1 DEF TaskPlace
    <3> QED
      BY <3>2, <3>3
  <2> QED
    BY <1>0, <1>1, <2>1, <2>4, RunsAlone, PlaceTask, SameQueue
<1>8. CASE RegisterSet(t)
  <2>1. /\ tasks[t].pc = "reg_set" /\ UNCHANGED <<pending, dbVars>>
        /\ tasks'[t].pc = "idle" /\ \A u \in Slots \ {t} : tasks'[u] = tasks[u]
    BY <1>0, <1>8, FinishEffect DEF RegisterSet, At
  <2>2. owner'[r] = "accepted" /\ \A s \in Services : s # r => owner'[s] = owner[s]
    BY <1>0, <1>2, <1>3, <1>8 DEF RegisterSet, Created
  <2>3. i \in Rows(r)
    BY <1>0, <1>2, <1>3, <2>1 DEF VolunteerLedger, Asg, Rows
  <2>4. ASSUME NEW s \in Services
        PROVE  TaskPlace(t, s)'
    <3>1. /\ Rows(s)' = Rows(s) /\ ~Carries(tasks[t], s)'
          /\ InQueue(s)' <=> InQueue(s)
      BY <2>1, SameRows, SameQueue, IdleCarries
    <3>2. CASE s # r
      BY <1>0, <1>1, <1>3, <2>2, <3>1, <3>2, SamePlace
    <3>3. CASE s = r
      BY <1>4, <2>2, <2>3, <3>1, <3>3 DEF TaskPlace
    <3> QED
      BY <3>2, <3>3
  <2> QED
    BY <1>0, <1>1, <2>1, <2>4, RunsAlone, PlaceTask, SameQueue
<1>9. CASE RegisterQueue(t)
  <2>1. /\ tasks[t].pc = "reg_queue" /\ UNCHANGED dbVars /\ pending' = Append(pending, r)
        /\ tasks'[t].pc = "idle" /\ \A u \in Slots \ {t} : tasks'[u] = tasks[u]
    BY <1>0, <1>2, <1>9, FinishEffect DEF RegisterQueue, At
  <2>2. owner'[r] = "accepted" /\ \A s \in Services : s # r => owner'[s] = owner[s]
    BY <1>0, <1>2, <1>3, <1>9 DEF RegisterQueue, Created
  <2>3. Rows(r) = {}
    BY <1>0, <1>2, <1>4, <2>1, RowsAreIds DEF VolunteerLedger
  <2>4. QueuedOnce' /\ InQueue(r)' /\ \A s : s # r => (InQueue(s) <=> InQueue(s)')
    BY <1>0, <1>3, <1>4, <2>1, PushBackQueue
  <2>5. ASSUME NEW s \in Services
        PROVE  TaskPlace(t, s)'
    <3>1. Rows(s)' = Rows(s) /\ ~Carries(tasks[t], s)'
      BY <2>1, SameRows, IdleCarries
    <3>2. CASE s # r
      BY <1>0, <1>1, <1>3, <2>2, <2>4, <3>1, <3>2, SamePlace
    <3>3. CASE s = r
      BY <1>4, <2>2, <2>3, <2>4, <3>1, <3>3 DEF TaskPlace
    <3> QED
      BY <3>2, <3>3
  <2> QED
    BY <1>1, <2>1, <2>4, <2>5, RunsAlone, PlaceTask
<1> QED
  BY <1>6, <1>7, <1>8, <1>9 DEF RegisterStep

\* Heartbeats and new ports move no service; a disconnect drops the row of one
\* that is already counted as lost.
LEMMA UpkeepPlace ==
  ASSUME LedgerInv, PlaceInv, NEW t \in Slots,
         HeartbeatStep(t) \/ PortStep(t) \/ DisconnectStep(t)
  PROVE  PlaceInv'
<1> DEFINE pcs == HeartbeatPC \cup PortPC \cup DisconnectPC
<1>1. ~Idle(t) /\ UNCHANGED <<churn, pending, dbAsg, owner, lost>> /\ tasks[t].pc \in pcs
  BY DEF HeartbeatStep, HeartbeatSave, HeartbeatWeight, HeartbeatAdd, PortStep, PortSave,
     PortAddr, DisconnectStep, DisconnectRow, DisconnectServer, At, Idle, HeartbeatPC,
     PortPC, DisconnectPC, memVars, dbVars, auxVars
<1>0. /\ TypeInv /\ TypeOK /\ QueuedOnce /\ tasks \in [Slots -> Task] /\ tasks[t] \in Task
      /\ VolunteerLedger(tasks[t]) /\ (\A s \in Services : TaskPlace(t, s))
      /\ TaskOK(tasks[t])
  BY <1>1, PlaceNow DEF TypeInv, TypeOK
<1>2. PICK i : i = tasks[t].id
  OBVIOUS
<1>3. /\ Finish(t) \/ \E l \in {"hb_weight", "hb_add", "port_addr", "dis_server"} : Goto(t, l)
  BY DEF HeartbeatStep, HeartbeatSave, HeartbeatWeight, HeartbeatAdd, PortStep, PortSave,
     PortAddr, DisconnectStep, DisconnectRow, DisconnectServer
<1>4. /\ tasks'[t].pc \in {"idle", "hb_weight", "hb_add", "port_addr", "dis_server"}
      /\ \A u \in Slots \ {t} : tasks'[u] = tasks[u]
  BY <1>0, <1>3, FinishEffect, GotoEffect
<1>5. \A s : ~Carries(tasks[t], s) /\ ~Carries(tasks[t], s)'
  BY <1>1, <1>4 DEF Carries, RegisterPC, CarryPC, HeartbeatPC, PortPC, DisconnectPC
<1>6. CASE DisconnectRow(t)
  <2>1. tasks[t].pc = "dis_row" /\ DOMAIN dbVol' = DOMAIN dbVol \ {i}
    BY <1>2, <1>6 DEF DisconnectRow, At, Drop
  <2>2. ASSUME NEW s \in Services
        PROVE  TaskPlace(t, s)'
    <3>1. Rows(s)' = Rows(s) \ {i} /\ (InQueue(s)' <=> InQueue(s))
      BY <1>1, <2>1, SameQueue DEF Rows
    <3>2. i \in Rows(s) => s \in lost
      BY <1>2, <2>1 DEF PlaceInv, Rows
    <3>3. TaskPlace(t, s)
      BY <1>0
    <3> QED
      BY <1>1, <1>5, <3>1, <3>2, <3>3 DEF TaskPlace
  <2> QED
    BY <1>0, <1>1, <1>4, <2>2, RunsAlone, PlaceTask, SameQueue
<1>7. CASE ~DisconnectRow(t)
  <2>1. DOMAIN dbVol' = DOMAIN dbVol
    <3>1. CASE HeartbeatSave(t) \/ PortSave(t)
      <4>1. tasks[t].pc \in {"hb_save", "port_save"} /\ dbVol' = Put(dbVol, i, RowOf(t))
        BY <1>2, <3>1 DEF HeartbeatSave, PortSave, At
      <4>2. i \in Ids /\ i \in DOMAIN volunteers
        BY <1>0, <1>2, <4>1 DEF VolunteerLedger, TaskOK
      <4>3. tasks[t].pc = "hb_save" => Mirrored(i)
        BY <1>1, <4>2, RunsAlone DEF UnsettledPC
      <4>4. i \in DOMAIN dbVol
        BY <1>0, <1>2, <4>1, <4>2, <4>3 DEF VolunteerLedger, Mirrored
      <4> QED
        BY <4>1, <4>4 DEF Put
    <3>2. CASE ~(HeartbeatSave(t) \/ PortSave(t))
      BY <1>7, <3>2 DEF HeartbeatStep, HeartbeatWeight, HeartbeatAdd, PortStep, PortAddr,
         DisconnectStep, DisconnectServer, dbVars
    <3> QED
      BY <3>1, <3>2
  <2>2. \A s : Rows(s)' = Rows(s)
    BY <1>1, <2>1 DEF Rows
  <2> QED
    BY <1>1, <1>4, <1>5, <2>2, QuietPlace
<1> QED
  BY <1>6, <1>7

\* A request arrives at rest: a registration takes a service that is nowhere,
\* a disconnect counts its volunteer's service as lost.
LEMMA ArrivalPlace ==
  ASSUME OneAtATime, LedgerInv, PlaceInv, NEW t \in Slots, Arrival(t)
  PROVE  PlaceInv'
<1>1. /\ \A u \in Slots : Idle(u) /\ tasks[u].pc = "idle"
      /\ churn.pc = "tick" /\ boot.pc = "serve"
      /\ UNCHANGED <<dbVars, churn, pending>>
  <2>1. Quiet /\ boot.pc = "serve" /\ UNCHANGED <<dbVars, churn, pending>>
    BY DEF Arrival, EnrollStart, RegisterStart, HeartbeatStart, PortStart, DisconnectStart,
       MayStart, OneAtATime, memVars
  <2> QED
    BY <2>1 DEF Quiet, Idle
<1>0. /\ TypeInv /\ TypeOK /\ QueuedOnce
      /\ \A s \in Services : TaskPlace(t, s) /\ ~Carries(tasks[t], s)
      /\ owner \in [Services -> {"new", "sent", "accepted"}]
  <2>1. \A s \in Services : TaskPlace(t, s)
    BY <1>1, PlaceOfTask DEF PlaceInv
  <2> QED
    BY <1>1, <2>1, IdleCarries DEF LedgerInv, TraceInv, TypeInv, TypeOK, PlaceInv
<1>2. ASSUME NEW k, Begin(t, k), UNCHANGED owner, lost \subseteq lost',
             \A s : ~Carries(k, s), k.pc # "dis_row"
      PROVE  PlaceInv'
  <2>1. tasks'[t] = k /\ \A u \in Slots \ {t} : tasks'[u] = tasks[u]
    BY <1>0, <1>2, BeginEffect
  <2>2. \A s : ~Carries(tasks[t], s)'
    BY <1>2, <2>1 DEF Carries
  <2>3. \A s \in Services : TaskPlace(t, s)'
    BY <1>0, <1>1, <1>2, <2>2, SamePlace, SameRows, SameQueue
  <2> QED
    BY <1>0, <1>1, <1>2, <2>1, <2>3, PlaceTask, SameQueue
<1>3. ASSUME NEW n \in Hosts, NEW a \in Addrs, EnrollStart(t, n, a)
      PROVE  PlaceInv'
  <2>1. PICK l, i :
          l \in {"pop", "asg_mem", "find_db"} /\ Begin(t, Handler(l, n, i, None, a))
    BY <1>3 DEF EnrollStart
  <2> DEFINE k == Handler(l, n, i, None, a)
  <2>2. k.pc # "dis_row" /\ \A s : ~Carries(k, s)
    BY <2>1 DEF Handler, Carries, RegisterPC, CarryPC
  <2> HIDE DEF k
  <2> QED
    BY <1>2, <1>3, <2>1, <2>2 DEF EnrollStart, k
<1>4. ASSUME NEW r \in Services, RegisterStart(t, r)
      PROVE  PlaceInv'
  <2>1. PICK l, i, a :
          l \in {"reg_cfg", "reg_queue"} /\ Begin(t, Handler(l, None, i, r, a))
    BY <1>4 DEF RegisterStart
  <2>2. /\ tasks'[t].pc = l /\ tasks'[t].svc = r
        /\ \A u \in Slots \ {t} : tasks'[u] = tasks[u]
    BY <1>0, <2>1, BeginEffect DEF Handler
  <2>3. /\ owner[r] = "new" /\ owner'[r] = "sent" /\ UNCHANGED lost
        /\ \A s \in Services : s # r => owner'[s] = owner[s]
    BY <1>0, <1>4 DEF RegisterStart
  <2>4. \A s : Carries(tasks[t], s)' => s = r
    BY <2>2 DEF Carries
  <2>5. ASSUME NEW s \in Services
        PROVE  TaskPlace(t, s)'
    <3>1. Rows(s)' = Rows(s) /\ (InQueue(s)' <=> InQueue(s))
      BY <1>1, SameRows, SameQueue
    <3>2. CASE s # r
      BY <1>0, <2>3, <2>4, <3>1, <3>2, SamePlace
    <3>3. CASE s = r
      <4>1. TaskPlace(t, s)
        BY <1>0
      <4> QED
        BY <2>3, <3>1, <3>3, <4>1 DEF TaskPlace
    <3> QED
      BY <3>2, <3>3
  <2> QED
    BY <1>0, <1>1, <2>1, <2>2, <2>5, PlaceTask, SameQueue
<1>5. ASSUME NEW i \in Ids, HeartbeatStart(t, i) \/ \E a \in Addrs : PortStart(t, i, a)
      PROVE  PlaceInv'
  <2>1. PICK l, n, s, a :
          l \in {"hb_save", "port_save"} /\ Begin(t, Handler(l, n, i, s, a))
    BY <1>5 DEF HeartbeatStart, PortStart
  <2> DEFINE k == Handler(l, n, i, s, a)
  <2>2. k.pc # "dis_row" /\ \A x : ~Carries(k, x)
    BY <2>1 DEF Handler, Carries, RegisterPC, CarryPC
  <2>3. UNCHANGED <<owner, lost>>
    BY <1>5 DEF HeartbeatStart, PortStart, auxVars
  <2> HIDE DEF k
  <2> QED
    BY <1>2, <2>1, <2>2, <2>3 DEF k
<1>6. ASSUME NEW i \in Ids, DisconnectStart(t, i)
      PROVE  PlaceInv'
  <2>1. /\ i \in DOMAIN volunteers /\ UNCHANGED owner
        /\ lost' = lost \cup ({volunteers[i].svc} \ {None})
        /\ tasks'[t].pc = "dis_row" /\ tasks'[t].id = i
        /\ \A u \in Slots \ {t} : tasks'[u] = tasks[u]
    BY <1>0, <1>6, BeginEffect DEF DisconnectStart, Handler
  <2>2. \A s : ~Carries(tasks[t], s)'
    BY <2>1 DEF Carries, RegisterPC, CarryPC
  <2>3. \A s \in Services : TaskPlace(t, s)'
    BY <1>0, <1>1, <2>1, <2>2, SamePlace, SameRows, SameQueue
  <2>4. \A s \in Services : OnePlace(s)'
    BY <1>1, <2>1, <2>3, PlaceOfTaskNext
  <2>5. i \in DOMAIN dbAsg => dbAsg[i] \in lost'
    <3>1. Mirrored(i)
      BY <1>1 DEF LedgerInv, Unsettled, UnsettledPC
    <3>2. i \in DOMAIN dbAsg => dbAsg[i] \in Services /\ dbAsg[i] = volunteers[i].svc
      BY <1>0, <2>1, <3>1, MapElim DEF TypeOK, Mirrored, Asg
    <3> QED
      BY <2>1, <3>2, ConstantsAssumption
  <2>6. \A u \in Slots : tasks'[u].pc = "dis_row" => tasks'[u].id = i
    BY <1>1, <2>1
  <2> QED
    BY <1>0, <1>1, <2>4, <2>5, <2>6, SameQueue DEF PlaceInv, dbVars
<1> QED
  BY <1>3, <1>4, <1>5, <1>6 DEF Arrival

-----------------------------------------------------------------------------
(* The place of a service while the churn monitor runs.                    *)

\* OnePlace when no handler runs.
ChurnPlace(s) ==
  /\ \A i, j \in Rows(s) : i = j
  /\ InQueue(s) => Rows(s) = {}
  /\ Evicting(s) => ~InQueue(s) /\ Rows(s) \subseteq {churn.id}
  /\ owner[s] = "new" => ~InQueue(s) /\ Rows(s) = {} /\ ~Evicting(s)
  /\ owner[s] = "accepted" => s \in lost \/ InQueue(s) \/ Rows(s) # {} \/ Evicting(s)

LEMMA PlaceOfChurn ==
  ASSUME \A u \in Slots : tasks[u].pc = "idle"
  PROVE  \A s : OnePlace(s) <=> ChurnPlace(s)
BY IdleCarries DEF OnePlace, ChurnPlace, Nowhere

LEMMA PlaceOfChurnNext ==
  ASSUME \A u \in Slots : tasks'[u].pc = "idle"
  PROVE  \A s : OnePlace(s)' <=> ChurnPlace(s)'
<1>1. \A s, u : u \in Slots => ~Carries(tasks[u], s)'
  BY IdleCarries
<1> QED
  BY <1>1 DEF OnePlace, ChurnPlace, Nowhere

LEMMA ChurnStepPlace ==
  ASSUME OneAtATime, LedgerInv, PlaceInv, ChurnStep
  PROVE  PlaceInv'
<1>1. UNCHANGED <<tasks, boot, owner, lost>> /\ \A u \in Slots : tasks[u].pc = "idle"
  <2>1. UNCHANGED <<tasks, boot, owner, lost>>
    BY DEF ChurnStep, ChurnScan, ChurnEvict, ChurnRow, ChurnServer, ChurnUnassign,
       ChurnRequeue, auxVars
  <2>2. churn.pc # "tick" \/ Quiet
    BY DEF ChurnStep, ChurnScan, ChurnEvict, ChurnRow, ChurnServer, ChurnUnassign,
       ChurnRequeue, OneAtATime
  <2> QED
    BY <2>1, <2>2 DEF Quiet, LedgerInv, Alone, Idle
<1>0. /\ TypeInv /\ TypeOK /\ ChurnLedger /\ churn \in ChurnState /\ QueuedOnce
      /\ pending \in Seq(Services) /\ (\A s \in Services : ChurnPlace(s))
      /\ None \notin Services /\ None \notin Ids
  BY <1>1, PlaceOfChurn, ConstantsAssumption DEF LedgerInv, TraceInv, TypeInv, TypeOK, PlaceInv
<1>2. ASSUME QueuedOnce', \A s \in Services : ChurnPlace(s)'
      PROVE  PlaceInv'
  BY <1>1, <1>2, PlaceOfChurnNext DEF PlaceInv
\* Nothing but the churn monitor's own record changes.
<1>3. ASSUME NEW s \in Services, UNCHANGED pending, Rows(s)' = Rows(s),
             Evicting(s)' <=> Evicting(s), Evicting(s) => churn'.id = churn.id
      PROVE  ChurnPlace(s)'
  BY <1>0, <1>1, <1>3, SameQueue DEF ChurnPlace
<1>4. \A j \in Ids : Mirrored(j) \/ (churn.pc = "row" /\ churn.id = j)
  <2>1. boot.pc \notin {"prune", "load"}
    <3>1. boot.pc # "serve" => churn.pc = "tick"
      BY <1>0 DEF TypeInv, BootOK, IdleChurn
    <3> QED
      BY <3>1 DEF ChurnStep, ChurnScan, ChurnEvict, ChurnRow, ChurnServer, ChurnUnassign,
         ChurnRequeue
  <2> QED
    BY <1>1, <2>1 DEF LedgerInv, Unsettled, UnsettledPC
<1>5. CASE ChurnScan
  <2>1. UNCHANGED <<pending, dbVars>> /\ churn.pc = "tick" /\ churn'.pc = "evict"
    BY <1>5 DEF ChurnScan, memVars
  <2>2. \A s : ~Evicting(s) /\ ~Evicting(s)'
    BY <2>1 DEF Evicting, EvictPC
  <2> QED
    BY <1>0, <1>2, <1>3, <2>1, <2>2, SameRows, SameQueue
<1>6. ASSUME NEW i \in Ids, ChurnEvict(i)
      PROVE  PlaceInv'
  <2>1. /\ churn'.pc = "row" /\ churn'.dead = churn.dead /\ churn'.id = i
        /\ UNCHANGED <<pending, dbVars>> /\ churn.pc = "evict" /\ i \in DOMAIN churn.dead
    BY <1>0, <1>6 DEF ChurnEvict, ChurnState
  <2>2. /\ \A s : ~Evicting(s)
        /\ \A s : Evicting(s)' <=> churn.dead[i] = s
    BY <2>1 DEF Evicting, EvictPC
  <2>3. i \in DOMAIN volunteers /\ churn.dead[i] = volunteers[i].svc
    BY <1>0, <2>1 DEF ChurnLedger
  <2>4. i \in DOMAIN dbVol /\ churn.dead[i] = Asg(i)
    BY <1>4, <2>1, <2>3 DEF Mirrored
  <2>5. ASSUME NEW s \in Services
        PROVE  ChurnPlace(s)'
    <3>1. Rows(s)' = Rows(s) /\ (InQueue(s)' <=> InQueue(s))
      BY <2>1, SameRows, SameQueue
    <3>2. CASE churn.dead[i] # s
      BY <1>3, <2>1, <2>2, <3>1, <3>2
    <3>3. CASE churn.dead[i] = s
      <4>1. i \in Rows(s)
        BY <1>0, <2>4, <3>3 DEF Asg, Rows
      <4>2. ChurnPlace(s)
        BY <1>0
      <4> QED
        BY <1>1, <2>1, <2>2, <3>1, <3>3, <4>1, <4>2 DEF ChurnPlace
    <3> QED
      BY <3>2, <3>3
  <2> QED
    BY <1>0, <1>2, <2>1, <2>5, SameQueue
<1>7. CASE ChurnRow
  <2>0. PICK i : i = churn.id
    OBVIOUS
  <2>1. /\ churn'.pc = "server" /\ churn'.dead = churn.dead /\ churn'.id = churn.id
        /\ DOMAIN dbVol' = DOMAIN dbVol \ {i} /\ UNCHANGED <<pending, dbAsg>>
        /\ churn.pc = "row"
    BY <1>0, <1>7, <2>0 DEF ChurnRow, ChurnState, memVars, Drop
  <2>2. \A s : /\ Evicting(s) <=> churn.dead[i] = s
               /\ Evicting(s)' <=> churn.dead[i] = s
    BY <2>0, <2>1 DEF Evicting, EvictPC
  <2>3. ASSUME NEW s \in Services
        PROVE  ChurnPlace(s)'
    <3>1. Rows(s)' = Rows(s) \ {i} /\ (InQueue(s)' <=> InQueue(s))
      BY <2>1, SameQueue DEF Rows
    <3>2. i \in Rows(s) => churn.dead[i] = s
      BY <1>0, <2>0, <2>1 DEF Rows, ChurnLedger, Asg
    <3>3. ChurnPlace(s)
      BY <1>0
    <3> QED
      BY <1>1, <2>0, <2>1, <2>2, <3>1, <3>2, <3>3 DEF ChurnPlace
  <2> QED
    BY <1>0, <1>2, <2>1, <2>3, SameQueue
\* An evicted volunteer's row is gone.
<1>8. churn.pc \in {"server", "unassign", "requeue"} => churn.id \notin DOMAIN dbVol
  <2> SUFFICES ASSUME churn.pc \in {"server", "unassign", "requeue"}, churn.id \in DOMAIN dbVol
               PROVE  FALSE
    OBVIOUS
  <2>1. churn.id \in Ids
    BY <1>0, MapElim DEF TypeOK
  <2> QED
    BY <1>0, <1>4, <2>1 DEF Mirrored, ChurnLedger, EvictPC
<1>9. CASE ChurnServer
  <2>1. UNCHANGED <<pending, dbVars>> /\ churn.pc = "server"
    BY <1>9 DEF ChurnServer, memVars
  <2>2. \A s \in Services : Evicting(s)' <=> Evicting(s)
    <3>1. CASE churn.dead[churn.id] # None
      <4>1. churn' = [churn EXCEPT !.pc = "unassign"]
        BY <1>9, <3>1 DEF ChurnServer
      <4> QED
        BY <1>0, <2>1, <4>1 DEF Evicting, EvictPC, ChurnState
    <3>2. CASE churn.dead[churn.id] = None
      <4>1. ChurnNext
        BY <1>9, <3>2 DEF ChurnServer
      <4>2. churn'.pc \in {"tick", "evict"}
        BY <4>1 DEF ChurnNext, IdleChurn
      <4> QED
        BY <1>0, <3>2, <4>2 DEF Evicting, EvictPC
    <3> QED
      BY <3>1, <3>2
  <2>3. ASSUME NEW s \in Services, Evicting(s)
        PROVE  churn'.id = churn.id
    <3>1. churn' = [churn EXCEPT !.pc = "unassign"]
      BY <1>0, <1>9, <2>3 DEF ChurnServer, Evicting
    <3> QED
      BY <1>0, <3>1 DEF ChurnState
  <2> QED
    BY <1>0, <1>2, <1>3, <2>1, <2>2, <2>3, SameRows, SameQueue
<1>10. CASE ChurnUnassign
  <2>1. /\ churn'.pc = "requeue" /\ churn'.dead = churn.dead /\ churn'.id = churn.id
        /\ dbAsg' = Drop(dbAsg, churn.id) /\ UNCHANGED <<pending, dbVol>>
        /\ churn.pc = "unassign"
    BY <1>0, <1>10 DEF ChurnUnassign, ChurnState, memVars
  <2>2. \A s : Evicting(s)' <=> Evicting(s)
    BY <2>1 DEF Evicting, EvictPC
  <2>3. \A s : Rows(s)' = Rows(s)
    BY <1>8, <2>1 DEF Rows, Drop
  <2> QED
    BY <1>0, <1>2, <1>3, <2>1, <2>2, <2>3, SameQueue
<1>11. CASE ChurnRequeue
  <2>1. PICK r : r = churn.dead[churn.id]
    OBVIOUS
  <2>2. /\ pending' = Append(pending, r) /\ UNCHANGED dbVars /\ churn.pc = "requeue"
        /\ churn'.pc \in {"tick", "evict"}
    BY <1>11, <2>1 DEF ChurnRequeue, ChurnNext, IdleChurn
  <2>3. r \in Services
    <3>1. churn.id \in DOMAIN churn.dead /\ r # None
      BY <1>0, <2>1, <2>2 DEF TypeInv, ChurnOK
    <3>2. churn.dead \in MapsOf(Ids, Opt(Services))
      BY <1>0 DEF ChurnState
    <3>3. r \in Opt(Services)
      BY <2>1, <3>1, <3>2, MapElim
    <3> QED
      BY <3>1, <3>3 DEF Opt
  <2>4. \A s : /\ Evicting(s) <=> s = r
               /\ ~Evicting(s)'
    BY <2>1, <2>2 DEF Evicting, EvictPC
  <2>5. ~InQueue(r) /\ Rows(r) = {}
    BY <1>0, <1>8, <2>2, <2>3, <2>4 DEF ChurnPlace, Rows
  <2>6. QueuedOnce' /\ InQueue(r)' /\ \A s : s # r => (InQueue(s) <=> InQueue(s)')
    BY <1>0, <2>2, <2>3, <2>5, PushBackQueue
  <2>7. ASSUME NEW s \in Services
        PROVE  ChurnPlace(s)'
    <3>1. Rows(s)' = Rows(s) /\ ChurnPlace(s)
      BY <1>0, <2>2, SameRows
    <3>2. CASE s # r
      BY <1>1, <2>4, <2>6, <3>1, <3>2 DEF ChurnPlace
    <3>3. CASE s = r
      BY <1>1, <2>4, <2>5, <2>6, <3>1, <3>3 DEF ChurnPlace
    <3> QED
      BY <3>2, <3>3
  <2> QED
    BY <1>2, <2>6, <2>7
<1> QED
  BY <1>5, <1>6, <1>7, <1>9, <1>10, <1>11 DEF ChurnStep

\* main() recovers exactly what the rows say; a process that dies takes with
\* it the services that no row remembers.
LEMMA RestPlace ==
  ASSUME OneAtATime, LedgerInv, PlaceInv, BootStep \/ Environment
  PROVE  PlaceInv'
<1>0. TypeInv /\ TypeOK /\ QueuedOnce
  BY DEF LedgerInv, TraceInv, TypeInv, PlaceInv
<1>1. ASSUME UNCHANGED <<tasks, churn, pending, owner, lost>>,
             \A s : Rows(s)' = Rows(s),
             UNCHANGED dbVars \/ \A u \in Slots : tasks[u].pc = "idle"
      PROVE  PlaceInv'
  <2>1. \A s : /\ InQueue(s)' <=> InQueue(s)
               /\ Evicting(s)' <=> Evicting(s)
               /\ \A u \in Slots : Carries(tasks[u], s)' <=> Carries(tasks[u], s)
    BY <1>1, SameQueue DEF Evicting, Carries
  <2>2. ASSUME NEW s \in Services
        PROVE  OnePlace(s)'
    <3>1. OnePlace(s)
      BY DEF PlaceInv
    <3>2. Nowhere(s)' <=> Nowhere(s)
      BY <1>1, <2>1 DEF Nowhere
    <3> QED
      BY <1>1, <2>1, <3>1, <3>2 DEF OnePlace
  <2> QED
    BY <1>0, <1>1, <2>2, SameQueue DEF PlaceInv, dbVars
<1>2. CASE BootStep
  <2>1. UNCHANGED <<tasks, churn, pending, owner, lost>> /\ boot.pc # "serve"
    BY <1>2 DEF BootStep, BootPrune, BootLoad, BootPass1, BootPass1Done, BootPass2, BootServe,
       memVars, auxVars
  <2>2. \A u \in Slots : tasks[u].pc = "idle"
    BY <1>0, <2>1 DEF TypeInv, BootOK, Idle
  <2>3. \A s : Rows(s)' = Rows(s)
    <3>1. CASE BootPrune
      BY <3>1 DEF BootPrune, Rows
    <3>2. CASE ~BootPrune
      BY <1>2, <3>2, SameRows DEF BootStep, BootLoad, BootPass1, BootPass1Done, BootPass2,
         BootServe
    <3> QED
      BY <3>1, <3>2
  <2> QED
    BY <1>1, <2>1, <2>2, <2>3
<1>3. CASE Crash \/ Redeploy
  <2>1. Reset
    BY <1>3 DEF Crash, Redeploy
  <2>2. /\ \A u \in Slots : tasks'[u].pc = "idle"
        /\ churn'.pc = "tick" /\ pending' = <<>> /\ UNCHANGED <<dbVars, owner>>
        /\ lost' = lost \cup (Accepted \ Persisted)
    BY <2>1 DEF Reset, IdleTask, Handler, IdleChurn
  <2>3. QueuedOnce' /\ \A s : ~InQueue(s)' /\ ~Evicting(s)'
    BY <2>2 DEF QueuedOnce, InQueue, Evicting, EvictPC
  <2>4. ASSUME NEW s \in Services
        PROVE  ChurnPlace(s)'
    <3>1. Rows(s)' = Rows(s)
      BY <2>2, SameRows
    <3>2. s \in Accepted => s \in lost' \/ Rows(s) # {}
      BY <2>2 DEF Persisted, Rows
    <3>3. /\ \A i, j \in Rows(s) : i = j
          /\ owner[s] = "new" => Rows(s) = {}
      BY DEF PlaceInv, OnePlace, Nowhere
    <3> QED
      BY <2>2, <2>3, <3>1, <3>2, <3>3 DEF ChurnPlace, Accepted
  <2> QED
    BY <2>2, <2>3, <2>4, PlaceOfChurnNext DEF PlaceInv
<1>4. CASE HAProxyRestart \/ \E i \in Ids : Expire(i) \/ NotFound(i)
  <2>1. UNCHANGED <<tasks, churn, pending, owner, lost, dbVars>>
    BY <1>4 DEF HAProxyRestart, Expire, NotFound, vars, memVars, auxVars
  <2> QED
    BY <1>1, <2>1, SameRows
<1> QED
  BY <1>2, <1>3, <1>4, NoFailures DEF Environment

LEMMA PlaceInit == Init => PlaceInv
<1> SUFFICES ASSUME Init PROVE PlaceInv
  OBVIOUS
<1>1. /\ \A u \in Slots : tasks[u].pc = "idle"
      /\ churn.pc = "tick" /\ pending = <<>> /\ DOMAIN dbAsg = {}
      /\ \A s \in Services : owner[s] = "new"
  BY EmptyMapType DEF Init, IdleTask, Handler, IdleChurn
<1>2. QueuedOnce /\ \A s : ~InQueue(s) /\ ~Evicting(s) /\ Rows(s) = {}
  BY <1>1 DEF QueuedOnce, InQueue, Evicting, EvictPC, Rows
<1>3. \A s \in Services : ChurnPlace(s)
  BY <1>1, <1>2 DEF ChurnPlace
<1> QED
  BY <1>1, <1>2, <1>3, PlaceOfChurn DEF PlaceInv

LEMMA PlaceStep ==
  ASSUME OneAtATime
  PROVE  LedgerInv /\ PlaceInv /\ [Next]_vars => PlaceInv'
<1> SUFFICES ASSUME LedgerInv, PlaceInv, [Next]_vars PROVE PlaceInv'
  OBVIOUS
<1>1. CASE UNCHANGED vars
  <2>1. \A s \in Services : OnePlace(s)'
    BY <1>1 DEF PlaceInv, OnePlace, Nowhere, Rows, InQueue, Evicting, Carries, vars, memVars,
       dbVars, auxVars
  <2> QED
    BY <1>1, <2>1 DEF PlaceInv, QueuedOnce, vars, memVars, dbVars, auxVars
<1>2. ASSUME NEW t \in Slots, Arrival(t) \/ TaskStep(t)
      PROVE  PlaceInv'
  BY <1>2, ArrivalPlace, ChoicePlace, EnrollRowPlace, EnrollSavePlace, StorePlace,
     RegisterPlace, UpkeepPlace DEF TaskStep, EnrollStep
<1> QED
  BY <1>1, <1>2, ChurnStepPlace, RestPlace DEF Next

\* With one activity at a time, no failing SQL and no dropped handler: a
\* service whose registration was answered 201 is, at rest, with exactly one
\* volunteer or in exactly one queue entry, unless a crash (the queue is in
\* memory) or a disconnect has lost it.  No sequence of registrations,
\* enrollments, failed calls, evictions, crashes and recoveries duplicates it
\* (enroll, register_service, run_churn_monitor, disconnect, main).
THEOREM ServicesPlacedOnce ==
  ASSUME OneAtATime
  PROVE  Spec => []PlacedOnce
<1>1. LedgerInv /\ PlaceInv => PlacedOnce
  <2> SUFFICES ASSUME LedgerInv, PlaceInv, AtRest, NEW s \in Accepted
               PROVE  LET places == Cardinality(Holders(s)) + Cardinality(QueuedAt(s))
                      IN  places <= 1 /\ (places = 0 => s \in lost)
    BY DEF PlacedOnce
  <2>1. /\ \A u \in Slots : tasks[u].pc = "idle"
        /\ churn.pc = "tick" /\ \A j \in Ids : Mirrored(j)
    BY DEF AtRest, Quiet, Idle, LedgerInv, Unsettled, UnsettledPC
  <2>2. s \in Services /\ s # None /\ ~Evicting(s) /\ ChurnPlace(s)
    BY <2>1, PlaceOfChurn, ConstantsAssumption DEF Accepted, PlaceInv, Evicting, EvictPC
  <2>3. Holders(s) = Rows(s)
    <3>1. DOMAIN volunteers \subseteq Ids /\ DOMAIN dbVol \subseteq Ids
      BY MapElim DEF LedgerInv, TraceInv, TypeInv, TypeOK
    <3>2. \A i \in Ids : i \in Holders(s) <=> i \in Rows(s)
      BY <2>1, <2>2 DEF Holders, Rows, Mirrored, Asg
    <3> QED
      BY <3>1, <3>2 DEF Holders, Rows
  <2>4. Rows(s) = {} \/ \E i : Rows(s) = {i}
    BY <2>2 DEF ChurnPlace
  <2>5. QueuedAt(s) = {} \/ \E k : QueuedAt(s) = {k}
    BY DEF PlaceInv, QueuedOnce, QueuedAt
  <2>6. QueuedAt(s) = {} <=> ~InQueue(s)
    BY DEF QueuedAt, InQueue
  <2>7. QueuedAt(s) = {} \/ Rows(s) = {}
    BY <2>2, <2>6 DEF ChurnPlace
  <2>8. QueuedAt(s) = {} /\ Rows(s) = {} => s \in lost
    BY <2>2, <2>6 DEF ChurnPlace, Accepted
  <2>9. Cardinality({}) = 0 /\ \A x : Cardinality({x}) = 1
    BY FS_EmptySet, FS_Singleton
  <2>10. /\ Cardinality(Rows(s)) = IF Rows(s) = {} THEN 0 ELSE 1
         /\ Cardinality(QueuedAt(s)) = IF QueuedAt(s) = {} THEN 0 ELSE 1
    BY <2>4, <2>5, <2>9
  <2> QED
    BY <2>3, <2>7, <2>8, <2>10
<1> QED
  BY <1>1, LedgerInit, LedgerStep, PlaceInit, PlaceStep, PTL DEF Spec

=============================================================================
