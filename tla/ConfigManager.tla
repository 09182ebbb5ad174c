--------------------------- MODULE ConfigManager ---------------------------
(***************************************************************************)
(* config.rs of haproxy-manager: add_service and remove_service, step by   *)
(* step, against the HAProxy master that they signal.                      *)
(*                                                                         *)
(* A call takes config_lock, reads haproxy.cfg, edits the text it has read *)
(* and writes it back, asks `haproxy -c`, restores the text if HAProxy     *)
(* rejects it, else sends SIGUSR2 and waits RELOAD_SETTLE_MS before it     *)
(* gives up the lock.  ConfigText says what the edits do to the text; a    *)
(* failed write, which truncates the file first, leaves a part of it.      *)
(*                                                                         *)
(* The master is external and modelled from the comment on config_lock: a  *)
(* signal makes it read the file and then fork a worker for what it read;  *)
(* a signal that arrives meanwhile is lost.                                *)
(***************************************************************************)
EXTENDS FiniteSets, ConfigText

CONSTANTS
  Tasks,        \* concurrent callers
  Env,          \* which events of the environment may happen
  MaxEvents     \* bound on the number of these events

ASSUME ConfigAssumption ==
  /\ None \notin Tasks
  /\ Env \subseteq {"read_err", "write_err", "validate_err", "reload_err",
                    "cancel", "crash", "restart"}
  /\ MaxEvents \in Nat

VARIABLES
  file,         \* the text of haproxy.cfg
  running,      \* the text the worker was started with
  master,       \* "idle", or what it does about a signal: "read", "fork"
  image,        \* the text the master has read and is forking a worker for
  lock,         \* who holds config_lock
  op,           \* the calls under way
  ledger,       \* ghost: what the calls that returned Ok amount to
  cut,          \* ghost: a call ended between its write and its return, or
                \* took back a text that HAProxy had been restarted with
  events        \* events of the environment so far

haproxy == <<running, master, image>>
vars == <<file, haproxy, lock, op, ledger, cut, events>>

Opt(S) == S \cup {None}

OpPC == {"idle", "lock", "read", "write", "validate", "restore", "reload",
         "settle", "ok", "err"}
Op == [pc : OpPC, kind : {"add", "remove"}, svc : Opt(Services),
       content : Seq(Line)]
IdleOp == [pc |-> "idle", kind |-> "add", svc |-> None, content |-> <<>>]

\* Type invariant.
TypeOK ==
  /\ file \in Seq(Line)
  /\ running \in Seq(Line)
  /\ master \in {"idle", "read", "fork"}
  /\ image \in Seq(Line)
  /\ lock \in Opt(Tasks)
  /\ op \in [Tasks -> Op]
  /\ ledger \in SUBSET Services
  /\ cut \in BOOLEAN
  /\ events \in Nat

\* The container has started: the image's file, no service.
Init ==
  /\ file = BaseText
  /\ running = BaseText
  /\ master = "idle"
  /\ image = <<>>
  /\ lock = None
  /\ op = [t \in Tasks |-> IdleOp]
  /\ ledger = {}
  /\ cut = FALSE
  /\ events = 0

At(t, l) == op[t].pc = l
Goto(t, l) == op' = [op EXCEPT ![t].pc = l]

Event(e) ==
  /\ e \in Env
  /\ events < MaxEvents
  /\ events' = events + 1

\* The guard is dropped as the call returns.
Release(t, l) == Goto(t, l) /\ lock' = None

-----------------------------------------------------------------------------
(* add_service and remove_service                                          *)

\* Mutant: the name of the service is not taken over into the call.
CallUnnamed(t, k, s) ==
  /\ At(t, "idle")
  /\ op' = [op EXCEPT ![t] =
              [pc |-> "lock", kind |-> k, svc |-> None, content |-> <<>>]]
  /\ UNCHANGED <<file, haproxy, lock, ledger, cut, events>>

Call(t, k, s) ==
  /\ At(t, "idle")
  /\ op' = [op EXCEPT ![t] =
              [pc |-> "lock", kind |-> k, svc |-> s, content |-> <<>>]]
  /\ UNCHANGED <<file, haproxy, lock, ledger, cut, events>>

\* Mutant: the guard is not kept for the length of the call.
AcquireUnguarded(t) ==
  /\ At(t, "lock")
  /\ lock = None
  /\ Goto(t, "read")
  /\ UNCHANGED <<file, haproxy, lock, ledger, cut, events>>

\* config_lock().lock().await
Acquire(t) ==
  /\ At(t, "lock")
  /\ lock = None
  /\ lock' = t
  /\ Goto(t, "read")
  /\ UNCHANGED <<file, haproxy, ledger, cut, events>>

\* The text the call will write.
Edited(o) ==
  IF o.kind = "add" THEN WithService(o.content, o.svc)
                    ELSE WithoutService(o.content, o.svc)

\* The call has nothing to do.
Settled(o) == service_exists(file, o.svc) <=> o.kind = "add"

NoPlace(o) == o.kind = "add" /\ InsertPos(file) = 0

\* A call that returns Ok enters the ledger.
Enter(o) ==
  ledger' = IF o.kind = "add" THEN ledger \cup {o.svc} ELSE ledger \ {o.svc}

\* read_config: an I/O error, nothing to do, FrontendNotFound, or the text
\* to edit.
Read(t) ==
  /\ At(t, "read")
  /\ \/ Event("read_err") /\ Release(t, "err") /\ UNCHANGED ledger
     \/ /\ Settled(op[t])
        /\ Release(t, "ok") /\ Enter(op[t]) /\ UNCHANGED events
     \/ /\ ~Settled(op[t]) /\ NoPlace(op[t])
        /\ Release(t, "err") /\ UNCHANGED <<ledger, events>>
     \/ /\ ~Settled(op[t]) /\ ~NoPlace(op[t])
        /\ op' = [op EXCEPT ![t].pc = "write", ![t].content = file]
        /\ UNCHANGED <<lock, ledger, events>>
  /\ UNCHANGED <<file, haproxy, cut>>

\* tokio::fs::write fails after it has truncated the file.
WriteFails(text) ==
  /\ Event("write_err")
  /\ cut' = TRUE
  /\ file' \in Truncated(text)

\* write_config of the edited text.
Write(t) ==
  /\ At(t, "write")
  /\ \/ /\ file' = Edited(op[t])
        /\ Goto(t, "validate")
        /\ UNCHANGED <<lock, cut, events>>
     \/ WriteFails(Edited(op[t])) /\ Release(t, "err")
  /\ UNCHANGED <<haproxy, ledger>>

\* validate_config: `haproxy -c` cannot be run, or gives its verdict.
Validate(t) ==
  /\ At(t, "validate")
  /\ \/ Goto(t, IF Accepted(file) THEN "reload" ELSE "restore") /\ UNCHANGED events
     \/ Event("validate_err") /\ Goto(t, "restore")
  /\ UNCHANGED <<file, haproxy, lock, ledger, cut>>

\* Mutant: the error of the restoring write leaves the lock taken.
RestoreHolds(t) ==
  /\ At(t, "restore")
  /\ \/ /\ file' = op[t].content /\ Release(t, "err")
        /\ cut' = (cut \/ running = file)
        /\ UNCHANGED events
     \/ WriteFails(op[t].content) /\ Goto(t, "err") /\ UNCHANGED lock
  /\ UNCHANGED <<haproxy, ledger>>

\* write_config of the text read.
Restore(t) ==
  /\ At(t, "restore")
  /\ \/ /\ file' = op[t].content
        /\ cut' = (cut \/ running = file)
        /\ UNCHANGED events
     \/ WriteFails(op[t].content)
  /\ Release(t, "err")
  /\ UNCHANGED <<haproxy, ledger>>

\* reload_haproxy: no PID file, no process, or SIGUSR2.
Reload(t) ==
  /\ At(t, "reload")
  /\ \/ /\ master' = IF master = "idle" THEN "read" ELSE master
        /\ Goto(t, "settle")
        /\ UNCHANGED <<lock, cut, events>>
     \/ /\ Event("reload_err")
        /\ cut' = TRUE
        /\ Release(t, "err")
        /\ UNCHANGED master
  /\ UNCHANGED <<file, running, image, ledger>>

\* Mutant: the call returns as soon as the signal is sent.
SettleAtOnce(t) ==
  /\ At(t, "settle")
  /\ Release(t, "ok")
  /\ Enter(op[t])
  /\ UNCHANGED <<file, haproxy, cut, events>>

\* The sleep, taken to be long enough for the new worker to come up.
Settle(t) ==
  /\ At(t, "settle")
  /\ master = "idle"
  /\ Release(t, "ok")
  /\ Enter(op[t])
  /\ UNCHANGED <<file, haproxy, cut, events>>

Return(t) ==
  /\ op[t].pc \in {"ok", "err"}
  /\ op' = [op EXCEPT ![t] = IdleOp]
  /\ UNCHANGED <<file, haproxy, lock, ledger, cut, events>>

Step(t) ==
  \/ Read(t) \/ Write(t) \/ Validate(t) \/ Restore(t) \/ Reload(t)
  \/ Settle(t) \/ Return(t)

-----------------------------------------------------------------------------
(* The environment                                                         *)

\* The master reads the file; if it cannot use it, the old worker stays.
MasterReads ==
  /\ master = "read"
  /\ IF Accepted(file) THEN master' = "fork" /\ image' = file
                       ELSE master' = "idle" /\ UNCHANGED image
  /\ UNCHANGED <<file, running, lock, op, ledger, cut, events>>

\* The new worker takes over.
MasterForks ==
  /\ master = "fork"
  /\ master' = "idle"
  /\ running' = image
  /\ image' = <<>>
  /\ UNCHANGED <<file, lock, op, ledger, cut, events>>

\* Where a call that is stopped leaves the file changed.
Halfway(t) == op[t].pc \in {"validate", "restore", "reload", "settle"}

\* The caller's connection is closed and its future dropped at an await, and
\* the guard with it.
Cancel(t) ==
  /\ Event("cancel")
  /\ op[t].pc \notin {"idle", "ok", "err"}
  /\ op' = [op EXCEPT ![t] = IdleOp]
  /\ lock' = IF lock = t THEN None ELSE lock
  /\ cut' = (cut \/ Halfway(t))
  /\ UNCHANGED <<file, haproxy, ledger>>

\* The registrar dies and starts again.
Crash ==
  /\ Event("crash")
  /\ op' = [t \in Tasks |-> IdleOp]
  /\ lock' = None
  /\ cut' = (cut \/ \E t \in Tasks : Halfway(t))
  /\ UNCHANGED <<file, haproxy, ledger>>

\* supervisord restarts HAProxy, which needs a file it accepts.
Restart ==
  /\ Event("restart")
  /\ Accepted(file)
  /\ running' = file
  /\ master' = "idle"
  /\ image' = <<>>
  /\ UNCHANGED <<file, lock, op, ledger, cut>>

Next ==
  \/ \E t \in Tasks :
       \/ \E k \in {"add", "remove"}, s \in Services : Call(t, k, s)
       \/ Acquire(t) \/ Step(t) \/ Cancel(t)
  \/ MasterReads \/ MasterForks \/ Crash \/ Restart

Spec == Init /\ [][Next]_vars

\* Calls run, the master reloads, and tokio's mutex is handed over in the
\* order of arrival, so that a caller is not passed over for ever.
Fairness ==
  /\ \A t \in Tasks : WF_vars(Step(t)) /\ SF_vars(Acquire(t))
  /\ WF_vars(MasterReads \/ MasterForks)

FairSpec == Spec /\ Fairness

-----------------------------------------------------------------------------
(* Properties.                                                             *)

\* The lines of the image's file are all there, in order, and each service
\* has its lines once, its acl before its use and both before the default.
Intact(text) ==
  LET at(k, s) == {i \in DOMAIN text : text[i] = L(k, s)}
  IN  /\ \E f, b \in at("header", None), d \in at("default", None),
            o \in at("other", None) :
           /\ f < d /\ d < b /\ b < o
           /\ {i \in DOMAIN text : text[i].svc = None /\ text[i].kind # "blank"}
                = {f, d, b, o}
      /\ \A s \in ServicesIn(text) :
           /\ \A k \in {"acl", "use", "header", "other"} :
                Cardinality(at(k, s)) = 1
           /\ \A i \in at("acl", s), j \in at("use", s),
                 d \in at("default", None) : i < j /\ j < d

\* When nobody edits, file and worker agree with each other and with the
\* calls that returned Ok, and HAProxy would start from the file: no edit is
\* lost between two callers, none damages what others wrote, and a rejected
\* edit leaves no trace.  Not so once a call has ended half-way, or HAProxy
\* was restarted with an edit that was then taken back because `haproxy -c`
\* could not be run.
EditsLand ==
  lock = None /\ ~cut =>
    /\ Accepted(file) /\ Intact(file)
    /\ ServicesIn(file) = ledger /\ list_services(file) = ledger
    /\ running = file

\* The section of the service is the last one of the text.
IsLast(text, s) ==
  \A i \in DOMAIN text :
    text[i] = L("header", s) =>
      \A j \in DOMAIN text : text[j].kind = "header" => j <= i

\* A call is turned down only for a reason: the environment failed, the
\* service cannot be parsed, or it is removed while its section is not the
\* last one, which leaves a text without a final LF.
ErrorsExplained ==
  [][\A t \in Tasks :
       (~At(t, "err") /\ op'[t].pc = "err" /\ events' = 0)
         => \/ op[t].svc \in Invalid
            \/ op[t].kind = "remove" /\ ~IsLast(file', op[t].svc)]_vars

\* An answer of Ok means that the worker has the change, even when the call
\* found nothing to do.
AckedIsRunning ==
  [][\A t \in Tasks :
       (~At(t, "ok") /\ op'[t].pc = "ok" /\ ~cut)
         => (service_exists(running, op[t].svc) <=> op[t].kind = "add")]_vars

\* Every call returns, on every error path, however many callers there are.
CallsEnd == \A t \in Tasks : At(t, "lock") ~> At(t, "idle")

-----------------------------------------------------------------------------
(* The inductive invariants.                                               *)

\* The image's lines stand at f, d, b and o; a service's acl and use lines
\* come before the default, its section after all of them.
Frame(text, f, d, b, o) ==
  /\ {f, d, b, o} \subseteq DOMAIN text
  /\ f < d /\ d < b /\ b < o
  /\ text[f] = L("header", None) /\ text[d] = L("default", None)
  /\ text[b] = L("header", None) /\ text[o] = L("other", None)
  /\ \A i \in DOMAIN text :
       \/ i \in {f, d, b, o}
       \/ text[i] = Blank
       \/ text[i].svc # None /\ text[i].kind \in {"acl", "use"} /\ i < d
       \/ text[i].svc # None /\ text[i].kind \in {"header", "other"} /\ o < i

\* The text has this line.
Has(text, l) == \E i \in DOMAIN text : text[i] = l

\* A service has all its four lines or none, each once, and its section is
\* a header and another line after a blank one.
Sections(text) ==
  /\ \A i, j \in DOMAIN text :
       text[i] = text[j] /\ text[i].svc # None => i = j
  /\ \A i \in DOMAIN text :
       LET s == text[i].svc
       IN  s # None =>
             /\ Has(text, L("acl", s)) /\ Has(text, L("use", s))
             /\ Has(text, L("header", s)) /\ Has(text, L("other", s))
             /\ text[i].kind = "header" =>
                  /\ i - 1 \in DOMAIN text /\ text[i - 1] = Blank
                  /\ i + 1 \in DOMAIN text /\ text[i + 1] = L("other", s)
  /\ \A i, j \in DOMAIN text :
       text[i].kind = "acl" /\ text[j] = L("use", text[i].svc) => i < j

WellFormed(text) ==
  /\ \E f, d, b, o \in DOMAIN text : Frame(text, f, d, b, o)
  /\ Sections(text)

\* A text that edits start from, for the services that were added.
Sound(text) == WellFormed(text) /\ Accepted(text) /\ ServicesIn(text) = ledger

Critical == {"read", "write", "validate", "restore", "reload", "settle"}

\* What a call has in hand.
OpOK(o) ==
  /\ o.pc # "idle" => o.svc \in Services
  /\ o.pc = "write" /\ o.kind = "add" => InsertPos(o.content) # 0

\* One call at a time is between its read and its return.
Exclusive == \A t \in Tasks : op[t].pc \in Critical <=> lock = t

MutexInv == Exclusive /\ \A t \in Tasks : OpOK(op[t])

\* The edit under way starts from a sound text, which is not yet, or is
\* again, the one in the file, and which differs from it by this edit only.
TextOK(t) ==
  /\ At(t, "read") => Sound(file)
  /\ At(t, "write") => op[t].content = file /\ Sound(file) /\ ~Settled(op[t])
  /\ Halfway(t) => /\ Sound(op[t].content)
                   /\ file = Edited(op[t])
                   /\ (service_exists(op[t].content, op[t].svc)
                         <=> op[t].kind = "remove")
  /\ At(t, "restore") /\ events = 0 => ~Accepted(file)
  /\ op[t].pc \in {"reload", "settle"} => Accepted(file)

TextInv ==
  /\ events = 0 => ~cut
  /\ ~cut => (lock = None => Sound(file)) /\ \A t \in Tasks : TextOK(t)

\* The worker runs the text in the file, or the master is about to start one
\* that does; only a restart brings an edit into the worker early.
WorkerOK(t) ==
  /\ op[t].pc \in {"read", "write"} => master = "idle" /\ running = file
  /\ op[t].pc \in {"validate", "restore", "reload"} => master = "idle"
  /\ op[t].pc \in {"validate", "restore"} =>
       running = op[t].content \/ (running = file /\ Accepted(file))
  /\ At(t, "settle") => \/ master = "read"
                        \/ master = "fork" /\ image = file
                        \/ master = "idle" /\ running = file

WorkerInv ==
  ~cut => /\ lock = None => master = "idle" /\ running = file
          /\ \A t \in Tasks : WorkerOK(t)

-----------------------------------------------------------------------------
(* A statement of the repository that the code does not keep.              *)

\* "so every config change reliably lands in the running process"
\* (config_lock): an answer of Ok means that the worker has the change.
ChangeLands ==
  [][\A t \in Tasks :
       (~At(t, "ok") /\ op'[t].pc = "ok")
         => (service_exists(running, op[t].svc) <=> op[t].kind = "add")]_vars

=============================================================================
