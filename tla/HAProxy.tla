------------------------------- MODULE HAProxy -------------------------------
(***************************************************************************)
(* HAProxy as the registrar drives it through the haproxy-manager crate.   *)
(*                                                                         *)
(* One operator per manager call the registrar makes.  The effect of a     *)
(* call on HAProxy itself (what a runtime command changes, what a reload   *)
(* drops) is external and modelled from how the crate uses it:             *)
(*   - `add server` and `set server ... addr` only touch the running       *)
(*     process, so a reload or a restart forgets every dynamic server      *)
(*     (registrar main.rs:112-114);                                        *)
(*   - a command on an absent server answers "No such server", one on an   *)
(*     absent backend "No such backend", and only the former is retried;   *)
(*   - a dynamic server starts in maintenance and takes traffic once it    *)
(*     has been set ready;                                                 *)
(*   - `del server` is refused while connections are attached, with a      *)
(*     message that send_command does not take for an error.               *)
(*                                                                         *)
(* A service stands for its backend svc_<name> with its ACL lines; the     *)
(* text of haproxy.cfg is abstracted to the set of services it holds.      *)
(* Weights carry no information the properties here need.                  *)
(***************************************************************************)
EXTENDS Maps

CONSTANTS
  Services,     \* service names an owner may register
  Ids,          \* volunteer UUIDs, also the server names in `volunteers`
  Addrs         \* tunnel addresses ip:port

VARIABLES
  cfg,          \* services whose ACLs and backend are in haproxy.cfg
  loaded,       \* services whose backend the running worker knows
  volServers,   \* dynamic servers of backend `volunteers`, by volunteer id
  svcServers    \* the "primary" server of each svc_<name> backend

hapVars == <<cfg, loaded, volServers, svcServers>>

Server == [addr : Addrs, state : {"ready", "maint"}]

HAProxyTypeOK ==
  /\ cfg \in SUBSET Services
  /\ loaded \in SUBSET Services
  /\ volServers \in MapsOf(Ids, Server)
  /\ svcServers \in MapsOf(Services, Server)

HAProxyInit ==
  /\ cfg = {}
  /\ loaded = {}
  /\ volServers = EmptyMap
  /\ svcServers = EmptyMap

-----------------------------------------------------------------------------
(* What HAProxy does with a command.                                       *)

\* A worker starts from the given file, without any dynamic server.
StartWorker(file) ==
  /\ cfg' = file
  /\ loaded' = file
  /\ volServers' = EmptyMap
  /\ svcServers' = EmptyMap

\* set addr or add server, then set weight, then state ready.
Upserted(servers, name, a) ==
  Put(servers, name, [addr |-> a, state |-> "ready"])

\* The same cut short after its first command.
HalfUpserted(servers, name, a) ==
  Put(servers, name,
      [addr |-> a,
       state |-> IF name \in DOMAIN servers THEN servers[name].state
                                            ELSE "maint"])

-----------------------------------------------------------------------------
(* config::add_service, atomic here: it runs under config_lock and the     *)
(* module ConfigManager has its steps.                                     *)

\* Ok: nothing to do when the service is in the file, else edit and reload.
add_service(s) ==
  IF s \in cfg THEN UNCHANGED hapVars ELSE StartWorker(cfg \cup {s})

\* Err: nothing changed (I/O error, or validation failed and the backup was
\* restored), or the reload failed and the file keeps the service.
add_service_err(s) ==
  \/ UNCHANGED hapVars
  \/ /\ s \notin cfg
     /\ cfg' = cfg \cup {s}
     /\ UNCHANGED <<loaded, volServers, svcServers>>

-----------------------------------------------------------------------------
(* Runtime calls on a service backend.                                     *)

\* upsert_svc_server Ok: the running worker must know the backend.
upsert_svc_server(s, a) ==
  /\ s \in loaded
  /\ svcServers' = Upserted(svcServers, s, a)
  /\ UNCHANGED <<cfg, loaded, volServers>>

\* upsert_svc_server Err when the backend is unknown: "No such backend" is
\* returned, not retried.
upsert_svc_server_nobackend(s) ==
  /\ s \notin loaded
  /\ UNCHANGED hapVars

\* upsert_svc_server Err from the socket, before or after its first command.
upsert_svc_server_err(s, a) ==
  /\ s \in loaded
  /\ svcServers' \in {svcServers, HalfUpserted(svcServers, s, a)}
  /\ UNCHANGED <<cfg, loaded, volServers>>

-----------------------------------------------------------------------------
(* Runtime calls on backend `volunteers`.                                  *)

upsert_volunteer(i, a) ==
  /\ volServers' = Upserted(volServers, i, a)
  /\ UNCHANGED <<cfg, loaded, svcServers>>

upsert_volunteer_err(i, a) ==
  /\ volServers' \in {volServers, HalfUpserted(volServers, i, a)}
  /\ UNCHANGED <<cfg, loaded, svcServers>>

\* add_volunteer: `add server` on an existing server is refused with a
\* message that is no error prefix, so only the state changes then.
add_volunteer(i, a) ==
  /\ volServers' = IF i \in DOMAIN volServers
                     THEN [volServers EXCEPT ![i].state = "ready"]
                     ELSE Upserted(volServers, i, a)
  /\ UNCHANGED <<cfg, loaded, svcServers>>

add_volunteer_err(i, a) ==
  /\ volServers' \in {volServers,
                      IF i \in DOMAIN volServers THEN volServers
                        ELSE HalfUpserted(volServers, i, a)}
  /\ UNCHANGED <<cfg, loaded, svcServers>>

\* remove_volunteer: maint, then del, which HAProxy refuses while the server
\* has connections.  On an absent server it stops at the first command.
remove_volunteer(i) ==
  /\ IF i \in DOMAIN volServers
       THEN \/ volServers' = Drop(volServers, i)
            \/ volServers' = [volServers EXCEPT ![i].state = "maint"]
       ELSE UNCHANGED volServers
  /\ UNCHANGED <<cfg, loaded, svcServers>>

remove_volunteer_err(i) ==
  /\ volServers' \in {volServers,
                      IF i \in DOMAIN volServers
                        THEN [volServers EXCEPT ![i].state = "maint"]
                        ELSE volServers}
  /\ UNCHANGED <<cfg, loaded, svcServers>>

\* update_volunteer_addr: the `?` after each command stops the whole call at
\* the first absent server, so the service is not repointed when the
\* volunteer's own server is missing.  `withSvc` is svc_info being Some.
update_volunteer_addr(i, a, withSvc, s) ==
  /\ volServers' = IF i \in DOMAIN volServers THEN Upserted(volServers, i, a)
                                              ELSE volServers
  /\ svcServers' = IF i \in DOMAIN volServers /\ withSvc
                      /\ s \in DOMAIN svcServers
                     THEN Upserted(svcServers, s, a) ELSE svcServers
  /\ UNCHANGED <<cfg, loaded>>

\* The socket fails after some of its commands: the server being moved is
\* left in maintenance, with the old address or the new one.
Interrupted(servers, name, a) ==
  {servers, [servers EXCEPT ![name].state = "maint"],
            [servers EXCEPT ![name] = [addr |-> a, state |-> "maint"]]}

update_volunteer_addr_err(i, a, withSvc, s) ==
  /\ \/ i \in DOMAIN volServers /\ volServers' \in Interrupted(volServers, i, a)
                                /\ UNCHANGED svcServers
     \/ i \notin DOMAIN volServers /\ UNCHANGED <<volServers, svcServers>>
     \/ /\ i \in DOMAIN volServers /\ withSvc /\ s \in DOMAIN svcServers
        /\ volServers' = Upserted(volServers, i, a)
        /\ svcServers' \in Interrupted(svcServers, s, a)
  /\ UNCHANGED <<cfg, loaded>>

=============================================================================
