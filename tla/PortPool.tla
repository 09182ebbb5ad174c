------------------------------ MODULE PortPool ------------------------------
(***************************************************************************)
(* What a port range shared by several holders promises: a port has one    *)
(* holder at a time, is taken only when nobody has it, and is given back   *)
(* only by the one who has it.  The tunnel server implements this          *)
(* (Tunnel!Pool); the volunteer nodes rely on it (Fleet).                  *)
(***************************************************************************)
CONSTANTS
  Ports,        \* the range
  Holders,      \* who may hold a port
  None          \* no holder

VARIABLE owner  \* the holder of each port

Init == owner = [p \in Ports |-> None]

Take(h, p) ==
  /\ owner[p] = None
  /\ owner' = [owner EXCEPT ![p] = h]

\* A holder gives back some of its ports.
Give(h, given) ==
  /\ given \subseteq {p \in Ports : owner[p] = h}
  /\ owner' = [p \in Ports |-> IF p \in given THEN None ELSE owner[p]]

\* The process that keeps the pool dies, and all its listeners with it.
Reset == owner' = [p \in Ports |-> None]

Next ==
  \/ \E h \in Holders, p \in Ports : Take(h, p)
  \/ \E h \in Holders, given \in SUBSET Ports : Give(h, given)
  \/ Reset

Spec == Init /\ [][Next]_owner

=============================================================================
