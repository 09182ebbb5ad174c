---------------------------- MODULE MCRegistrar ----------------------------
(***************************************************************************)
(* Instances of Registrar for TLC; each .cfg says which.                   *)
(***************************************************************************)
EXTENDS Registrar, TLC

\* UUIDs, slots, services and tunnel addresses are interchangeable.
Symmetry ==
  Permutations(Ids) \cup Permutations(Slots) \cup Permutations(Services)
    \cup Permutations(Addrs) \cup Permutations(Nodes)

=============================================================================
