-------------------------------- MODULE Maps --------------------------------
(***************************************************************************)
(* Finite maps: a HashMap, or a table with a primary key, is a function    *)
(* whose domain is the set of keys it holds now.                           *)
(***************************************************************************)

EmptyMap == [k \in {} |-> k]

\* HashMap::insert, INSERT OR REPLACE
Put(m, key, val) ==
  [k \in DOMAIN m \cup {key} |-> IF k = key THEN val ELSE m[k]]

\* HashMap::remove, DELETE ... WHERE key = ?
Drop(m, key) == [k \in DOMAIN m \ {key} |-> m[k]]

\* The maps from a subset of K to V.
MapsOf(K, V) == UNION {[S -> V] : S \in SUBSET K}

=============================================================================
