----------------------------- MODULE MapTheorems -----------------------------
(***************************************************************************)
(* What the operators of Maps return, for every key and value set.         *)
(***************************************************************************)
EXTENDS Maps, TLAPS

\* A map's keys and values are of its key and value sets (HashMap<K, V>).
LEMMA MapElim ==
  ASSUME NEW K, NEW V, NEW m \in MapsOf(K, V)
  PROVE  /\ DOMAIN m \subseteq K
         /\ m \in [DOMAIN m -> V]
         /\ \A k \in DOMAIN m : k \in K /\ m[k] \in V
BY DEF MapsOf

\* A function on some of the keys is a map.
LEMMA MapIntro ==
  ASSUME NEW K, NEW V, NEW D \in SUBSET K, NEW f \in [D -> V]
  PROVE  f \in MapsOf(K, V)
BY DEF MapsOf

LEMMA EmptyMapType ==
  ASSUME NEW K, NEW V
  PROVE  EmptyMap \in MapsOf(K, V) /\ DOMAIN EmptyMap = {}
<1>1. EmptyMap \in [{} -> V]
  BY DEF EmptyMap
<1>2. {} \in SUBSET K
  OBVIOUS
<1> QED
  BY <1>1, <1>2, MapIntro DEF EmptyMap

\* insert keeps the types, adds the key and changes no other entry.
LEMMA PutType ==
  ASSUME NEW K, NEW V, NEW m \in MapsOf(K, V), NEW key \in K, NEW val \in V
  PROVE  Put(m, key, val) \in MapsOf(K, V)
<1>1. DOMAIN m \cup {key} \in SUBSET K
  BY MapElim
<1>2. Put(m, key, val) \in [DOMAIN m \cup {key} -> V]
  BY MapElim DEF Put
<1> QED
  BY <1>1, <1>2, MapIntro

LEMMA PutValues ==
  ASSUME NEW m, NEW key, NEW val
  PROVE  /\ DOMAIN Put(m, key, val) = DOMAIN m \cup {key}
         /\ Put(m, key, val)[key] = val
         /\ \A k \in DOMAIN m : k # key => Put(m, key, val)[k] = m[k]
BY DEF Put

\* remove keeps the types and changes no other entry.
LEMMA DropType ==
  ASSUME NEW K, NEW V, NEW m \in MapsOf(K, V), NEW key
  PROVE  Drop(m, key) \in MapsOf(K, V)
<1>1. DOMAIN m \ {key} \in SUBSET K
  BY MapElim
<1>2. Drop(m, key) \in [DOMAIN m \ {key} -> V]
  BY MapElim DEF Drop
<1> QED
  BY <1>1, <1>2, MapIntro

LEMMA DropValues ==
  ASSUME NEW m, NEW key
  PROVE  /\ DOMAIN Drop(m, key) = DOMAIN m \ {key}
         /\ \A k \in DOMAIN m : k # key => Drop(m, key)[k] = m[k]
BY DEF Drop

\* get_mut: an entry replaced in place keeps the keys and the types.
LEMMA ExceptType ==
  ASSUME NEW K, NEW V, NEW m \in MapsOf(K, V), NEW key \in DOMAIN m, NEW val \in V
  PROVE  /\ [m EXCEPT ![key] = val] \in MapsOf(K, V)
         /\ DOMAIN [m EXCEPT ![key] = val] = DOMAIN m
<1>1. DOMAIN m \in SUBSET K
  BY MapElim
<1>2. m \in [DOMAIN m -> V]
  BY MapElim
<1>3. [m EXCEPT ![key] = val] \in [DOMAIN m -> V]
  BY <1>2
<1> QED
  BY <1>1, <1>3, MapIntro

=============================================================================
