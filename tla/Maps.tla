-------------------------------- MODULE Maps --------------------------------
(***************************************************************************)
(* Maps: a Mapx of the storage engine (core/src/common/engines/mod.rs) is  *)
(* a function on the keys it holds.                                        *)
(***************************************************************************)
EXTENDS Functions

EmptyMap           == [x \in {} |-> {}]
MapInsert(m, k, v) == [x \in DOMAIN m \cup {k} |-> IF x = k THEN v ELSE m[x]]
MapRemove(m, S)    == Restrict(m, DOMAIN m \ S)

\* A map whose keys are in S and whose values are in T.
IsMap(m, S, T)     == DOMAIN m \subseteq S /\ m \in [DOMAIN m -> T]
=============================================================================
