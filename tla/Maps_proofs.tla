----------------------------- MODULE Maps_proofs -----------------------------
(***************************************************************************)
(* Lemmas about the operators on maps, and about the greatest and the      *)
(* least member of a set of version ids.                                   *)
(***************************************************************************)
EXTENDS Maps, Integers, FiniteSetsExt, TLAPS, WellFoundedInduction, NaturalsInduction

\* Inserting an entry gives a map that differs in that entry only.
LEMMA InsertIsMap ==
  ASSUME NEW S, NEW T, NEW m, IsMap(m, S, T), NEW k \in S, NEW v \in T
  PROVE  /\ IsMap(MapInsert(m, k, v), S, T)
         /\ DOMAIN MapInsert(m, k, v) = DOMAIN m \cup {k}
         /\ \A x \in DOMAIN MapInsert(m, k, v) :
              MapInsert(m, k, v)[x] = IF x = k THEN v ELSE m[x]
  BY DEF IsMap, MapInsert

\* Removing keys gives a map on the keys that are left.
LEMMA RemoveIsMap ==
  ASSUME NEW S, NEW T, NEW m, IsMap(m, S, T), NEW X
  PROVE  /\ IsMap(MapRemove(m, X), S, T)
         /\ DOMAIN MapRemove(m, X) = DOMAIN m \ X
         /\ \A x \in DOMAIN m \ X : MapRemove(m, X)[x] = m[x]
  BY DEF IsMap, MapRemove, Restrict

\* Whatever is removed, the rest of a map stays as it is.
LEMMA RemoveKeeps ==
  ASSUME NEW m, NEW X
  PROVE  /\ DOMAIN MapRemove(m, X) \subseteq DOMAIN m
         /\ \A x \in DOMAIN MapRemove(m, X) : MapRemove(m, X)[x] = m[x]
  BY DEF MapRemove, Restrict

\* A map is a map over larger sets.
LEMMA WidenIsMap ==
  ASSUME NEW S, NEW T, NEW m, IsMap(m, S, T),
         NEW S2, NEW T2, S \subseteq S2, T \subseteq T2
  PROVE  IsMap(m, S2, T2)
  BY DEF IsMap

\* The empty map is a map over any sets.
LEMMA EmptyIsMap ==
  ASSUME NEW S, NEW T
  PROVE  IsMap(EmptyMap, S, T)
  BY DEF IsMap, EmptyMap

\* The inverse of a map is a map the other way round.
LEMMA AntiIsMap ==
  ASSUME NEW S, NEW T, NEW f, IsMap(f, S, T)
  PROVE  IsMap(AntiFunction(f), T, S) /\ DOMAIN AntiFunction(f) = Range(f)
<1>1. \A t \in Range(f) : AntiFunction(f)[t] \in DOMAIN f
  BY DEF AntiFunction, Inverse, Range
<1>2. AntiFunction(f) \in [Range(f) -> DOMAIN f]
  BY <1>1 DEF AntiFunction, Inverse
<1>. QED  BY <1>2 DEF IsMap, Range

\* A set of bounded naturals that is not empty has a greatest member: what
\* `vers.last()` relies on.
LEMMA MaxInSet ==
  ASSUME NEW n \in Nat, NEW S \in SUBSET (0 .. n), S # {}
  PROVE  Max(S) \in S /\ \A x \in S : x <= Max(S)
<1> DEFINE D == {n - x : x \in S}
<1>1. D \subseteq Nat /\ D # {}
  <2>1. \A x \in S : n - x \in Nat
    OBVIOUS
  <2>. QED  BY <2>1
<1>2. PICK d \in D : \A e \in D : ~(<<e, d>> \in OpToRel(<, Nat))
  <2>. HIDE DEF D
  <2>. QED  BY <1>1, NatLessThanWellFounded, WFMin
<1>3. \A e \in D : d <= e
  <2>1. SUFFICES ASSUME NEW e \in D
                 PROVE  d <= e
    OBVIOUS
  <2>2. d \in Nat /\ e \in Nat
    BY <1>1, <1>2
  <2>3. <<e, d>> \in OpToRel(<, Nat) <=> e < d
    BY <2>2 DEF OpToRel
  <2>4. ~(e < d)
    BY <1>2, <2>3, Zenon
  <2>. QED  BY <2>2, <2>4
<1>4. PICK h \in S : d = n - h
  OBVIOUS
<1>5. \A x \in S : h >= x
  <2>1. \A x \in S : n - x \in D
    OBVIOUS
  <2>. HIDE DEF D
  <2>. QED  BY <1>3, <1>4, <2>1
<1>. QED  BY <1>5 DEF Max

\* A set of naturals that is not empty has a least member.
LEMMA MinInSet ==
  ASSUME NEW S \in SUBSET Nat, S # {}
  PROVE  Min(S) \in S /\ \A x \in S : Min(S) <= x
<1>1. PICK d \in S : \A e \in S : ~(<<e, d>> \in OpToRel(<, Nat))
  BY NatLessThanWellFounded, WFMin
<1>2. ASSUME NEW e \in S
      PROVE  d <= e
  <2>1. <<e, d>> \in OpToRel(<, Nat) <=> e < d
    BY DEF OpToRel
  <2>2. ~(e < d)
    BY <1>1, <2>1, Zenon
  <2>. QED  BY <2>2
<1>. QED  BY <1>2 DEF Min

\* The greatest member of a set of numbers, recognised.
LEMMA MaxIs ==
  ASSUME NEW S \in SUBSET Int, NEW m \in S, \A x \in S : x <= m
  PROVE  Max(S) = m
<1>1. \A y \in S : (\A x \in S : y >= x) => y = m
  OBVIOUS
<1>2. \A x \in S : m >= x
  OBVIOUS
<1>. QED  BY <1>1, <1>2 DEF Max

-----------------------------------------------------------------------------
(* A map and the map back. *)

\* g leads from the values of f back to its keys.
Back(f, g) == DOMAIN g = Range(f) /\ \A n \in DOMAIN f : g[f[n]] = n

\* A new name for a new id.
LEMMA InsertBack ==
  ASSUME NEW f, NEW g, Back(f, g), NEW n, NEW i, n \notin DOMAIN f, i \notin DOMAIN g
  PROVE  Back(MapInsert(f, n, i), MapInsert(g, i, n))
  BY DEF Back, MapInsert, Range

\* Ids are taken out with the names they have.
LEMMA RemoveBack ==
  ASSUME NEW f, NEW g, Back(f, g), NEW S \in SUBSET DOMAIN g
  PROVE  Back(MapRemove(f, {g[i] : i \in S}), MapRemove(g, S))
<1> DEFINE f2 == MapRemove(f, {g[i] : i \in S})
           g2 == MapRemove(g, S)
<1>1. /\ DOMAIN f2 = DOMAIN f \ {g[i] : i \in S}
      /\ \A n \in DOMAIN f2 : f2[n] = f[n]
      /\ DOMAIN g2 = DOMAIN g \ S
      /\ \A i \in DOMAIN g2 : g2[i] = g[i]
  BY DEF MapRemove, Restrict
<1>2. \A n \in DOMAIN f : f[n] \in DOMAIN g /\ g[f[n]] = n
  BY DEF Back, Range
<1>3. \A i \in DOMAIN g : \E n \in DOMAIN f : f[n] = i /\ g[i] = n
  BY <1>2 DEF Back, Range
<1>4. \A n \in DOMAIN f : n \in DOMAIN f2 <=> f[n] \in DOMAIN g2
  BY <1>1, <1>2, <1>3
<1>. HIDE DEF f2, g2
<1>5. DOMAIN g2 = Range(f2)
  BY <1>1, <1>2, <1>3, <1>4 DEF Range
<1>. QED  BY <1>1, <1>2, <1>4, <1>5 DEF Back, f2, g2

\* Two names exchange their ids.
LEMMA SwapBack ==
  ASSUME NEW f, NEW g, Back(f, g), NEW m \in DOMAIN f, NEW n \in DOMAIN f
  PROVE  Back(MapInsert(MapInsert(f, m, f[n]), n, f[m]),
              MapInsert(MapInsert(g, f[m], n), f[n], m))
<1> DEFINE f2 == MapInsert(MapInsert(f, m, f[n]), n, f[m])
           g2 == MapInsert(MapInsert(g, f[m], n), f[n], m)
<1>1. /\ DOMAIN f2 = DOMAIN f
      /\ \A x \in DOMAIN f : f2[x] = IF x = n THEN f[m] ELSE IF x = m THEN f[n] ELSE f[x]
  BY DEF MapInsert
<1>2. \A x \in DOMAIN f : f[x] \in DOMAIN g /\ g[f[x]] = x
  BY DEF Back, Range
<1>3. /\ DOMAIN g2 = DOMAIN g
      /\ \A i \in DOMAIN g : g2[i] = IF i = f[n] THEN m ELSE IF i = f[m] THEN n ELSE g[i]
  BY <1>2 DEF MapInsert
<1>. HIDE DEF f2, g2
<1>4. Range(f2) = Range(f)
  BY <1>1 DEF Range
<1>5. \A x \in DOMAIN f2 : g2[f2[x]] = x
  BY <1>1, <1>2, <1>3
<1>. QED  BY <1>1, <1>3, <1>4, <1>5 DEF Back, f2, g2

\* The inverse of a map that has a map back is that map.
LEMMA AntiBack ==
  ASSUME NEW f, NEW g, Back(f, g)
  PROVE  Back(f, AntiFunction(f))
<1>1. \A m, n \in DOMAIN f : f[m] = f[n] => m = n
  BY DEF Back
<1>2. \A n \in DOMAIN f : AntiFunction(f)[f[n]] = n
  <2>. SUFFICES ASSUME NEW n \in DOMAIN f
                PROVE  AntiFunction(f)[f[n]] = n
    OBVIOUS
  <2>1. f[n] \in Range(f)
    BY DEF Range
  <2>2. AntiFunction(f)[f[n]] \in DOMAIN f /\ f[AntiFunction(f)[f[n]]] = f[n]
    BY <2>1 DEF AntiFunction, Inverse, Range
  <2>. QED  BY <1>1, <2>2
<1>3. DOMAIN AntiFunction(f) = Range(f)
  BY DEF AntiFunction, Inverse
<1>. QED  BY <1>2, <1>3 DEF Back
=============================================================================
