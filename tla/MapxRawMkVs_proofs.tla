-------------------------- MODULE MapxRawMkVs_proofs --------------------------
(***************************************************************************)
(* Theorems about MapxRawMkVs, for every value of its constants.           *)
(***************************************************************************)
EXTENDS MapxRawMkVs, Maps_proofs, FiniteSetTheorems

-----------------------------------------------------------------------------
(* Change sets as trees.                                                   *)

Values == Value \cup {NULL}

\* The keys of tree cs.
KeysOf(cs) == MkKeys(cs, key_size)

\* Inserting keys adds them to the keys of a tree; the others keep their values.
LEMMA InsertKeys ==
  ASSUME NEW cs, NEW new, DOMAIN new \subseteq Key
  PROVE  /\ KeysOf(MkInsert(cs, new)) = KeysOf(cs) \cup DOMAIN new
         /\ \A k \in KeysOf(MkInsert(cs, new)) :
              MkInsert(cs, new)[k] = IF k \in DOMAIN new THEN new[k] ELSE cs[k]
<1> DEFINE paths == UNION {PathsTo(k) : k \in DOMAIN new}
           ins   == MkInsert(cs, new)
<1>1. \A p \in paths : Len(p) # key_size
  <2>. SUFFICES ASSUME NEW k \in DOMAIN new, NEW n \in 1 .. Len(k) - 1
                PROVE  Len(SubSeq(k, 1, n)) # key_size
    BY DEF PathsTo
  <2>1. k \in Seq(Range(k)) /\ Len(k) = key_size /\ key_size \in Nat
    BY KeySizeAssumption
  <2>. QED  BY <2>1
<1>2. /\ DOMAIN ins = DOMAIN cs \cup DOMAIN new \cup paths
      /\ \A p \in DOMAIN ins :
           ins[p] = IF p \in DOMAIN new THEN new[p] ELSE IF p \in DOMAIN cs THEN cs[p] ELSE SUBMAP
  BY DEF MkInsert
<1>3. \A k \in DOMAIN new : Len(k) = key_size
  BY KeySizeAssumption
<1>. HIDE DEF paths, ins
<1>4. \A k \in KeysOf(ins) : k \in DOMAIN new \/ k \in DOMAIN cs
  BY <1>1, <1>2 DEF KeysOf, MkKeys
<1>. QED  BY <1>1, <1>2, <1>3, <1>4 DEF KeysOf, MkKeys, ins

\* A key begins with no key but itself.
LEMMA KeyStartsWithKey ==
  ASSUME NEW k \in Key, NEW q \in Key
  PROVE  StartsWith(k, q) <=> k = q
<1>1. /\ k \in Seq(Range(k)) /\ Len(k) = key_size
      /\ q \in Seq(Range(q)) /\ Len(q) = key_size
      /\ key_size \in Nat \ {0}
  BY KeySizeAssumption
<1>2. SubSeq(k, 1, Len(k)) = k /\ SubSeq(q, 1, Len(q)) = q
  BY <1>1
<1>. QED  BY <1>1, <1>2 DEF StartsWith, Seqs!IsPrefix

\* Removing keys takes them from the keys of a tree; the others keep their values.
LEMMA RemoveKeys ==
  ASSUME NEW cs, KeysOf(cs) \subseteq Key, NEW dead \in SUBSET Key
  PROVE  /\ KeysOf(MkRemove(cs, dead)) = KeysOf(cs) \ dead
         /\ \A k \in KeysOf(MkRemove(cs, dead)) : MkRemove(cs, dead)[k] = cs[k]
<1> DEFINE gone == {p \in DOMAIN cs : \E q \in dead \ {<<>>} : StartsWith(p, q)}
<1>1. /\ DOMAIN MkRemove(cs, dead) = DOMAIN cs \ gone
      /\ \A p \in DOMAIN cs \ gone : MkRemove(cs, dead)[p] = cs[p]
  BY DEF MkRemove, MapRemove, Restrict
<1>2. \A k \in KeysOf(cs) : k \in gone <=> k \in dead
  <2>. SUFFICES ASSUME NEW k \in KeysOf(cs)
                PROVE  k \in gone <=> k \in dead
    OBVIOUS
  <2>1. \A q \in dead : StartsWith(k, q) <=> k = q
    BY KeyStartsWithKey
  <2>2. <<>> \notin Key
    BY KeySizeAssumption
  <2>3. k \in DOMAIN cs
    BY DEF KeysOf, MkKeys
  <2>. QED  BY <2>1, <2>2, <2>3
<1>. HIDE DEF gone
<1>3. KeysOf(MkRemove(cs, dead)) = {p \in DOMAIN cs \ gone : Len(p) = key_size}
  BY <1>1 DEF KeysOf, MkKeys
<1>4. KeysOf(cs) = {p \in DOMAIN cs : Len(p) = key_size}
  BY DEF KeysOf, MkKeys
<1>. QED  BY <1>1, <1>2, <1>3, <1>4

\* The empty tree has no key.
LEMMA EmptyKeys == KeysOf(EmptyMap) = {}
  BY DEF KeysOf, MkKeys, EmptyMap

\* The change sets, by the trees.
LEMMA ChangedIs ==
  /\ DOMAIN changed = DOMAIN ver_to_change_set
  /\ \A v \in DOMAIN ver_to_change_set : changed[v] = KeysOf(ver_to_change_set[v])
  BY DEF changed, ChangedKeys, KeysOf

\* So in the next state.
LEMMA ChangedIsNext ==
  /\ DOMAIN changed' = DOMAIN ver_to_change_set'
  /\ \A v \in DOMAIN ver_to_change_set' : changed'[v] = KeysOf(ver_to_change_set'[v])
  BY DEF changed, ChangedKeys, KeysOf

\* What a change set gives to its keys.
LEMMA ChangedToIs ==
  ASSUME NEW v, NEW k \in KeysOf(ver_to_change_set[v])
  PROVE  ChangedTo(v, k) = ver_to_change_set[v][k]
<1>1. k \in DOMAIN ver_to_change_set[v]
  BY DEF KeysOf, MkKeys
<1>2. MkGet(ver_to_change_set[v], k) = {ver_to_change_set[v][k]}
  BY <1>1 DEF MkGet
<1>. QED  BY <1>2 DEF ChangedTo

\* So in the next state.
LEMMA ChangedToIsNext ==
  ASSUME NEW v, NEW k \in KeysOf(ver_to_change_set'[v])
  PROVE  ChangedTo(v, k)' = ver_to_change_set'[v][k]
<1>1. k \in DOMAIN ver_to_change_set'[v]
  BY DEF KeysOf, MkKeys
<1>2. MkGet(ver_to_change_set'[v], k) = {ver_to_change_set'[v][k]}
  BY <1>1 DEF MkGet
<1>. QED  BY <1>2 DEF ChangedTo, MkGet

-----------------------------------------------------------------------------
(***************************************************************************)
(* The invariant.  Numbers, Names and Known are about branches and         *)
(* versions, the rest about change sets and layers.                        *)
(***************************************************************************)
\* The versions on some branch of `brs`.
AllOf(brs) == UNION Range(brs)

\* Branches and named versions have ids that were allocated.
Numbers ==
    /\ next_br_id \in Nat \ {0}
    /\ next_ver_id \in Nat
    /\ DOMAIN br_to_its_vers \subseteq 0 .. next_br_id - 1
    /\ DOMAIN ver_id_to_ver_name \subseteq 0 .. next_ver_id - 1

\* The maps of names lead back and forth.
Names ==
    /\ DOMAIN br_id_to_br_name = DOMAIN br_to_its_vers
    /\ Back(br_name_to_br_id, br_id_to_br_name)
    /\ Back(ver_name_to_ver_id, ver_id_to_ver_name)

\* Versions on branches have change sets, those with change sets names.
Known ==
    /\ AllOf(br_to_its_vers) \subseteq DOMAIN ver_to_change_set
    /\ DOMAIN ver_to_change_set \subseteq DOMAIN ver_id_to_ver_name

\* Change sets are trees over the keys, with values at their ends.
TreesOf(chg) ==
    \A v \in DOMAIN chg : \A k \in KeysOf(chg[v]) : k \in Key /\ chg[v][k] \in Values

\* Layers are, for each key, versions with their values.
LayersOf(kv, ids) ==
    /\ DOMAIN kv \subseteq Key
    /\ kv = [k \in DOMAIN kv |-> kv[k]]
    /\ \A k \in DOMAIN kv : IsMap(kv[k], ids, Values)

\* The layers kv have what the change sets have.
Agrees(chg, kv) ==
    \A v \in DOMAIN chg : \A k \in KeysOf(chg[v]) :
        k \in DOMAIN kv /\ v \in DOMAIN kv[k] /\ kv[k][v] = chg[v][k]

\* What the layers have beyond, of versions S, are marks.
MarksBeyond(chg, kv, S) ==
    \A k \in DOMAIN kv : \A v \in DOMAIN kv[k] \cap S :
        k \in KeysOf(chg[v]) \/ kv[k][v] = NULL

Versions == Numbers /\ Names /\ Known
Data == /\ TreesOf(ver_to_change_set)
        /\ LayersOf(layered_kv, 0 .. next_ver_id - 1)
        /\ Agrees(ver_to_change_set, layered_kv)
        /\ MarksBeyond(ver_to_change_set, layered_kv, AllOf(br_to_its_vers))
Inv == Versions /\ Data

-----------------------------------------------------------------------------
(* What MapxRawVs says, in the words of this module.                       *)

\* The operators on maps are the same.
LEMMA SameMaps ==
  ASSUME NEW m, NEW k, NEW x
  PROVE  /\ Vs!EmptyMap = EmptyMap
         /\ Vs!MapInsert(m, k, x) = MapInsert(m, k, x)
         /\ Vs!MapRemove(m, x) = MapRemove(m, x)
         /\ Vs!Range(m) = Range(m)
         /\ Vs!AllVers(m) = AllOf(m)
  BY DEF Vs!EmptyMap, EmptyMap, Vs!MapInsert, MapInsert, Vs!MapRemove, MapRemove,
         Vs!Restrict, Restrict, Vs!Range, Range, Vs!AllVers, AllOf

\* Layers are layers.
LEMMA SameLayers ==
  ASSUME NEW kv, NEW ids
  PROVE  Vs!IsLayers(kv, ids) <=> LayersOf(kv, ids)
  BY DEF Vs!IsLayers, LayersOf, Vs!IsMap, IsMap, Values

\* The versions of a branch.
LEMMA VersAre ==
  ASSUME NEW b
  PROVE  /\ Vs!Vers(b) = IF b \in DOMAIN br_to_its_vers THEN br_to_its_vers[b] ELSE {}
         /\ Vs!Vers(b) \subseteq AllOf(br_to_its_vers)
  BY DEF Vs!Vers, AllOf, Range

\* Names.
LEMMA SameNames == Vs!NamesConsistent <=> Names
  BY DEF Vs!NamesConsistent, Names, Back, Vs!Range, Range

\* What is known of versions.
LEMMA SameKnown == Vs!VersionsKnown <=> Known
  BY SameMaps, ChangedIs DEF Vs!VersionsKnown, Vs!HaveChangeSets, Vs!HaveNames, Known

-----------------------------------------------------------------------------
(***************************************************************************)
(* Calls that move versions among branches, or names: they touch no data.  *)
(***************************************************************************)
\* What the branches are after such a call, and after one that creates a
\* branch: their ids and names are in order.
BranchesNext ==
    /\ next_br_id' \in Nat \ {0}
    /\ DOMAIN br_to_its_vers' \subseteq 0 .. next_br_id' - 1
    /\ DOMAIN br_id_to_br_name' = DOMAIN br_to_its_vers'
    /\ Back(br_name_to_br_id', br_id_to_br_name')

Moves ==
    /\ BranchesNext
    /\ AllOf(br_to_its_vers') \subseteq AllOf(br_to_its_vers)
    /\ UNCHANGED <<ver_to_change_set, layered_kv, ver_name_to_ver_id,
                   ver_id_to_ver_name, next_ver_id>>

\* Such a call keeps the invariant.
LEMMA MovesKeep ==
  ASSUME Inv, Moves
  PROVE  Inv'
<1>1. Numbers' /\ Names' /\ Known'
  BY DEF Inv, Versions, Moves, BranchesNext, Numbers, Names, Known, Back
<1>2. Data'
  <2>1. MarksBeyond(ver_to_change_set, layered_kv, AllOf(br_to_its_vers'))
    BY DEF Inv, Data, MarksBeyond, Moves
  <2>2. MarksBeyond(ver_to_change_set', layered_kv', AllOf(br_to_its_vers'))
    BY <2>1 DEF Moves
  <2>3. /\ TreesOf(ver_to_change_set')
        /\ LayersOf(layered_kv', 0 .. next_ver_id' - 1)
        /\ Agrees(ver_to_change_set', layered_kv')
    BY DEF Inv, Data, Moves
  <2>. QED  BY <2>2, <2>3 DEF Data
<1>. QED  BY <1>1, <1>2 DEF Inv, Versions

\* Setting the versions of a branch to some that were on branches.
LEMMA SetVersMoves ==
  ASSUME Versions, NEW b, NEW S \in SUBSET AllOf(br_to_its_vers), Vs!SetVers(b, S),
         UNCHANGED ver_to_change_set
  PROVE  Moves
<1>1. /\ b \in DOMAIN br_to_its_vers
      /\ br_to_its_vers' = [br_to_its_vers EXCEPT ![b] = S]
      /\ UNCHANGED <<br_name_to_br_id, br_id_to_br_name, ver_name_to_ver_id,
                     ver_id_to_ver_name, layered_kv, next_br_id, next_ver_id>>
  BY DEF Vs!SetVers, Vs!brNames, Vs!verNames, Vs!data
<1>2. DOMAIN br_to_its_vers' = DOMAIN br_to_its_vers
  BY <1>1
<1>3. AllOf(br_to_its_vers') \subseteq AllOf(br_to_its_vers)
  BY <1>1 DEF AllOf, Range
<1>. QED  BY <1>1, <1>2, <1>3 DEF Moves, BranchesNext, Versions, Numbers, Names, Back

\* The operations on the versions of one branch.
LEMMA TruncateMoves ==
  ASSUME Versions, NEW b,
         \/ VersionPop(b) \/ BranchTruncate(b) \/ \E v : BranchTruncateTo(b, v)
  PROVE  Moves
<1>1. \A S : S \subseteq Vs!Vers(b) => S \in SUBSET AllOf(br_to_its_vers)
  BY VersAre
<1>2. PICK S \in SUBSET Vs!Vers(b) : Vs!SetVers(b, S) /\ UNCHANGED ver_to_change_set
  BY DEF VersionPop, BranchTruncate, BranchTruncateTo, Vs!VersionPop, Vs!BranchTruncate,
         Vs!BranchTruncateTo, Vs!UpTo
<1>. QED  BY <1>1, <1>2, SetVersMoves

\* Merging one branch into another.
LEMMA MergeMoves ==
  ASSUME Versions, NEW b, NEW t, BranchMergeTo(b, t) \/ BranchMergeToForce(b, t)
  PROVE  Moves
<1>1. Vs!SetVers(t, Vs!MergedVers(Vs!Vers(b), Vs!Vers(t))) /\ UNCHANGED ver_to_change_set
  BY DEF BranchMergeTo, BranchMergeToForce, Vs!BranchMergeTo, Vs!BranchMergeToForce
<1>2. Vs!MergedVers(Vs!Vers(b), Vs!Vers(t)) \subseteq Vs!Vers(b) \cup Vs!Vers(t)
  BY DEF Vs!MergedVers
<1>3. Vs!MergedVers(Vs!Vers(b), Vs!Vers(t)) \in SUBSET AllOf(br_to_its_vers)
  BY <1>2, VersAre
<1>. QED  BY <1>1, <1>3, SetVersMoves

\* Removing branches: their names go with them.
LEMMA RemoveNamesOf ==
  ASSUME Versions, NEW S, Vs!RemoveBranches(S)
  PROVE  /\ S \subseteq DOMAIN br_to_its_vers
         /\ br_to_its_vers' = MapRemove(br_to_its_vers, S)
         /\ DOMAIN br_to_its_vers' \subseteq DOMAIN br_to_its_vers
         /\ DOMAIN br_id_to_br_name' = DOMAIN br_to_its_vers'
         /\ Back(br_name_to_br_id', br_id_to_br_name')
<1>1. /\ S \subseteq DOMAIN br_to_its_vers
      /\ br_name_to_br_id' = MapRemove(br_name_to_br_id, {br_id_to_br_name[b] : b \in S})
      /\ br_id_to_br_name' = MapRemove(br_id_to_br_name, S)
      /\ br_to_its_vers' = MapRemove(br_to_its_vers, S)
  BY SameMaps DEF Vs!RemoveBranches, Vs!BrNamesAfterRemoval
<1>2. Back(br_name_to_br_id', br_id_to_br_name')
  BY <1>1, RemoveBack DEF Versions, Names
<1>. QED  BY <1>1, <1>2 DEF MapRemove, Restrict, Versions, Names

\* A map from which keys are removed has no other values.
LEMMA RemoveAll ==
  ASSUME NEW brs, NEW S
  PROVE  AllOf(MapRemove(brs, S)) \subseteq AllOf(brs)
  BY RemoveKeeps DEF AllOf, Range

\* Removing a branch, also one that a failed creation was to replace.
LEMMA RemoveMoves ==
  ASSUME Versions, (\E b : BranchRemove(b)) \/ (\E n : BranchCreateFails(n))
  PROVE  Moves
<1>1. PICK S : /\ Vs!RemoveBranches(S)
               /\ UNCHANGED <<ver_name_to_ver_id, ver_id_to_ver_name, layered_kv,
                              ver_to_change_set, next_br_id, next_ver_id>>
  BY DEF BranchRemove, BranchCreateFails, Vs!BranchRemove, Vs!BranchCreateFails,
         Vs!verNames, Vs!data
<1>. QED  BY <1>1, RemoveNamesOf, RemoveAll DEF Moves, BranchesNext, Versions, Numbers

\* Naming branches.
LEMMA RenameMoves ==
  ASSUME Versions, (\E b : BranchSetDefault(b)) \/ (\E m, n : BranchSwap(m, n))
  PROVE  Moves
<1>1. ASSUME NEW b, BranchSetDefault(b)
      PROVE  Moves
  BY <1>1 DEF BranchSetDefault, Vs!BranchSetDefault, Vs!brNames, Vs!verNames, Vs!data,
              Moves, BranchesNext, Versions, Numbers, Names, Back
<1>2. ASSUME NEW m, NEW n, BranchSwap(m, n)
      PROVE  Moves
  <2> DEFINE i == br_name_to_br_id[m]
             j == br_name_to_br_id[n]
  <2>1. /\ m \in DOMAIN br_name_to_br_id /\ n \in DOMAIN br_name_to_br_id
        /\ br_name_to_br_id' = MapInsert(MapInsert(br_name_to_br_id, m, j), n, i)
        /\ br_id_to_br_name' = MapInsert(MapInsert(br_id_to_br_name, i, n), j, m)
        /\ UNCHANGED <<ver_name_to_ver_id, ver_id_to_ver_name, br_to_its_vers, layered_kv,
                       ver_to_change_set, next_br_id, next_ver_id>>
    BY <1>2, SameMaps DEF BranchSwap, Vs!BranchSwap, Vs!verNames, Vs!data
  <2>2. Back(br_name_to_br_id', br_id_to_br_name')
    BY <2>1, SwapBack DEF Versions, Names
  <2>3. i \in DOMAIN br_id_to_br_name /\ j \in DOMAIN br_id_to_br_name
    BY <2>1 DEF Versions, Names, Back, Range
  <2>4. DOMAIN br_id_to_br_name' = DOMAIN br_id_to_br_name
    BY <2>1, <2>3 DEF MapInsert
  <2>. QED  BY <2>1, <2>2, <2>4 DEF Moves, BranchesNext, Versions, Numbers, Names
<1>. QED  BY <1>1, <1>2

-----------------------------------------------------------------------------
(***************************************************************************)
(* Calls that create a version, on a branch that was there or a new one.   *)
(***************************************************************************)
Creates ==
    /\ BranchesNext
    /\ AllOf(br_to_its_vers') \subseteq AllOf(br_to_its_vers) \cup {next_ver_id}
    /\ ver_to_change_set' = MapInsert(ver_to_change_set, next_ver_id, EmptyMap)
    /\ DOMAIN ver_id_to_ver_name' = DOMAIN ver_id_to_ver_name \cup {next_ver_id}
    /\ Back(ver_name_to_ver_id', ver_id_to_ver_name')
    /\ next_ver_id' = next_ver_id + 1
    /\ UNCHANGED layered_kv

\* Layers over some versions are layers over more.
LEMMA WidenLayers ==
  ASSUME NEW kv, NEW ids, LayersOf(kv, ids), NEW ids2, ids \subseteq ids2
  PROVE  LayersOf(kv, ids2)
  BY WidenIsMap DEF LayersOf

\* Such a call keeps the invariant.
LEMMA CreatesKeep ==
  ASSUME Inv, Creates
  PROVE  Inv'
<1>1. /\ DOMAIN ver_to_change_set' = DOMAIN ver_to_change_set \cup {next_ver_id}
      /\ \A v \in DOMAIN ver_to_change_set' :
           ver_to_change_set'[v] = IF v = next_ver_id THEN EmptyMap ELSE ver_to_change_set[v]
  BY DEF Creates, MapInsert
<1>2. next_ver_id \notin DOMAIN ver_to_change_set
  BY DEF Inv, Versions, Numbers, Known
<1>3. Numbers' /\ Names' /\ Known'
  BY <1>1 DEF Inv, Versions, Creates, BranchesNext, Numbers, Names, Known
<1>4. TreesOf(ver_to_change_set') /\ Agrees(ver_to_change_set', layered_kv')
  BY <1>1, EmptyKeys DEF Inv, Data, Creates, TreesOf, Agrees
<1>5. LayersOf(layered_kv', 0 .. next_ver_id' - 1)
  <2>1. 0 .. next_ver_id - 1 \subseteq 0 .. next_ver_id' - 1
    BY DEF Inv, Versions, Numbers, Creates
  <2>2. LayersOf(layered_kv, 0 .. next_ver_id' - 1)
    BY <2>1, WidenLayers DEF Inv, Data
  <2>. QED  BY <2>2 DEF Creates
<1>6. MarksBeyond(ver_to_change_set', layered_kv', AllOf(br_to_its_vers'))
  <2>1. \A k \in DOMAIN layered_kv : next_ver_id \notin DOMAIN layered_kv[k]
    BY DEF Inv, Versions, Numbers, Data, LayersOf, IsMap
  <2>2. AllOf(br_to_its_vers) \subseteq DOMAIN ver_to_change_set
    BY DEF Inv, Versions, Known
  <2>. SUFFICES ASSUME NEW k \in DOMAIN layered_kv,
                       NEW v \in DOMAIN layered_kv[k] \cap AllOf(br_to_its_vers')
                PROVE  k \in KeysOf(ver_to_change_set'[v]) \/ layered_kv[k][v] = NULL
    BY DEF MarksBeyond, Creates
  <2>3. v \in AllOf(br_to_its_vers) /\ v # next_ver_id
    BY <2>1 DEF Creates
  <2>. QED  BY <1>1, <2>2, <2>3 DEF Inv, Data, MarksBeyond
<1>. QED  BY <1>3, <1>4, <1>5, <1>6 DEF Inv, Versions, Data

\* A version more, or none, on branch b of `brs`, as MapxRawVs has it.
LEMMA AddVersionIs ==
  ASSUME Versions, ChangeSetOfNew, NEW brs, NEW b \in DOMAIN brs, NEW name,
         Vs!AddVersion(brs, b, name)
  PROVE  \/ /\ br_to_its_vers' = brs
            /\ UNCHANGED <<ver_to_change_set, ver_name_to_ver_id, ver_id_to_ver_name,
                           next_ver_id>>
         \/ /\ br_to_its_vers' = MapInsert(brs, b, brs[b] \cup {next_ver_id})
            /\ ver_to_change_set' = MapInsert(ver_to_change_set, next_ver_id, EmptyMap)
            /\ DOMAIN ver_id_to_ver_name' = DOMAIN ver_id_to_ver_name \cup {next_ver_id}
            /\ Back(ver_name_to_ver_id', ver_id_to_ver_name')
            /\ next_ver_id' = next_ver_id + 1
<1>1. /\ next_ver_id \notin DOMAIN ver_to_change_set
      /\ next_ver_id \notin DOMAIN ver_id_to_ver_name
  BY DEF Versions, Numbers, Known
<1>2. \/ UNCHANGED ver_to_change_set
      \/ ver_to_change_set' = MapInsert(ver_to_change_set, next_ver_id, EmptyMap)
  BY DEF ChangeSetOfNew
<1>3. CASE name = {} /\ br_to_its_vers' = brs /\ UNCHANGED changed
           /\ UNCHANGED <<ver_name_to_ver_id, ver_id_to_ver_name, next_ver_id>>
  <2>1. DOMAIN ver_to_change_set' = DOMAIN ver_to_change_set
    BY <1>3, ChangedIs, ChangedIsNext
  <2>2. ver_to_change_set' # MapInsert(ver_to_change_set, next_ver_id, EmptyMap)
    BY <1>1, <2>1 DEF MapInsert
  <2>. QED  BY <1>2, <1>3, <2>2
<1>4. CASE \E n \in name :
             /\ n \notin DOMAIN ver_name_to_ver_id
             /\ br_to_its_vers' = MapInsert(brs, b, brs[b] \cup {next_ver_id})
             /\ ver_name_to_ver_id' = MapInsert(ver_name_to_ver_id, n, next_ver_id)
             /\ ver_id_to_ver_name' = MapInsert(ver_id_to_ver_name, next_ver_id, n)
             /\ changed' = MapInsert(changed, next_ver_id, {})
             /\ next_ver_id' = next_ver_id + 1
  <2>1. PICK n \in name :
             /\ n \notin DOMAIN ver_name_to_ver_id
             /\ br_to_its_vers' = MapInsert(brs, b, brs[b] \cup {next_ver_id})
             /\ ver_name_to_ver_id' = MapInsert(ver_name_to_ver_id, n, next_ver_id)
             /\ ver_id_to_ver_name' = MapInsert(ver_id_to_ver_name, next_ver_id, n)
             /\ changed' = MapInsert(changed, next_ver_id, {})
             /\ next_ver_id' = next_ver_id + 1
    BY <1>4
  <2>2. Back(ver_name_to_ver_id', ver_id_to_ver_name')
    BY <1>1, <2>1, InsertBack DEF Versions, Names
  <2>3. next_ver_id \in DOMAIN ver_to_change_set'
    BY <2>1, ChangedIsNext DEF MapInsert
  <2>4. ver_to_change_set' = MapInsert(ver_to_change_set, next_ver_id, EmptyMap)
    BY <1>1, <1>2, <2>3
  <2>5. DOMAIN ver_id_to_ver_name' = DOMAIN ver_id_to_ver_name \cup {next_ver_id}
    BY <2>1 DEF MapInsert
  <2>. QED  BY <2>1, <2>2, <2>4, <2>5
<1>5. \/ /\ name = {}
         /\ br_to_its_vers' = brs
         /\ UNCHANGED <<ver_name_to_ver_id, ver_id_to_ver_name, changed, next_ver_id>>
      \/ \E n \in name :
             /\ n \notin DOMAIN ver_name_to_ver_id
             /\ br_to_its_vers' = MapInsert(brs, b, brs[b] \cup {next_ver_id})
             /\ ver_name_to_ver_id' = MapInsert(ver_name_to_ver_id, n, next_ver_id)
             /\ ver_id_to_ver_name' = MapInsert(ver_id_to_ver_name, next_ver_id, n)
             /\ changed' = MapInsert(changed, next_ver_id, {})
             /\ next_ver_id' = next_ver_id + 1
  BY DEF Vs!AddVersion, Vs!verNames, Vs!MapInsert, MapInsert
<1>. QED  BY <1>3, <1>4, <1>5

\* Setting one entry of a map of version sets.
LEMMA InsertAll ==
  ASSUME NEW brs, NEW b, NEW S
  PROVE  AllOf(MapInsert(brs, b, S)) \subseteq AllOf(brs) \cup S
  BY DEF AllOf, Range, MapInsert

\* Creating a version.
LEMMA VersionCreates ==
  ASSUME Versions, NEW b, NEW n, VersionCreate(b, n)
  PROVE  Moves \/ Creates
<1>1. /\ b \in DOMAIN br_to_its_vers
      /\ Vs!AddVersion(br_to_its_vers, b, {n})
      /\ ChangeSetOfNew
      /\ UNCHANGED <<br_name_to_br_id, br_id_to_br_name, layered_kv, next_br_id>>
  BY DEF VersionCreate, Vs!VersionCreate, Vs!brNames
<1>2. br_to_its_vers[b] \subseteq AllOf(br_to_its_vers)
  BY <1>1 DEF AllOf, Range
<1>3. CASE br_to_its_vers' = br_to_its_vers
           /\ UNCHANGED <<ver_to_change_set, ver_name_to_ver_id, ver_id_to_ver_name,
                          next_ver_id>>
  BY <1>1, <1>3 DEF Moves, BranchesNext, Versions, Numbers, Names, Back
<1>4. CASE /\ br_to_its_vers' = MapInsert(br_to_its_vers, b,
                                          br_to_its_vers[b] \cup {next_ver_id})
           /\ ver_to_change_set' = MapInsert(ver_to_change_set, next_ver_id, EmptyMap)
           /\ DOMAIN ver_id_to_ver_name' = DOMAIN ver_id_to_ver_name \cup {next_ver_id}
           /\ Back(ver_name_to_ver_id', ver_id_to_ver_name')
           /\ next_ver_id' = next_ver_id + 1
  <2>1. AllOf(br_to_its_vers') \subseteq AllOf(br_to_its_vers) \cup {next_ver_id}
    BY <1>2, <1>4, InsertAll
  <2>2. DOMAIN br_to_its_vers' = DOMAIN br_to_its_vers
    BY <1>1, <1>4 DEF MapInsert
  <2>3. BranchesNext
    BY <1>1, <2>2 DEF BranchesNext, Versions, Numbers, Names, Back
  <2>. QED  BY <1>1, <1>4, <2>1, <2>3 DEF Creates
<1>. QED  BY <1>1, <1>3, <1>4, AddVersionIs

\* Creating a branch.
LEMMA BranchCreates ==
  ASSUME Versions, NEW n, NEW b, NEW base, NEW name, NEW force,
         BranchCreate(n, b, base, name, force)
  PROVE  Moves \/ Creates
<1> DEFINE gone == Vs!Replaced(n, force)
           brs  == MapRemove(br_to_its_vers, gone)
           kept == UNION {Vs!UpTo(brs[b], v) : v \in base}
           all  == MapInsert(brs, next_br_id, kept)
           f    == MapRemove(br_name_to_br_id, {br_id_to_br_name[c] : c \in gone})
           g    == MapRemove(br_id_to_br_name, gone)
<1>1. /\ n \notin DOMAIN f
      /\ b \in DOMAIN brs
      /\ br_name_to_br_id' = MapInsert(f, n, next_br_id)
      /\ br_id_to_br_name' = MapInsert(g, next_br_id, n)
      /\ Vs!AddVersion(all, next_br_id, name)
      /\ next_br_id' = next_br_id + 1
      /\ ChangeSetOfNew
      /\ UNCHANGED layered_kv
  BY SameMaps DEF BranchCreate, Vs!BranchCreate, Vs!BrNamesAfterRemoval
<1>2. gone \subseteq DOMAIN br_id_to_br_name
  BY DEF Vs!Replaced, Versions, Names, Back, Range
<1>3. Back(f, g) /\ DOMAIN g = DOMAIN br_id_to_br_name \ gone
  <2>1. Back(f, g)
    BY <1>2, RemoveBack DEF Versions, Names
  <2>. QED  BY <2>1 DEF MapRemove, Restrict
<1>4. DOMAIN brs = DOMAIN br_id_to_br_name \ gone
  BY DEF MapRemove, Restrict, Versions, Names
<1>5. kept \subseteq AllOf(br_to_its_vers)
  <2>1. kept \subseteq brs[b]
    BY DEF Vs!UpTo
  <2>2. brs[b] \subseteq AllOf(brs)
    BY <1>1 DEF AllOf, Range
  <2>. QED  BY <2>1, <2>2, RemoveAll
<1>6. AllOf(all) \subseteq AllOf(br_to_its_vers)
  BY <1>5, RemoveAll, InsertAll
<1>7. DOMAIN all = DOMAIN brs \cup {next_br_id} /\ all[next_br_id] = kept
  BY DEF MapInsert
<1>8. next_br_id \notin DOMAIN g
  BY <1>3 DEF Versions, Numbers, Names
<1>9. Back(br_name_to_br_id', br_id_to_br_name')
      /\ DOMAIN br_id_to_br_name' = DOMAIN all
  <2>. HIDE DEF f, g, all
  <2>1. Back(MapInsert(f, n, next_br_id), MapInsert(g, next_br_id, n))
    BY <1>1, <1>3, <1>8, InsertBack
  <2>2. DOMAIN MapInsert(g, next_br_id, n) = DOMAIN all
    BY <1>3, <1>4, <1>7 DEF MapInsert
  <2>. QED  BY <1>1, <2>1, <2>2
<1>. HIDE DEF all, kept, brs, f, g, gone
<1>10. next_br_id' \in Nat \ {0} /\ DOMAIN all \subseteq 0 .. next_br_id' - 1
  <2>1. next_br_id \in Nat \ {0} /\ DOMAIN br_id_to_br_name \subseteq 0 .. next_br_id - 1
    BY DEF Versions, Numbers, Names
  <2>. QED  BY <1>1, <1>4, <1>7, <2>1
<1>11. CASE br_to_its_vers' = all
            /\ UNCHANGED <<ver_to_change_set, ver_name_to_ver_id, ver_id_to_ver_name,
                           next_ver_id>>
  BY <1>1, <1>6, <1>9, <1>10, <1>11 DEF Moves, BranchesNext
<1>12. CASE /\ br_to_its_vers' = MapInsert(all, next_br_id, all[next_br_id] \cup {next_ver_id})
            /\ ver_to_change_set' = MapInsert(ver_to_change_set, next_ver_id, EmptyMap)
            /\ DOMAIN ver_id_to_ver_name' = DOMAIN ver_id_to_ver_name \cup {next_ver_id}
            /\ Back(ver_name_to_ver_id', ver_id_to_ver_name')
            /\ next_ver_id' = next_ver_id + 1
  <2>1. AllOf(br_to_its_vers') \subseteq AllOf(br_to_its_vers) \cup {next_ver_id}
    BY <1>5, <1>6, <1>7, <1>12, InsertAll
  <2>2. DOMAIN br_to_its_vers' = DOMAIN all
    BY <1>7, <1>12 DEF MapInsert
  <2>3. BranchesNext
    BY <1>9, <1>10, <2>2 DEF BranchesNext
  <2>. QED  BY <1>1, <1>12, <2>1, <2>3 DEF Creates
<1>13. next_br_id \in DOMAIN all
  BY <1>7
<1>. QED  BY <1>1, <1>11, <1>12, <1>13, AddVersionIs

-----------------------------------------------------------------------------
(* Starting, clearing and restarting.                                      *)

\* Nothing is in an instance that is empty.
Empty(brs, ids, names2, chg, kv) ==
    /\ brs = MapInsert(EmptyMap, 0, {})
    /\ chg = EmptyMap /\ kv = EmptyMap
    /\ ids = MapInsert(EmptyMap, 0, MASTER)
    /\ names2 = MapInsert(EmptyMap, MASTER, 0)

\* What is then true of it.
LEMMA EmptyIs ==
  ASSUME NEW brs, NEW ids, NEW names2, NEW chg, NEW kv, Empty(brs, ids, names2, chg, kv)
  PROVE  /\ DOMAIN brs = {0} /\ DOMAIN ids = {0} /\ Back(names2, ids)
         /\ AllOf(brs) = {} /\ DOMAIN chg = {}
         /\ TreesOf(chg) /\ Agrees(chg, kv)
         /\ \A S : LayersOf(kv, S) /\ MarksBeyond(chg, kv, S)
<1>1. DOMAIN EmptyMap = {}
  BY DEF EmptyMap
<1>2. DOMAIN brs = {0} /\ brs[0] = {}
  BY DEF Empty, EmptyMap, MapInsert
<1>3. DOMAIN ids = {0} /\ ids[0] = MASTER
  BY DEF Empty, EmptyMap, MapInsert
<1>4. DOMAIN names2 = {MASTER} /\ names2[MASTER] = 0
  BY DEF Empty, EmptyMap, MapInsert
<1>5. chg = EmptyMap /\ kv = EmptyMap
  BY DEF Empty
<1>6. kv = [k \in DOMAIN kv |-> kv[k]]
  BY <1>5 DEF EmptyMap
<1>7. Back(names2, ids)
  BY <1>3, <1>4 DEF Back, Range
<1>8. AllOf(brs) = {}
  BY <1>2 DEF AllOf, Range
<1>. QED  BY <1>1, <1>2, <1>3, <1>5, <1>6, <1>7, <1>8
          DEF TreesOf, Agrees, LayersOf, MarksBeyond

\* The initial state has the invariant.
LEMMA InitInv == Init => Inv
<1>. SUFFICES ASSUME Init PROVE Inv
  OBVIOUS
<1>1. /\ Empty(br_to_its_vers, br_id_to_br_name, br_name_to_br_id, ver_to_change_set, layered_kv)
      /\ ver_name_to_ver_id = EmptyMap /\ ver_id_to_ver_name = EmptyMap
      /\ next_br_id = 1 /\ next_ver_id = 0
  BY SameMaps DEF Init, Vs!Init, Vs!INITIAL_BRANCH_ID, Empty
<1>2. DOMAIN ver_id_to_ver_name = {} /\ Back(ver_name_to_ver_id, ver_id_to_ver_name)
  BY <1>1 DEF EmptyMap, Back, Range
<1>. QED  BY <1>1, <1>2, EmptyIs DEF Inv, Versions, Numbers, Names, Known, Data

\* Clearing keeps it.
LEMMA ClearKeeps ==
  ASSUME Inv, Clear
  PROVE  Inv'
<1>1. /\ Empty(br_to_its_vers', br_id_to_br_name', br_name_to_br_id', ver_to_change_set', layered_kv')
      /\ ver_name_to_ver_id' = EmptyMap /\ ver_id_to_ver_name' = EmptyMap
      /\ next_br_id' = next_br_id /\ next_ver_id' = next_ver_id
  BY SameMaps DEF Clear, Vs!Clear, Vs!INITIAL_BRANCH_ID, Empty
<1>2. DOMAIN ver_id_to_ver_name' = {} /\ Back(ver_name_to_ver_id', ver_id_to_ver_name')
  BY <1>1 DEF EmptyMap, Back, Range
<1>3. next_br_id \in Nat \ {0}
  BY DEF Inv, Versions, Numbers
<1>4. PICK brs, ids, names2, chg, kv :
        /\ brs = br_to_its_vers' /\ ids = br_id_to_br_name' /\ names2 = br_name_to_br_id'
        /\ chg = ver_to_change_set' /\ kv = layered_kv'
  OBVIOUS
<1>. QED  BY <1>1, <1>2, EmptyIs DEF Inv, Versions, Numbers, Names, Known, Data

-----------------------------------------------------------------------------
(***************************************************************************)
(* Calls that change data.                                                 *)
(***************************************************************************)
\* Such a call puts the values `new` of keys in version h, where those of `dead`
\* vanish at once, marks other keys deleted in the index, and drops versions S.
\* What trees and layers have after it is what they had and what was put.
Puts(S, h, new, dead) ==
    /\ DOMAIN new \subseteq Key
    /\ \A k \in DOMAIN new : new[k] \in Values
    /\ dead \subseteq DOMAIN new
    /\ DOMAIN ver_to_change_set' = DOMAIN ver_to_change_set \ S
    /\ \A v \in DOMAIN ver_to_change_set' :
         v # h => ver_to_change_set'[v] = ver_to_change_set[v]
    /\ h \in DOMAIN ver_to_change_set' =>
         /\ KeysOf(ver_to_change_set'[h]) =
              (KeysOf(ver_to_change_set[h]) \cup DOMAIN new) \ dead
         /\ \A k \in KeysOf(ver_to_change_set'[h]) :
              ver_to_change_set'[h][k] = IF k \in DOMAIN new THEN new[k]
                                         ELSE ver_to_change_set[h][k]

\* So the index.
PutsInLayers(S, h, new, dead) ==
    /\ LayersOf(layered_kv', 0 .. next_ver_id - 1)
    /\ \A k \in DOMAIN layered_kv : \A v \in DOMAIN layered_kv[k] \ S :
         \/ v = h /\ k \in DOMAIN new
         \/ k \in DOMAIN layered_kv' /\ v \in DOMAIN layered_kv'[k]
    /\ h \in DOMAIN ver_to_change_set' =>
         \A k \in DOMAIN new \ dead :
            k \in DOMAIN layered_kv' /\ h \in DOMAIN layered_kv'[k]
    /\ \A k \in DOMAIN layered_kv' : \A v \in DOMAIN layered_kv'[k] :
         \/ v = h /\ k \in DOMAIN new \ dead /\ layered_kv'[k][v] = new[k]
         \/ /\ v # h \/ k \notin DOMAIN new
            /\ k \in DOMAIN layered_kv /\ v \in DOMAIN layered_kv[k]
            /\ layered_kv'[k][v] = layered_kv[k][v]
         \/ /\ v = h /\ k \notin DOMAIN new /\ k \notin KeysOf(ver_to_change_set[h])
            /\ layered_kv'[k][v] = NULL

\* Such a call keeps what the invariant says of data.
LEMMA PutsKeep ==
  ASSUME Inv, NEW S, NEW h, NEW new, NEW dead,
         Puts(S, h, new, dead), PutsInLayers(S, h, new, dead),
         AllOf(br_to_its_vers') \subseteq AllOf(br_to_its_vers) \ S,
         next_ver_id' = next_ver_id
  PROVE  Data'
<1> DEFINE chg == ver_to_change_set
           cn  == ver_to_change_set'
           kv  == layered_kv
           kn  == layered_kv'
<1>1. TreesOf(cn)
  <2>. SUFFICES ASSUME NEW v \in DOMAIN cn, NEW k \in KeysOf(cn[v])
                PROVE  k \in Key /\ cn[v][k] \in Values
    BY DEF TreesOf
  <2>1. v \in DOMAIN chg
    BY DEF Puts
  <2>2. \A x \in KeysOf(chg[v]) : x \in Key /\ chg[v][x] \in Values
    BY <2>1 DEF Inv, Data, TreesOf
  <2>. QED  BY <2>2 DEF Puts
<1>2. LayersOf(kn, 0 .. next_ver_id' - 1)
  BY DEF PutsInLayers
<1>3. Agrees(cn, kn)
  <2>. SUFFICES ASSUME NEW v \in DOMAIN cn, NEW k \in KeysOf(cn[v])
                PROVE  k \in DOMAIN kn /\ v \in DOMAIN kn[k] /\ kn[k][v] = cn[v][k]
    BY DEF Agrees
  <2>1. v \in DOMAIN chg \ S
    BY DEF Puts
  <2>2. \A x \in KeysOf(chg[v]) :
           x \in DOMAIN kv /\ v \in DOMAIN kv[x] /\ kv[x][v] = chg[v][x]
    BY <2>1 DEF Inv, Data, Agrees
  <2>3. CASE v = h /\ k \in DOMAIN new
    BY <2>3 DEF Puts, PutsInLayers
  <2>4. CASE v # h \/ k \notin DOMAIN new
    <3>1. k \in KeysOf(chg[v]) /\ cn[v][k] = chg[v][k]
      BY <2>4 DEF Puts
    <3>2. k \in DOMAIN kv /\ v \in DOMAIN kv[k] /\ kv[k][v] = chg[v][k]
      BY <2>2, <3>1
    <3>3. k \in DOMAIN kn /\ v \in DOMAIN kn[k]
      BY <2>1, <2>4, <3>2 DEF PutsInLayers
    <3>. QED  BY <2>4, <3>1, <3>2, <3>3 DEF PutsInLayers
  <2>. QED  BY <2>3, <2>4
<1>4. MarksBeyond(cn, kn, AllOf(br_to_its_vers'))
  <2>. SUFFICES ASSUME NEW k \in DOMAIN kn, NEW v \in DOMAIN kn[k] \cap AllOf(br_to_its_vers')
                PROVE  k \in KeysOf(cn[v]) \/ kn[k][v] = NULL
    BY DEF MarksBeyond
  <2>1. v \in AllOf(br_to_its_vers) /\ v \in DOMAIN cn
    BY DEF Puts, Inv, Versions, Known
  <2>2. k \in DOMAIN kv /\ v \in DOMAIN kv[k] => k \in KeysOf(chg[v]) \/ kv[k][v] = NULL
    BY <2>1 DEF Inv, Data, MarksBeyond
  <2>3. CASE v = h /\ k \in DOMAIN new \ dead
    BY <2>1, <2>3 DEF Puts
  <2>4. CASE /\ v # h \/ k \notin DOMAIN new
             /\ k \in DOMAIN kv /\ v \in DOMAIN kv[k] /\ kn[k][v] = kv[k][v]
    BY <2>1, <2>2, <2>4 DEF Puts
  <2>. QED  BY <2>3, <2>4 DEF PutsInLayers
<1>. QED  BY <1>1, <1>2, <1>3, <1>4 DEF Data

-----------------------------------------------------------------------------
(* Writing and removing. *)

\* What stays when a call writes: branches, versions and their names.
LEMMA WritesKeep ==
  ASSUME Inv, NEW h \in AllOf(br_to_its_vers), NEW new,
         Puts({}, h, new, {}), PutsInLayers({}, h, new, {}),
         UNCHANGED <<default_branch, names, br_to_its_vers, next_br_id, next_ver_id>>
  PROVE  Inv'
<1>1. UNCHANGED <<br_name_to_br_id, br_id_to_br_name, ver_name_to_ver_id,
                  ver_id_to_ver_name, br_to_its_vers, next_br_id, next_ver_id>>
  BY DEF names
<1>2. Data'
  BY <1>1, PutsKeep
<1>3. Numbers' /\ Names' /\ Known'
  BY <1>1 DEF Inv, Versions, Numbers, Names, Known, Puts, Back
<1>. QED  BY <1>2, <1>3 DEF Inv, Versions

\* Values put in the tree of one version.
LEMMA PutsInTree ==
  ASSUME NEW h \in DOMAIN ver_to_change_set, NEW new, DOMAIN new \subseteq Key,
         \A k \in DOMAIN new : new[k] \in Values,
         ver_to_change_set' =
           [ver_to_change_set EXCEPT ![h] = MkInsert(ver_to_change_set[h], new)]
  PROVE  Puts({}, h, new, {})
<1>1. /\ DOMAIN ver_to_change_set' = DOMAIN ver_to_change_set
      /\ ver_to_change_set'[h] = MkInsert(ver_to_change_set[h], new)
      /\ \A v \in DOMAIN ver_to_change_set :
           v # h => ver_to_change_set'[v] = ver_to_change_set[v]
  OBVIOUS
<1>. QED  BY <1>1, InsertKeys DEF Puts

\* The newest version of a branch has a change set.
LEMMA NewestKnown ==
  ASSUME Inv, NEW b, NEW h \in Newest(b)
  PROVE  /\ h \in AllOf(br_to_its_vers) /\ h \in DOMAIN ver_to_change_set
         /\ h \in 0 .. next_ver_id - 1
<1>1. h \in AllOf(br_to_its_vers)
  BY VersAre DEF Newest
<1>. QED  BY <1>1 DEF Inv, Versions, Numbers, Known

\* Writing one key.
LEMMA WriteKeeps ==
  ASSUME Inv, NEW b, NEW h \in Newest(b), NEW k \in Key, NEW x \in Values, Write(k, x, h)
  PROVE  Inv'
<1> DEFINE new  == [key \in {k} |-> x]
           row  == Vs!KeyVers(k)
           row2 == MapInsert(row, h, x)
<1>1. /\ h \in AllOf(br_to_its_vers) /\ h \in DOMAIN ver_to_change_set
      /\ h \in 0 .. next_ver_id - 1
  BY NewestKnown
<1>2. DOMAIN new = {k} /\ new[k] = x
  OBVIOUS
<1>3. /\ ver_to_change_set' =
           [ver_to_change_set EXCEPT ![h] = MkInsert(ver_to_change_set[h], new)]
      /\ layered_kv' = MapInsert(layered_kv, k, row2)
      /\ UNCHANGED <<default_branch, names, br_to_its_vers, next_br_id, next_ver_id>>
  BY DEF Write, ChangeTo
<1>4. row = IF k \in DOMAIN layered_kv THEN layered_kv[k] ELSE EmptyMap
  BY SameMaps DEF Vs!KeyVers
<1>5. IsMap(row, 0 .. next_ver_id - 1, Values)
  <2>1. LayersOf(layered_kv, 0 .. next_ver_id - 1)
    BY DEF Inv, Data
  <2>. QED  BY <1>4, <2>1, EmptyIsMap DEF LayersOf
<1>. HIDE DEF new, row, row2
<1>6. /\ IsMap(row2, 0 .. next_ver_id - 1, Values)
      /\ DOMAIN row2 = DOMAIN row \cup {h}
      /\ row2[h] = x
      /\ \A v \in DOMAIN row : v # h => row2[v] = row[v]
  BY <1>1, <1>5 DEF row2, IsMap, MapInsert
<1>7. /\ DOMAIN layered_kv' = DOMAIN layered_kv \cup {k}
      /\ layered_kv' = [y \in DOMAIN layered_kv' |-> layered_kv'[y]]
      /\ layered_kv'[k] = row2
      /\ \A y \in DOMAIN layered_kv : y # k => layered_kv'[y] = layered_kv[y]
  BY <1>3 DEF MapInsert
<1>8. LayersOf(layered_kv', 0 .. next_ver_id - 1)
  BY <1>6, <1>7 DEF LayersOf, Inv, Data
<1>9. \A v \in DOMAIN row : k \in DOMAIN layered_kv /\ v \in DOMAIN layered_kv[k]
                            /\ row[v] = layered_kv[k][v]
  BY <1>4 DEF EmptyMap
<1>10. k \in DOMAIN layered_kv => row = layered_kv[k]
  BY <1>4
<1>11. PutsInLayers({}, h, new, {})
  <2>1. \A y \in DOMAIN layered_kv : \A v \in DOMAIN layered_kv[y] :
           y \in DOMAIN layered_kv' /\ v \in DOMAIN layered_kv'[y]
    BY <1>6, <1>7, <1>10
  <2>2. k \in DOMAIN layered_kv' /\ h \in DOMAIN layered_kv'[k]
    BY <1>6, <1>7
  <2>3. \A y \in DOMAIN layered_kv' : \A v \in DOMAIN layered_kv'[y] :
          \/ v = h /\ y \in DOMAIN new \ {} /\ layered_kv'[y][v] = new[y]
          \/ /\ v # h \/ y \notin DOMAIN new
             /\ y \in DOMAIN layered_kv /\ v \in DOMAIN layered_kv[y]
             /\ layered_kv'[y][v] = layered_kv[y][v]
    BY <1>2, <1>6, <1>7, <1>9
  <2>. QED  BY <1>2, <1>8, <2>1, <2>2, <2>3 DEF PutsInLayers
<1>12. Puts({}, h, new, {})
  BY <1>1, <1>2, <1>3, PutsInTree
<1>. QED  BY <1>1, <1>3, <1>11, <1>12, WritesKeep

\* Removing all keys under a prefix.
LEMMA BatchKeeps ==
  ASSUME Inv, NEW b, NEW p, BatchRemove(b, p)
  PROVE  Inv'
<1>1. PICK h \in Newest(b) :
        /\ UNCHANGED <<default_branch, names, br_to_its_vers, next_br_id, next_ver_id>>
        /\ ver_to_change_set' =
             [ver_to_change_set EXCEPT ![h] =
                MkInsert(@, [k \in MkKeysUnder(@, key_size, p) |-> NULL])]
        /\ layered_kv' = Marked(p, h)
  BY DEF BatchRemove, ChangeTo
<1>2. /\ h \in AllOf(br_to_its_vers) /\ h \in DOMAIN ver_to_change_set
      /\ h \in 0 .. next_ver_id - 1
  BY NewestKnown
<1> DEFINE under == MkKeysUnder(ver_to_change_set[h], key_size, p)
           new   == [k \in under |-> NULL]
<1>3. ver_to_change_set' =
        [ver_to_change_set EXCEPT ![h] = MkInsert(ver_to_change_set[h], new)]
  BY <1>1
<1>4. DOMAIN new = under /\ \A k \in under : new[k] = NULL
  OBVIOUS
<1>5. under = {k \in KeysOf(ver_to_change_set[h]) : StartsWith(k, p)}
  BY DEF MkKeysUnder, KeysOf
<1>6. under \subseteq Key
  BY <1>2, <1>5 DEF Inv, Data, TreesOf
<1>7. LayersOf(layered_kv, 0 .. next_ver_id - 1)
  BY DEF Inv, Data
<1>8. /\ DOMAIN layered_kv' = DOMAIN layered_kv
      /\ layered_kv' = [k \in DOMAIN layered_kv' |-> layered_kv'[k]]
      /\ \A k \in DOMAIN layered_kv :
           layered_kv'[k] = IF StartsWith(k, p) THEN MapInsert(layered_kv[k], h, NULL)
                                                ELSE layered_kv[k]
  BY <1>1 DEF Marked
<1>. HIDE DEF under, new
<1>9. ASSUME NEW k \in DOMAIN layered_kv
      PROVE  LET row == MapInsert(layered_kv[k], h, NULL)
             IN  /\ IsMap(row, 0 .. next_ver_id - 1, Values)
                 /\ DOMAIN row = DOMAIN layered_kv[k] \cup {h}
                 /\ \A v \in DOMAIN row : row[v] = IF v = h THEN NULL ELSE layered_kv[k][v]
  <2>1. IsMap(layered_kv[k], 0 .. next_ver_id - 1, Values) /\ NULL \in Values
    BY <1>7 DEF LayersOf, Values
  <2>. QED  BY <1>2, <2>1 DEF IsMap, MapInsert
<1>10. LayersOf(layered_kv', 0 .. next_ver_id - 1)
  BY <1>7, <1>8, <1>9, ZenonT(60) DEF LayersOf
<1>11. Puts({}, h, new, {})
  <2>1. \A k \in DOMAIN new : new[k] \in Values
    BY <1>4 DEF Values
  <2>. QED  BY <1>2, <1>3, <1>4, <1>6, <2>1, PutsInTree
<1>12. PutsInLayers({}, h, new, {})
  <2>1. \A k \in DOMAIN layered_kv : \A v \in DOMAIN layered_kv[k] :
           k \in DOMAIN layered_kv' /\ v \in DOMAIN layered_kv'[k]
    BY <1>8, <1>9
  <2>2. \A k \in DOMAIN new : k \in DOMAIN layered_kv' /\ h \in DOMAIN layered_kv'[k]
    <3>1. \A k \in under : k \in DOMAIN layered_kv /\ h \in DOMAIN layered_kv[k]
      BY <1>2, <1>5 DEF Inv, Data, Agrees
    <3>. QED  BY <1>4, <2>1, <3>1
  <2>3. ASSUME NEW k \in DOMAIN layered_kv', NEW v \in DOMAIN layered_kv'[k]
        PROVE  \/ v = h /\ k \in DOMAIN new \ {} /\ layered_kv'[k][v] = new[k]
               \/ /\ v # h \/ k \notin DOMAIN new
                  /\ k \in DOMAIN layered_kv /\ v \in DOMAIN layered_kv[k]
                  /\ layered_kv'[k][v] = layered_kv[k][v]
               \/ /\ v = h /\ k \notin DOMAIN new /\ k \notin KeysOf(ver_to_change_set[h])
                  /\ layered_kv'[k][v] = NULL
    <3>1. CASE StartsWith(k, p)
      <4>1. /\ DOMAIN layered_kv'[k] = DOMAIN layered_kv[k] \cup {h}
            /\ layered_kv'[k][v] = IF v = h THEN NULL ELSE layered_kv[k][v]
        BY <1>8, <1>9, <3>1, ZenonT(60)
      <4>. QED  BY <1>4, <1>5, <1>8, <3>1, <4>1
    <3>2. CASE ~StartsWith(k, p)
      BY <1>4, <1>5, <1>8, <3>2
    <3>. QED  BY <3>1, <3>2
  <2>. QED  BY <1>10, <2>1, <2>2, <2>3 DEF PutsInLayers
<1>. QED  BY <1>1, <1>2, <1>11, <1>12, WritesKeep

-----------------------------------------------------------------------------
(* Dropping versions. *)

\* What stays true of branches and versions when a call drops versions S of the
\* change sets, and forgets the names of some of them.
LEMMA DropKeepsVersions ==
  ASSUME Versions, BranchesNext, NEW S, NEW O \in SUBSET (S \cap DOMAIN ver_to_change_set),
         DOMAIN ver_to_change_set' = DOMAIN ver_to_change_set \ S,
         AllOf(br_to_its_vers') \subseteq AllOf(br_to_its_vers) \ S,
         Vs!ForgetVersions(O), next_ver_id' = next_ver_id
  PROVE  Versions'
<1>1. O \in SUBSET DOMAIN ver_id_to_ver_name
  BY DEF Versions, Known
<1>2. /\ ver_id_to_ver_name' = MapRemove(ver_id_to_ver_name, O)
      /\ ver_name_to_ver_id' =
           MapRemove(ver_name_to_ver_id, {ver_id_to_ver_name[v] : v \in O})
  BY SameMaps DEF Vs!ForgetVersions
<1>3. Back(ver_name_to_ver_id', ver_id_to_ver_name')
  BY <1>1, <1>2, RemoveBack DEF Versions, Names
<1>4. DOMAIN ver_id_to_ver_name' = DOMAIN ver_id_to_ver_name \ O
  BY <1>2 DEF MapRemove, Restrict
<1>5. Numbers' /\ Names'
  BY <1>3, <1>4 DEF BranchesNext, Versions, Numbers, Names
<1>6. Known'
  BY <1>4 DEF Versions, Known
<1>. QED  BY <1>5, <1>6 DEF Versions

\* So of all of the invariant.
LEMMA DropKeeps ==
  ASSUME Inv, BranchesNext, NEW S, NEW O \in SUBSET (S \cap DOMAIN ver_to_change_set),
         NEW h, NEW new, NEW dead, Puts(S, h, new, dead), PutsInLayers(S, h, new, dead),
         AllOf(br_to_its_vers') \subseteq AllOf(br_to_its_vers) \ S,
         Vs!ForgetVersions(O), next_ver_id' = next_ver_id
  PROVE  Inv'
<1>1. Versions'
  BY DropKeepsVersions DEF Inv, Puts
<1>2. Data'
  BY PutsKeep
<1>. QED  BY <1>1, <1>2 DEF Inv

\* Layers without some of their versions.
LEMMA LessLayers ==
  ASSUME NEW kv, NEW ids, LayersOf(kv, ids), NEW kn,
         DOMAIN kn \subseteq DOMAIN kv, kn = [k \in DOMAIN kn |-> kn[k]],
         \A k \in DOMAIN kn : \E T : kn[k] = MapRemove(kv[k], T)
  PROVE  LayersOf(kn, ids)
<1>. SUFFICES ASSUME NEW k \in DOMAIN kn PROVE IsMap(kn[k], ids, Values)
  BY DEF LayersOf
<1>1. PICK T : kn[k] = MapRemove(kv[k], T)
  OBVIOUS
<1>2. IsMap(kv[k], ids, Values)
  BY DEF LayersOf
<1>. QED  BY <1>1, <1>2 DEF IsMap, MapRemove, Restrict

\* Calls that only drop versions S: trees and layers are as they were without
\* what S changed.
Drops(S) ==
    /\ S \subseteq DOMAIN ver_to_change_set
    /\ ver_to_change_set' = MapRemove(ver_to_change_set, S)
    /\ LayersOf(layered_kv', 0 .. next_ver_id - 1)
    /\ DOMAIN layered_kv' \subseteq DOMAIN layered_kv
    /\ \A k \in DOMAIN layered_kv' :
         /\ DOMAIN layered_kv'[k] \subseteq DOMAIN layered_kv[k]
         /\ \A v \in DOMAIN layered_kv'[k] : layered_kv'[k][v] = layered_kv[k][v]
    /\ \A k \in DOMAIN layered_kv : \A v \in DOMAIN layered_kv[k] \ S :
         k \in DOMAIN layered_kv' /\ v \in DOMAIN layered_kv'[k]

\* They put nothing in any version.
LEMMA DropsPuts ==
  ASSUME NEW S, Drops(S), NEW h
  PROVE  Puts(S, h, [k \in {} |-> NULL], {}) /\ PutsInLayers(S, h, [k \in {} |-> NULL], {})
<1>1. PICK new : new = [k \in {} |-> NULL]
  OBVIOUS
<1>2. \A k : k \notin DOMAIN new
  BY <1>1
<1>3. /\ DOMAIN ver_to_change_set' = DOMAIN ver_to_change_set \ S
      /\ \A v \in DOMAIN ver_to_change_set' : ver_to_change_set'[v] = ver_to_change_set[v]
  BY DEF Drops, MapRemove, Restrict
<1>4. Puts(S, h, new, {})
  BY <1>2, <1>3 DEF Puts
<1>5. PutsInLayers(S, h, new, {})
  BY <1>2 DEF PutsInLayers, Drops
<1>. QED  BY <1>1, <1>4, <1>5

\* The layers that a purge of versions O leaves.
LEMMA PurgedIs ==
  ASSUME Inv, NEW O \in SUBSET DOMAIN ver_to_change_set
  PROVE  LET kv == Vs!PurgedKv(O)
         IN  /\ LayersOf(kv, 0 .. next_ver_id - 1)
             /\ DOMAIN kv \subseteq DOMAIN layered_kv
             /\ \A k \in DOMAIN kv :
                  /\ DOMAIN kv[k] \subseteq DOMAIN layered_kv[k]
                  /\ \A v \in DOMAIN kv[k] : kv[k][v] = layered_kv[k][v]
             /\ \A k \in DOMAIN layered_kv : \A v \in DOMAIN layered_kv[k] \ O :
                  k \in DOMAIN kv /\ v \in DOMAIN kv[k]
<1>1. PICK kv : kv = Vs!PurgedKv(O)
  OBVIOUS
<1> DEFINE gone(k) == {v \in O : k \in changed[v]}
<1>2. /\ DOMAIN kv = {k \in DOMAIN layered_kv :
                         k \in Vs!Changed(O) => DOMAIN MapRemove(layered_kv[k], gone(k)) # {}}
      /\ kv = [k \in DOMAIN kv |-> kv[k]]
      /\ \A k \in DOMAIN kv : kv[k] = MapRemove(layered_kv[k], gone(k))
  BY <1>1, SameMaps DEF Vs!PurgedKv, Vs!PurgedVers
<1>3. \A k : gone(k) \subseteq O
  OBVIOUS
<1>. HIDE DEF gone
<1>4. ASSUME NEW k \in DOMAIN layered_kv
      PROVE  LET row == MapRemove(layered_kv[k], gone(k))
             IN  /\ DOMAIN row = DOMAIN layered_kv[k] \ gone(k)
                 /\ \A v \in DOMAIN row : row[v] = layered_kv[k][v]
  BY DEF MapRemove, Restrict
<1>5. LayersOf(layered_kv, 0 .. next_ver_id - 1)
  BY DEF Inv, Data
<1>6. LayersOf(kv, 0 .. next_ver_id - 1)
  <2>1. DOMAIN kv \subseteq DOMAIN layered_kv /\ kv = [k \in DOMAIN kv |-> kv[k]]
    BY <1>2
  <2>2. \A k \in DOMAIN kv : \E T : kv[k] = MapRemove(layered_kv[k], T)
    BY <1>2
  <2>3. PICK ids : ids = 0 .. next_ver_id - 1
    OBVIOUS
  <2>4. LayersOf(layered_kv, ids)
    BY <1>5, <2>3
  <2>5. LayersOf(kv, ids)
    BY <2>1, <2>2, <2>4, LessLayers
  <2>. QED  BY <2>3, <2>5
<1>7. \A k \in DOMAIN layered_kv : \A v \in DOMAIN layered_kv[k] \ O :
         k \in DOMAIN kv /\ v \in DOMAIN kv[k]
  BY <1>2, <1>3, <1>4
<1>8. \A k \in DOMAIN kv : /\ k \in DOMAIN layered_kv
                           /\ DOMAIN kv[k] \subseteq DOMAIN layered_kv[k]
                           /\ \A v \in DOMAIN kv[k] : kv[k][v] = layered_kv[k][v]
  BY <1>2, <1>4
<1>. QED  BY <1>1, <1>6, <1>7, <1>8

\* Reverting a version drops it.
LEMMA RevertDrops ==
  ASSUME Inv, NEW v, VersionRevert(v)
  PROVE  /\ Drops({v})
         /\ DOMAIN br_to_its_vers' = DOMAIN br_to_its_vers
         /\ \A b \in DOMAIN br_to_its_vers : br_to_its_vers'[b] = br_to_its_vers[b] \ {v}
         /\ Vs!ForgetVersions({v})
         /\ UNCHANGED <<br_name_to_br_id, br_id_to_br_name, next_br_id, next_ver_id>>
<1>1. /\ v \in DOMAIN changed
      /\ layered_kv' = [k \in DOMAIN layered_kv |->
                          IF k \in changed[v]
                          THEN MapRemove(layered_kv[k], {v}) ELSE layered_kv[k]]
      /\ ver_to_change_set' = MapRemove(ver_to_change_set, {v})
      /\ br_to_its_vers' = [b \in DOMAIN br_to_its_vers |-> br_to_its_vers[b] \ {v}]
      /\ Vs!ForgetVersions({v})
      /\ UNCHANGED <<br_name_to_br_id, br_id_to_br_name, next_br_id, next_ver_id>>
  BY SameMaps DEF VersionRevert, Vs!VersionRevert, Forget, Vs!brNames
<1>2. v \in DOMAIN ver_to_change_set
  BY <1>1, ChangedIs
<1>3. \A k \in DOMAIN layered_kv :
        /\ DOMAIN MapRemove(layered_kv[k], {v}) = DOMAIN layered_kv[k] \ {v}
        /\ \A w \in DOMAIN layered_kv[k] \ {v} :
             MapRemove(layered_kv[k], {v})[w] = layered_kv[k][w]
  BY DEF MapRemove, Restrict
<1>4. /\ DOMAIN layered_kv' = DOMAIN layered_kv
      /\ layered_kv' = [k \in DOMAIN layered_kv' |-> layered_kv'[k]]
      /\ \A k \in DOMAIN layered_kv :
           layered_kv'[k] = IF k \in changed[v] THEN MapRemove(layered_kv[k], {v})
                                                ELSE layered_kv[k]
  BY <1>1
<1>5. LayersOf(layered_kv', 0 .. next_ver_id - 1)
  <2>1. LayersOf(layered_kv, 0 .. next_ver_id - 1)
    BY DEF Inv, Data
  <2>2. \A k \in DOMAIN layered_kv :
          IsMap(layered_kv[k], 0 .. next_ver_id - 1, Values) =>
            IsMap(MapRemove(layered_kv[k], {v}), 0 .. next_ver_id - 1, Values)
    BY DEF IsMap, MapRemove, Restrict
  <2>. QED  BY <1>4, <2>1, <2>2 DEF LayersOf
<1>6. Drops({v})
  <2>1. \A k \in DOMAIN layered_kv :
          /\ DOMAIN layered_kv'[k] \subseteq DOMAIN layered_kv[k]
          /\ \A w \in DOMAIN layered_kv'[k] : layered_kv'[k][w] = layered_kv[k][w]
          /\ DOMAIN layered_kv[k] \ {v} \subseteq DOMAIN layered_kv'[k]
    BY <1>3, <1>4
  <2>. QED  BY <1>1, <1>2, <1>4, <1>5, <2>1 DEF Drops
<1>. QED  BY <1>1, <1>6

\* Reverting keeps the invariant.
LEMMA RevertKeeps ==
  ASSUME Inv, NEW v, VersionRevert(v)
  PROVE  Inv'
<1>1. /\ Drops({v})
      /\ DOMAIN br_to_its_vers' = DOMAIN br_to_its_vers
      /\ \A b \in DOMAIN br_to_its_vers : br_to_its_vers'[b] = br_to_its_vers[b] \ {v}
      /\ Vs!ForgetVersions({v})
      /\ UNCHANGED <<br_name_to_br_id, br_id_to_br_name, next_br_id, next_ver_id>>
  BY RevertDrops
<1>2. AllOf(br_to_its_vers') \subseteq AllOf(br_to_its_vers) \ {v}
  BY <1>1 DEF AllOf, Range
<1>3. BranchesNext
  BY <1>1 DEF BranchesNext, Inv, Versions, Numbers, Names, Back
<1>4. {v} \in SUBSET ({v} \cap DOMAIN ver_to_change_set)
  BY <1>1 DEF Drops
<1>5. PICK new, dead : Puts({v}, v, new, dead) /\ PutsInLayers({v}, v, new, dead)
  BY <1>1, DropsPuts
<1>. QED  BY <1>1, <1>2, <1>3, <1>4, <1>5, DropKeeps

\* Cleaning up, and keeping some branches only, drop the versions on no branch.
LEMMA PurgeDrops ==
  ASSUME Inv, CleanUp \/ \E keep : BranchKeepOnly(keep)
  PROVE  \E O : /\ Drops(O)
                /\ AllOf(br_to_its_vers') \subseteq AllOf(br_to_its_vers) \ O
                /\ DOMAIN br_to_its_vers' \subseteq DOMAIN br_to_its_vers
                /\ \A b \in DOMAIN br_to_its_vers' : br_to_its_vers'[b] = br_to_its_vers[b]
                /\ DOMAIN br_id_to_br_name' = DOMAIN br_to_its_vers'
                /\ Back(br_name_to_br_id', br_id_to_br_name')
                /\ Vs!ForgetVersions(O)
                /\ UNCHANGED <<next_br_id, next_ver_id>>
<1>1. ASSUME NEW brs, AllOf(brs) \subseteq AllOf(br_to_its_vers),
             layered_kv' = Vs!PurgedKv(Vs!Orphans(brs)), Forget(Vs!Orphans(brs))
      PROVE  /\ Drops(Vs!Orphans(brs))
             /\ AllOf(brs) \subseteq AllOf(br_to_its_vers) \ Vs!Orphans(brs)
  <2>1. Vs!Orphans(brs) = DOMAIN ver_to_change_set \ AllOf(brs)
    BY SameMaps, ChangedIs DEF Vs!Orphans
  <2>2. PICK O \in SUBSET DOMAIN ver_to_change_set : O = Vs!Orphans(brs)
    BY <2>1
  <2>3. PICK kv : kv = Vs!PurgedKv(O)
    OBVIOUS
  <2>4. /\ LayersOf(kv, 0 .. next_ver_id - 1)
        /\ DOMAIN kv \subseteq DOMAIN layered_kv
        /\ \A k \in DOMAIN kv :
             /\ DOMAIN kv[k] \subseteq DOMAIN layered_kv[k]
             /\ \A v \in DOMAIN kv[k] : kv[k][v] = layered_kv[k][v]
        /\ \A k \in DOMAIN layered_kv : \A v \in DOMAIN layered_kv[k] \ O :
             k \in DOMAIN kv /\ v \in DOMAIN kv[k]
    BY <2>3, PurgedIs
  <2>5. layered_kv' = kv /\ ver_to_change_set' = MapRemove(ver_to_change_set, O)
    BY <1>1, <2>2, <2>3 DEF Forget
  <2>6. Drops(O)
    BY <2>4, <2>5 DEF Drops
  <2>. QED  BY <1>1, <2>1, <2>2, <2>6
<1>2. CASE CleanUp
  <2>1. /\ Forget(Vs!Orphans(br_to_its_vers))
        /\ layered_kv' = Vs!PurgedKv(Vs!Orphans(br_to_its_vers))
        /\ Vs!ForgetVersions(Vs!Orphans(br_to_its_vers))
        /\ UNCHANGED <<br_name_to_br_id, br_id_to_br_name, br_to_its_vers,
                       next_br_id, next_ver_id>>
    BY <1>2 DEF CleanUp, Vs!CleanUp, Vs!Purge, Vs!brNames
  <2>2. /\ Drops(Vs!Orphans(br_to_its_vers))
        /\ AllOf(br_to_its_vers) \subseteq
             AllOf(br_to_its_vers) \ Vs!Orphans(br_to_its_vers)
    BY <1>1, <2>1
  <2>3. /\ DOMAIN br_id_to_br_name' = DOMAIN br_to_its_vers'
        /\ Back(br_name_to_br_id', br_id_to_br_name')
    BY <2>1 DEF Inv, Versions, Names, Back
  <2>. QED  BY <2>1, <2>2, <2>3
<1>3. ASSUME NEW keep, BranchKeepOnly(keep)
      PROVE  \E O : /\ Drops(O)
                    /\ AllOf(br_to_its_vers') \subseteq AllOf(br_to_its_vers) \ O
                    /\ DOMAIN br_to_its_vers' \subseteq DOMAIN br_to_its_vers
                    /\ \A b \in DOMAIN br_to_its_vers' :
                         br_to_its_vers'[b] = br_to_its_vers[b]
                    /\ DOMAIN br_id_to_br_name' = DOMAIN br_to_its_vers'
                    /\ Back(br_name_to_br_id', br_id_to_br_name')
                    /\ Vs!ForgetVersions(O)
                    /\ UNCHANGED <<next_br_id, next_ver_id>>
  <2>1. PICK gone : gone = DOMAIN br_id_to_br_name \ keep
    OBVIOUS
  <2>2. /\ Forget(Vs!Orphans(MapRemove(br_to_its_vers, gone)))
        /\ Vs!RemoveBranches(gone)
        /\ layered_kv' = Vs!PurgedKv(Vs!Orphans(MapRemove(br_to_its_vers, gone)))
        /\ Vs!ForgetVersions(Vs!Orphans(MapRemove(br_to_its_vers, gone)))
        /\ UNCHANGED <<next_br_id, next_ver_id>>
    BY <1>3, <2>1, SameMaps DEF BranchKeepOnly, Vs!BranchKeepOnly, Vs!Purge
  <2>3. /\ br_to_its_vers' = MapRemove(br_to_its_vers, gone)
        /\ DOMAIN br_id_to_br_name' = DOMAIN br_to_its_vers'
        /\ Back(br_name_to_br_id', br_id_to_br_name')
    BY <2>2, RemoveNamesOf DEF Inv
  <2>4. /\ Drops(Vs!Orphans(MapRemove(br_to_its_vers, gone)))
        /\ AllOf(MapRemove(br_to_its_vers, gone)) \subseteq
             AllOf(br_to_its_vers) \ Vs!Orphans(MapRemove(br_to_its_vers, gone))
    BY <1>1, <2>2, RemoveAll
  <2>5. /\ DOMAIN br_to_its_vers' \subseteq DOMAIN br_to_its_vers
        /\ \A b \in DOMAIN br_to_its_vers' : br_to_its_vers'[b] = br_to_its_vers[b]
    BY <2>3, RemoveKeeps
  <2>. QED  BY <2>2, <2>3, <2>4, <2>5
<1>. QED  BY <1>2, <1>3

\* So they keep the invariant.
LEMMA PurgeKeeps ==
  ASSUME Inv, CleanUp \/ \E keep : BranchKeepOnly(keep)
  PROVE  Inv'
<1>1. PICK O : /\ Drops(O)
               /\ AllOf(br_to_its_vers') \subseteq AllOf(br_to_its_vers) \ O
               /\ DOMAIN br_to_its_vers' \subseteq DOMAIN br_to_its_vers
               /\ DOMAIN br_id_to_br_name' = DOMAIN br_to_its_vers'
               /\ Back(br_name_to_br_id', br_id_to_br_name')
               /\ Vs!ForgetVersions(O)
               /\ UNCHANGED <<next_br_id, next_ver_id>>
  BY PurgeDrops
<1>2. BranchesNext
  BY <1>1 DEF BranchesNext, Inv, Versions, Numbers
<1>3. O \in SUBSET (O \cap DOMAIN ver_to_change_set)
  BY <1>1 DEF Drops
<1>4. PICK new, dead : Puts(O, 0, new, dead) /\ PutsInLayers(O, 0, new, dead)
  BY <1>1, DropsPuts
<1>. QED  BY <1>1, <1>2, <1>3, <1>4, DropKeeps

-----------------------------------------------------------------------------
(* Joining versions: rebase and prune. *)

\* The keys that versions F changed, and the values they give them together.
KeysIn(F)  == UNION {changed[v] : v \in F}
LastIn(F)  == [k \in KeysIn(F) |-> LastValue(F, k)]
With(F, k) == {v \in F : k \in changed[v]}

\* Versions with change sets are numbers below the allocator.
LEMMA VersionNumbers ==
  ASSUME Versions
  PROVE  /\ next_ver_id \in Nat
         /\ DOMAIN ver_to_change_set \subseteq 0 .. next_ver_id - 1
         /\ AllOf(br_to_its_vers) \subseteq DOMAIN ver_to_change_set
  BY DEF Versions, Numbers, Known

\* The value of a key is the one of the newest version that changed it.
LEMMA LastIs ==
  ASSUME Inv, NEW F \in SUBSET DOMAIN ver_to_change_set, NEW k \in KeysIn(F)
  PROVE  \E u \in With(F, k) :
            /\ \A v \in With(F, k) : v <= u
            /\ Max(With(F, k)) = u
            /\ LastValue(F, k) = ver_to_change_set[u][k]
            /\ k \in KeysOf(ver_to_change_set[u])
            /\ k \in Key /\ LastValue(F, k) \in Values
            /\ k \in DOMAIN layered_kv /\ u \in DOMAIN layered_kv[k]
            /\ layered_kv[k][u] = LastValue(F, k)
<1>1. /\ next_ver_id \in Nat
      /\ DOMAIN ver_to_change_set \subseteq 0 .. next_ver_id - 1
  BY VersionNumbers DEF Inv
<1>2. With(F, k) # {} /\ With(F, k) \subseteq DOMAIN ver_to_change_set
  BY DEF With, KeysIn
<1>3. PICK W : W = With(F, k)
  OBVIOUS
<1>4. W \in SUBSET (0 .. next_ver_id) /\ W # {}
  BY <1>1, <1>2, <1>3
<1>5. Max(W) \in W /\ \A v \in W : v <= Max(W)
  BY <1>1, <1>4, MaxInSet
<1>6. PICK u \in W : u = Max(W)
  BY <1>5
<1>7. k \in KeysOf(ver_to_change_set[u]) /\ u \in DOMAIN ver_to_change_set
  BY <1>2, <1>3, ChangedIs DEF With
<1>8. LastValue(F, k) = ChangedTo(u, k)
  BY <1>3, <1>6 DEF LastValue, With
<1>9. LastValue(F, k) = ver_to_change_set[u][k]
  BY <1>7, <1>8, ChangedToIs
<1>10. k \in Key /\ ver_to_change_set[u][k] \in Values
  BY <1>7 DEF Inv, Data, TreesOf
<1>11. /\ k \in DOMAIN layered_kv /\ u \in DOMAIN layered_kv[k]
       /\ layered_kv[k][u] = ver_to_change_set[u][k]
  BY <1>7 DEF Inv, Data, Agrees
<1>. QED  BY <1>3, <1>5, <1>6, <1>7, <1>9, <1>10, <1>11

\* They are values of keys.
LEMMA LastInIs ==
  ASSUME Inv, NEW F \in SUBSET DOMAIN ver_to_change_set
  PROVE  /\ DOMAIN LastIn(F) = KeysIn(F)
         /\ KeysIn(F) \subseteq Key
         /\ \A k \in KeysIn(F) : LastIn(F)[k] = LastValue(F, k) /\ LastIn(F)[k] \in Values
<1>1. DOMAIN LastIn(F) = KeysIn(F) /\ \A k \in KeysIn(F) : LastIn(F)[k] = LastValue(F, k)
  BY DEF LastIn
<1>2. \A k \in KeysIn(F) : k \in Key /\ LastValue(F, k) \in Values
  BY LastIs
<1>. QED  BY <1>1, <1>2

\* Who changed a key is in its layers.
LEMMA WithInLayers ==
  ASSUME Inv, NEW F \in SUBSET DOMAIN ver_to_change_set, NEW k
  PROVE  /\ With(F, k) # {} <=> k \in KeysIn(F)
         /\ \A v \in With(F, k) : k \in DOMAIN layered_kv /\ v \in DOMAIN layered_kv[k]
         /\ With(F, k) \subseteq F
<1>1. With(F, k) # {} <=> k \in KeysIn(F)
  BY DEF With, KeysIn
<1>2. ASSUME NEW v \in With(F, k)
      PROVE  k \in DOMAIN layered_kv /\ v \in DOMAIN layered_kv[k]
  <2>1. v \in DOMAIN ver_to_change_set /\ k \in KeysOf(ver_to_change_set[v])
    BY ChangedIs DEF With
  <2>. QED  BY <2>1 DEF Inv, Data, Agrees
<1>. QED  BY <1>1, <1>2 DEF With

\* Merging the values of some versions into one, as MapxRawVs has it.
LEMMA SameMerge ==
  ASSUME NEW row, NEW from, NEW to
  PROVE  Vs!MergeInto(row, from, to) =
           IF from \cap DOMAIN row = {} THEN row
           ELSE MapInsert(MapRemove(row, from), to, row[Max(from \cap DOMAIN row)])
<1>1. \A S : Vs!Max(S) = Max(S)
  BY DEF Vs!Max, Max
<1>. QED  BY <1>1, SameMaps DEF Vs!MergeInto

\* Joining versions F puts what they give the keys into the tree of the base.
LEMMA JoinPuts ==
  ASSUME Inv, NEW F \in SUBSET DOMAIN ver_to_change_set, NEW S, F \subseteq S,
         NEW base \in DOMAIN ver_to_change_set \ S, NEW dead \in SUBSET KeysIn(F),
         DOMAIN ver_to_change_set' = DOMAIN ver_to_change_set \ S,
         \A v \in DOMAIN ver_to_change_set' :
            v # base => ver_to_change_set'[v] = ver_to_change_set[v],
         \/ ver_to_change_set'[base] = MkRemove(Joined(F, base), dead)
         \/ ver_to_change_set'[base] = Joined(F, base) /\ dead = {}
  PROVE  Puts(S, base, LastIn(F), dead)
<1>1. PICK new : new = LastIn(F)
  OBVIOUS
<1>2. DOMAIN new \subseteq Key /\ \A k \in DOMAIN new : new[k] \in Values
  BY <1>1, LastInIs
<1>3. dead \in SUBSET Key /\ dead \subseteq DOMAIN new
  BY <1>1, <1>2, LastInIs
<1>4. PICK tree : tree = ver_to_change_set[base]
  OBVIOUS
<1>5. KeysOf(tree) \subseteq Key
  BY <1>4 DEF Inv, Data, TreesOf
<1>6. PICK ins : ins = MkInsert(tree, new)
  OBVIOUS
<1>7. /\ KeysOf(ins) = KeysOf(tree) \cup DOMAIN new
      /\ \A k \in KeysOf(ins) : ins[k] = IF k \in DOMAIN new THEN new[k] ELSE tree[k]
  BY <1>2, <1>6, InsertKeys
<1>8. Joined(F, base) = ins
  BY <1>1, <1>4, <1>6 DEF Joined, LastIn, KeysIn
<1>9. KeysOf(ins) \subseteq Key
  BY <1>2, <1>5, <1>7
<1>10. /\ KeysOf(MkRemove(ins, dead)) = KeysOf(ins) \ dead
       /\ \A k \in KeysOf(MkRemove(ins, dead)) : MkRemove(ins, dead)[k] = ins[k]
  BY <1>3, <1>9, RemoveKeys
<1>11. /\ KeysOf(ver_to_change_set'[base]) = KeysOf(ins) \ dead
       /\ \A k \in KeysOf(ver_to_change_set'[base]) : ver_to_change_set'[base][k] = ins[k]
  <2>1. CASE ver_to_change_set'[base] = MkRemove(Joined(F, base), dead)
    BY <1>8, <1>10, <2>1
  <2>2. CASE ver_to_change_set'[base] = Joined(F, base) /\ dead = {}
    BY <1>8, <2>2
  <2>. QED  BY <2>1, <2>2
<1>12. Puts(S, base, new, dead)
  BY <1>2, <1>3, <1>4, <1>7, <1>11 DEF Puts
<1>. QED  BY <1>1, <1>12

\* Rebase: what is newer than the base, on the branch, moves into it.
LEMMA RebaseIs ==
  ASSUME Inv, NEW b, NEW base, Vs!RebaseDuty(b, base), VersionRebase(b, base)
  PROVE  \E F \in SUBSET DOMAIN ver_to_change_set :
           /\ b \in DOMAIN br_to_its_vers /\ base \in br_to_its_vers[b] \ F
           /\ F = {v \in br_to_its_vers[b] : v > base}
           /\ \A c \in DOMAIN br_to_its_vers \ {b} : \A v \in br_to_its_vers[c] : v < base
           /\ DOMAIN br_to_its_vers' = DOMAIN br_to_its_vers
           /\ br_to_its_vers'[b] = br_to_its_vers[b] \ F
           /\ \A c \in DOMAIN br_to_its_vers \ {b} : br_to_its_vers'[c] = br_to_its_vers[c]
           /\ Puts(F, base, LastIn(F), {})
           /\ layered_kv' = [k \in DOMAIN layered_kv |->
                               Vs!MergeInto(layered_kv[k], With(F, k), base)]
           /\ Vs!ForgetVersions(F)
           /\ UNCHANGED <<br_name_to_br_id, br_id_to_br_name, next_br_id, next_ver_id>>
<1>1. PICK F : F = Vs!Newer(b, base)
  OBVIOUS
<1>2. /\ base \in Vs!Vers(b)
      /\ ver_to_change_set' =
           MapInsert(MapRemove(ver_to_change_set, F), base, Joined(F, base))
      /\ layered_kv' = [k \in DOMAIN layered_kv |->
                          Vs!MergeInto(layered_kv[k], With(F, k), base)]
      /\ br_to_its_vers' = [br_to_its_vers EXCEPT ![b] = br_to_its_vers[b] \ F]
      /\ Vs!ForgetVersions(F)
      /\ UNCHANGED <<br_name_to_br_id, br_id_to_br_name, next_br_id, next_ver_id>>
  BY <1>1 DEF VersionRebase, Vs!VersionRebase, Vs!brNames, With
<1>3. b \in DOMAIN br_to_its_vers /\ base \in br_to_its_vers[b]
  BY <1>2, VersAre
<1>4. F = {v \in br_to_its_vers[b] : v > base}
  BY <1>1, <1>3, VersAre DEF Vs!Newer
<1>5. br_to_its_vers[b] \subseteq AllOf(br_to_its_vers)
  BY <1>3 DEF AllOf, Range
<1>6. /\ next_ver_id \in Nat
      /\ DOMAIN ver_to_change_set \subseteq 0 .. next_ver_id - 1
      /\ AllOf(br_to_its_vers) \subseteq DOMAIN ver_to_change_set
  BY VersionNumbers DEF Inv
<1>7. F \in SUBSET DOMAIN ver_to_change_set /\ base \in DOMAIN ver_to_change_set \ F
  <2>1. base \in Int
    BY <1>3, <1>5, <1>6
  <2>. QED  BY <1>3, <1>4, <1>5, <1>6, <2>1
<1>8. \A c \in DOMAIN br_to_its_vers \ {b} : \A v \in br_to_its_vers[c] : v < base
  BY VersAre DEF Vs!RebaseDuty
<1>9. /\ DOMAIN br_to_its_vers' = DOMAIN br_to_its_vers
      /\ br_to_its_vers'[b] = br_to_its_vers[b] \ F
      /\ \A c \in DOMAIN br_to_its_vers \ {b} : br_to_its_vers'[c] = br_to_its_vers[c]
  BY <1>2, <1>3
<1>10. Puts(F, base, LastIn(F), {})
  <2>1. /\ DOMAIN ver_to_change_set' = DOMAIN ver_to_change_set \ F
        /\ ver_to_change_set'[base] = Joined(F, base)
        /\ \A v \in DOMAIN ver_to_change_set' :
             v # base => ver_to_change_set'[v] = ver_to_change_set[v]
    BY <1>2, <1>7 DEF MapInsert, MapRemove, Restrict
  <2>. QED  BY <1>7, <2>1, JoinPuts
<1>. QED  BY <1>2, <1>3, <1>4, <1>7, <1>8, <1>9, <1>10

\* What it does to the layers of one key.
LEMMA RebaseRow ==
  ASSUME Inv, NEW F \in SUBSET DOMAIN ver_to_change_set, NEW base, NEW k \in DOMAIN layered_kv
  PROVE  Vs!MergeInto(layered_kv[k], With(F, k), base) =
           IF k \in KeysIn(F)
           THEN MapInsert(MapRemove(layered_kv[k], With(F, k)), base, LastValue(F, k))
           ELSE layered_kv[k]
<1>1. PICK row : row = layered_kv[k]
  OBVIOUS
<1>2. PICK W : W = With(F, k)
  OBVIOUS
<1>3. W \subseteq DOMAIN row /\ (W # {} <=> k \in KeysIn(F))
  BY <1>1, <1>2, WithInLayers
<1>4. W \cap DOMAIN row = W
  BY <1>3
<1>5. k \in KeysIn(F) => row[Max(W)] = LastValue(F, k)
  BY <1>1, <1>2, LastIs
<1>6. Vs!MergeInto(row, W, base) =
        IF W = {} THEN row ELSE MapInsert(MapRemove(row, W), base, row[Max(W)])
  <2>1. Vs!MergeInto(row, W, base) =
          IF W \cap DOMAIN row = {} THEN row
          ELSE MapInsert(MapRemove(row, W), base, row[Max(W \cap DOMAIN row)])
    BY SameMerge
  <2>. QED  BY <1>4, <2>1
<1>. QED  BY <1>1, <1>2, <1>3, <1>5, <1>6

\* Nothing comes into the layers but the values joined into the base, no marks.
JoinsOnly(h, new, dead) ==
    \A k \in DOMAIN layered_kv' : \A v \in DOMAIN layered_kv'[k] :
       \/ v = h /\ k \in DOMAIN new \ dead /\ layered_kv'[k][v] = new[k]
       \/ /\ v # h \/ k \notin DOMAIN new
          /\ k \in DOMAIN layered_kv /\ v \in DOMAIN layered_kv[k]
          /\ layered_kv'[k][v] = layered_kv[k][v]

\* In the layers, rebase puts in the base what the versions give the keys.
LEMMA RebasePuts ==
  ASSUME Inv, NEW F \in SUBSET DOMAIN ver_to_change_set,
         NEW base \in DOMAIN ver_to_change_set \ F,
         layered_kv' = [k \in DOMAIN layered_kv |->
                          Vs!MergeInto(layered_kv[k], With(F, k), base)]
  PROVE  PutsInLayers(F, base, LastIn(F), {}) /\ JoinsOnly(base, LastIn(F), {})
<1>1. PICK new : new = LastIn(F)
  OBVIOUS
<1>2. DOMAIN new = KeysIn(F) /\ \A k \in KeysIn(F) : new[k] = LastValue(F, k) /\ new[k] \in Values
  BY <1>1, LastInIs
<1>3. LayersOf(layered_kv, 0 .. next_ver_id - 1)
  BY DEF Inv, Data
<1>4. base \in 0 .. next_ver_id - 1
  BY VersionNumbers DEF Inv
<1>5. /\ DOMAIN layered_kv' = DOMAIN layered_kv
      /\ layered_kv' = [k \in DOMAIN layered_kv' |-> layered_kv'[k]]
      /\ \A k \in DOMAIN layered_kv :
           layered_kv'[k] = IF k \in KeysIn(F)
                            THEN MapInsert(MapRemove(layered_kv[k], With(F, k)), base, new[k])
                            ELSE layered_kv[k]
  <2>1. \A k \in DOMAIN layered_kv :
           layered_kv'[k] = Vs!MergeInto(layered_kv[k], With(F, k), base)
    OBVIOUS
  <2>2. \A k \in DOMAIN layered_kv : 
          Vs!MergeInto(layered_kv[k], With(F, k), base) =
           IF k \in KeysIn(F)
           THEN MapInsert(MapRemove(layered_kv[k], With(F, k)), base, LastValue(F, k))
           ELSE layered_kv[k]
    BY RebaseRow
  <2>3. DOMAIN layered_kv' = DOMAIN layered_kv
        /\ layered_kv' = [k \in DOMAIN layered_kv' |-> layered_kv'[k]]
    OBVIOUS
  <2>. QED  BY <1>2, <2>1, <2>2, <2>3
<1>6. ASSUME NEW k \in DOMAIN layered_kv, k \in KeysIn(F)
      PROVE  /\ DOMAIN layered_kv'[k] = (DOMAIN layered_kv[k] \ With(F, k)) \cup {base}
             /\ \A v \in DOMAIN layered_kv'[k] :
                  layered_kv'[k][v] = IF v = base THEN new[k] ELSE layered_kv[k][v]
             /\ IsMap(layered_kv'[k], 0 .. next_ver_id - 1, Values)
  <2>1. layered_kv'[k] = MapInsert(MapRemove(layered_kv[k], With(F, k)), base, new[k])
    BY <1>5, <1>6
  <2>2. new[k] \in Values /\ IsMap(layered_kv[k], 0 .. next_ver_id - 1, Values)
    BY <1>2, <1>3, <1>6 DEF LayersOf
  <2>3. PICK row, W, x, kn : /\ row = layered_kv[k] /\ W = With(F, k)
                             /\ x = new[k] /\ kn = layered_kv'[k]
    OBVIOUS
  <2>4. /\ DOMAIN kn = (DOMAIN row \ W) \cup {base}
        /\ \A v \in DOMAIN kn : kn[v] = IF v = base THEN x ELSE row[v]
        /\ IsMap(kn, 0 .. next_ver_id - 1, Values)
    BY <1>4, <2>1, <2>2, <2>3 DEF MapInsert, MapRemove, Restrict, IsMap
  <2>. QED  BY <2>3, <2>4
<1>7. LayersOf(layered_kv', 0 .. next_ver_id - 1)
  BY <1>3, <1>5, <1>6 DEF LayersOf
<1>8. \A k : With(F, k) \subseteq F
  BY DEF With
<1>9. \A k \in KeysIn(F) : k \in DOMAIN layered_kv
  BY LastIs
<1>10. ASSUME NEW k \in DOMAIN layered_kv, NEW v \in DOMAIN layered_kv[k] \ F
       PROVE  \/ v = base /\ k \in DOMAIN new
              \/ k \in DOMAIN layered_kv' /\ v \in DOMAIN layered_kv'[k]
  BY <1>5, <1>6, <1>8
<1>11. ASSUME NEW k \in DOMAIN new
       PROVE  k \in DOMAIN layered_kv' /\ base \in DOMAIN layered_kv'[k]
  BY <1>2, <1>5, <1>6, <1>9
<1>12. ASSUME NEW k \in DOMAIN layered_kv', NEW v \in DOMAIN layered_kv'[k]
       PROVE  \/ v = base /\ k \in DOMAIN new \ {} /\ layered_kv'[k][v] = new[k]
              \/ /\ v # base \/ k \notin DOMAIN new
                 /\ k \in DOMAIN layered_kv /\ v \in DOMAIN layered_kv[k]
                 /\ layered_kv'[k][v] = layered_kv[k][v]
  <2>1. CASE k \in KeysIn(F)
    <3>1. k \in DOMAIN layered_kv
      BY <1>5
    <3>2. /\ v \in (DOMAIN layered_kv[k] \ With(F, k)) \cup {base}
          /\ layered_kv'[k][v] = IF v = base THEN new[k] ELSE layered_kv[k][v]
      BY <1>6, <2>1, <3>1
    <3>. QED  BY <1>2, <2>1, <3>1, <3>2
  <2>2. CASE k \notin KeysIn(F)
    BY <1>2, <1>5, <2>2
  <2>. QED  BY <2>1, <2>2
<1>13. PutsInLayers(F, base, new, {})
  BY <1>7, <1>10, <1>11, <1>12 DEF PutsInLayers
<1>14. JoinsOnly(base, new, {})
  BY <1>12 DEF JoinsOnly
<1>. QED  BY <1>1, <1>13, <1>14

\* Rebase keeps the invariant.
LEMMA RebaseKeeps ==
  ASSUME Inv, NEW b, NEW base, Vs!RebaseDuty(b, base), VersionRebase(b, base)
  PROVE  Inv'
<1>1. PICK F \in SUBSET DOMAIN ver_to_change_set :
           /\ b \in DOMAIN br_to_its_vers /\ base \in br_to_its_vers[b] \ F
           /\ F = {v \in br_to_its_vers[b] : v > base}
           /\ \A c \in DOMAIN br_to_its_vers \ {b} : \A v \in br_to_its_vers[c] : v < base
           /\ DOMAIN br_to_its_vers' = DOMAIN br_to_its_vers
           /\ br_to_its_vers'[b] = br_to_its_vers[b] \ F
           /\ \A c \in DOMAIN br_to_its_vers \ {b} : br_to_its_vers'[c] = br_to_its_vers[c]
           /\ Puts(F, base, LastIn(F), {})
           /\ layered_kv' = [k \in DOMAIN layered_kv |->
                               Vs!MergeInto(layered_kv[k], With(F, k), base)]
           /\ Vs!ForgetVersions(F)
           /\ UNCHANGED <<br_name_to_br_id, br_id_to_br_name, next_br_id, next_ver_id>>
  BY RebaseIs
<1>2. /\ AllOf(br_to_its_vers) \subseteq DOMAIN ver_to_change_set
      /\ DOMAIN ver_to_change_set \subseteq 0 .. next_ver_id - 1
  BY VersionNumbers DEF Inv
<1>3. \A c \in DOMAIN br_to_its_vers : br_to_its_vers[c] \subseteq AllOf(br_to_its_vers)
  BY DEF AllOf, Range
<1>4. base \in DOMAIN ver_to_change_set \ F
  BY <1>1, <1>2, <1>3
<1>5. PutsInLayers(F, base, LastIn(F), {})
  BY <1>1, <1>4, RebasePuts
<1>6. ASSUME NEW c \in DOMAIN br_to_its_vers
      PROVE  br_to_its_vers'[c] \subseteq br_to_its_vers[c] \ F
  <2>1. CASE c = b
    BY <1>1, <2>1
  <2>2. CASE c # b
    <3>1. \A v \in br_to_its_vers[c] : v \in Int /\ v < base
      BY <1>1, <1>2, <1>3, <2>2
    <3>2. base \in Int
      BY <1>2, <1>4
    <3>. QED  BY <1>1, <2>2, <3>1, <3>2
  <2>. QED  BY <2>1, <2>2
<1>7. AllOf(br_to_its_vers') \subseteq AllOf(br_to_its_vers) \ F
  BY <1>1, <1>6 DEF AllOf, Range
<1>8. BranchesNext
  BY <1>1 DEF BranchesNext, Inv, Versions, Numbers, Names, Back
<1>9. F \in SUBSET (F \cap DOMAIN ver_to_change_set)
  OBVIOUS
<1>. QED  BY <1>1, <1>5, <1>7, <1>8, <1>9, DropKeeps

\* The versions all branches that have any share from the oldest on: each of
\* those branches has them, with whatever is older.
LEMMA SharedIs ==
  ASSUME Versions, NEW v \in Vs!SharedVers
  PROVE  /\ v \in AllOf(br_to_its_vers)
         /\ \A b \in DOMAIN br_to_its_vers : br_to_its_vers[b] # {} =>
              /\ v \in br_to_its_vers[b]
              /\ \A w \in br_to_its_vers[b] : w <= v => w \in Vs!SharedVers
<1>1. PICK all : all = Range(br_to_its_vers) \ {{}}
  OBVIOUS
<1>2. Vs!SharedVers =
        {x \in UNION all : \A S, T \in all :
            x \in S /\ {w \in S : w <= x} = {w \in T : w <= x}}
  BY <1>1, SameMaps DEF Vs!SharedVers, Vs!CommonPrefix, Vs!UpTo
<1>3. v \in UNION all
  BY <1>2
<1>4. v \in AllOf(br_to_its_vers)
  BY <1>1, <1>3 DEF AllOf
<1>5. \A x \in UNION all : x \in Int
  <2>1. UNION all \subseteq AllOf(br_to_its_vers)
    BY <1>1 DEF AllOf
  <2>. QED  BY <2>1, VersionNumbers
<1>6. ASSUME NEW b \in DOMAIN br_to_its_vers, br_to_its_vers[b] # {}
      PROVE  br_to_its_vers[b] \in all
  BY <1>1, <1>6 DEF Range
<1>7. ASSUME NEW R \in all, NEW w \in R, w <= v
      PROVE  w \in Vs!SharedVers
  <2>. SUFFICES ASSUME NEW S \in all, NEW T \in all
                PROVE  w \in S /\ {x \in S : x <= w} = {x \in T : x <= w}
    BY <1>2
  <2>1. w \in S
    BY <1>2, <1>7
  <2>2. \A x \in UNION all : x <= w => x <= v
    BY <1>5, <1>3, <1>7
  <2>3. \A x : x \in S /\ x <= w <=> x \in T /\ x <= w
    BY <1>2, <2>2
  <2>. QED  BY <2>1, <2>3
<1>8. \A S \in all : v \in S
  BY <1>2
<1>. QED  BY <1>4, <1>6, <1>7, <1>8

\* The versions a prune merges, and the one it merges them into.
LEMMA MergeableIs ==
  ASSUME Versions, NEW r, NEW F, F = Vs!Mergeable(r), F # {}
  PROVE  LET base == Min(Vs!SharedVers)
         IN  /\ F \subseteq Vs!SharedVers /\ base \in Vs!SharedVers \ F
             /\ \A v \in Vs!SharedVers : base <= v
             /\ \A v \in F : base < v
<1>1. PICK Sh : Sh = Vs!SharedVers
  OBVIOUS
<1>2. F \subseteq Sh /\ \A v \in F : \E u \in Sh : u < v
  BY <1>1 DEF Vs!Mergeable
<1>3. Sh \in SUBSET Nat
  <2>1. Sh \subseteq AllOf(br_to_its_vers)
    BY <1>1, SharedIs
  <2>. QED  BY <2>1, VersionNumbers
<1>4. Sh # {}
  BY <1>2
<1>5. Min(Sh) \in Sh /\ \A v \in Sh : Min(Sh) <= v
  BY <1>3, <1>4, MinInSet
<1>6. PICK m \in Nat : m = Min(Sh)
  BY <1>3, <1>5
<1>7. m \in Sh /\ \A v \in Sh : m <= v
  BY <1>5, <1>6
<1>8. ASSUME NEW v \in F
      PROVE  m < v
  <2>1. PICK u \in Sh : u < v
    BY <1>2
  <2>2. u \in Nat /\ v \in Nat /\ m <= u
    BY <1>2, <1>3, <1>7
  <2>. QED  BY <2>1, <2>2
<1>9. m \notin F
  BY <1>8
<1>. QED  BY <1>1, <1>2, <1>6, <1>7, <1>8, <1>9

\* Prune: clean-up, then the oldest shared versions move into the oldest.
LEMMA PruneIs ==
  ASSUME Inv, NEW F, NEW base, PruneInto(F, base), F \subseteq Vs!SharedVers,
         base \in Vs!SharedVers \ F
  PROVE  \E O \in SUBSET DOMAIN ver_to_change_set :
           /\ O = DOMAIN ver_to_change_set \ AllOf(br_to_its_vers)
           /\ F \subseteq DOMAIN ver_to_change_set
           /\ base \in DOMAIN ver_to_change_set \ (O \cup F)
           /\ DOMAIN br_to_its_vers' = DOMAIN br_to_its_vers
           /\ \A b \in DOMAIN br_to_its_vers : br_to_its_vers'[b] = br_to_its_vers[b] \ F
           /\ Puts(O \cup F, base, LastIn(F), Dead(F))
           /\ LET kv   == Vs!PurgedKv(O)
                  into == [k \in DOMAIN kv |-> IF k \in KeysIn(F)
                                               THEN MapInsert(kv[k], base, LastValue(F, k))
                                               ELSE kv[k]]
              IN  layered_kv' = [k \in DOMAIN kv |-> IF k \in Dead(F)
                                                     THEN MapRemove(into[k], {base})
                                                     ELSE into[k]]
           /\ Vs!ForgetVersions(O)
           /\ UNCHANGED <<br_name_to_br_id, br_id_to_br_name, next_br_id, next_ver_id>>
<1>1. PICK O : O = Vs!Orphans(br_to_its_vers)
  OBVIOUS
<1>2. O = DOMAIN ver_to_change_set \ AllOf(br_to_its_vers)
  BY <1>1, SameMaps, ChangedIs DEF Vs!Orphans
<1>3. /\ LET kv   == Vs!PurgedKv(O)
             into == [k \in DOMAIN kv |-> IF k \in KeysIn(F)
                                          THEN MapInsert(kv[k], base, LastValue(F, k))
                                          ELSE kv[k]]
         IN  layered_kv' = [k \in DOMAIN kv |-> IF k \in Dead(F)
                                                THEN MapRemove(into[k], {base})
                                                ELSE into[k]]
      /\ ver_to_change_set' =
           MapInsert(MapRemove(ver_to_change_set, O \cup F), base,
                     MkRemove(Joined(F, base), Dead(F)))
      /\ br_to_its_vers' = [b \in DOMAIN br_to_its_vers |-> br_to_its_vers[b] \ F]
      /\ Vs!ForgetVersions(O)
      /\ UNCHANGED <<br_name_to_br_id, br_id_to_br_name, next_br_id, next_ver_id>>
  BY <1>1 DEF PruneInto, KeysIn
<1>4. F \subseteq AllOf(br_to_its_vers) /\ base \in AllOf(br_to_its_vers)
  BY SharedIs DEF Inv
<1>5. AllOf(br_to_its_vers) \subseteq DOMAIN ver_to_change_set
  BY VersionNumbers DEF Inv
<1>6. base \in DOMAIN ver_to_change_set \ (O \cup F)
  BY <1>2, <1>4, <1>5
<1>7. Puts(O \cup F, base, LastIn(F), Dead(F))
  <2>1. /\ DOMAIN ver_to_change_set' = DOMAIN ver_to_change_set \ (O \cup F)
        /\ ver_to_change_set'[base] = MkRemove(Joined(F, base), Dead(F))
        /\ \A v \in DOMAIN ver_to_change_set' :
             v # base => ver_to_change_set'[v] = ver_to_change_set[v]
    BY <1>3, <1>6 DEF MapInsert, MapRemove, Restrict
  <2>2. Dead(F) \subseteq KeysIn(F)
    BY DEF Dead, KeysIn
  <2>3. PICK S : S = O \cup F
    OBVIOUS
  <2>4. F \subseteq S /\ F \in SUBSET DOMAIN ver_to_change_set
    BY <1>4, <1>5, <2>3
  <2>5. Puts(S, base, LastIn(F), Dead(F))
    BY <1>6, <2>1, <2>2, <2>3, <2>4, JoinPuts
  <2>. QED  BY <2>3, <2>5
<1>8. /\ DOMAIN br_to_its_vers' = DOMAIN br_to_its_vers
      /\ \A b \in DOMAIN br_to_its_vers : br_to_its_vers'[b] = br_to_its_vers[b] \ F
  BY <1>3
<1>. QED  BY <1>2, <1>3, <1>4, <1>5, <1>6, <1>7, <1>8

\* In the layers, prune puts in the base what the versions give the keys, but
\* not what they leave deleted.
LEMMA PrunePuts ==
  ASSUME Inv, NEW F \in SUBSET DOMAIN ver_to_change_set, NEW O \in SUBSET DOMAIN ver_to_change_set,
         F \cap O = {}, NEW base \in DOMAIN ver_to_change_set \ (O \cup F),
         LET kv   == Vs!PurgedKv(O)
             into == [k \in DOMAIN kv |-> IF k \in KeysIn(F)
                                          THEN MapInsert(kv[k], base, LastValue(F, k))
                                          ELSE kv[k]]
         IN  layered_kv' = [k \in DOMAIN kv |-> IF k \in Dead(F)
                                                THEN MapRemove(into[k], {base})
                                                ELSE into[k]]
  PROVE  /\ PutsInLayers(O \cup F, base, LastIn(F), Dead(F))
         /\ JoinsOnly(base, LastIn(F), Dead(F))
<1>1. PICK new, dead, kn, kv : /\ new = LastIn(F) /\ dead = Dead(F)
                               /\ kn = layered_kv' /\ kv = Vs!PurgedKv(O)
  OBVIOUS
<1>2. /\ DOMAIN new = KeysIn(F)
      /\ \A k \in KeysIn(F) : new[k] = LastValue(F, k) /\ new[k] \in Values
  BY <1>1, LastInIs
<1>3. dead \subseteq KeysIn(F)
  BY <1>1 DEF Dead, KeysIn
<1>4. /\ LayersOf(kv, 0 .. next_ver_id - 1)
      /\ DOMAIN kv \subseteq DOMAIN layered_kv
      /\ \A k \in DOMAIN kv :
           /\ DOMAIN kv[k] \subseteq DOMAIN layered_kv[k]
           /\ \A v \in DOMAIN kv[k] : kv[k][v] = layered_kv[k][v]
      /\ \A k \in DOMAIN layered_kv : \A v \in DOMAIN layered_kv[k] \ O :
           k \in DOMAIN kv /\ v \in DOMAIN kv[k]
  BY <1>1, PurgedIs
<1>5. base \in 0 .. next_ver_id - 1
  BY VersionNumbers DEF Inv
<1>6. PICK into : into = [k \in DOMAIN kv |-> IF k \in KeysIn(F)
                                              THEN MapInsert(kv[k], base, LastValue(F, k))
                                              ELSE kv[k]]
  OBVIOUS
<1>7. kn = [k \in DOMAIN kv |-> IF k \in dead THEN MapRemove(into[k], {base}) ELSE into[k]]
  BY <1>1, <1>6
<1>8. ASSUME NEW k \in DOMAIN kv
      PROVE  /\ IsMap(into[k], 0 .. next_ver_id - 1, Values)
             /\ DOMAIN into[k] = IF k \in KeysIn(F) THEN DOMAIN kv[k] \cup {base} ELSE DOMAIN kv[k]
             /\ \A v \in DOMAIN into[k] :
                  into[k][v] = IF k \in KeysIn(F) /\ v = base THEN new[k] ELSE kv[k][v]
  <2>1. IsMap(kv[k], 0 .. next_ver_id - 1, Values)
    BY <1>4 DEF LayersOf
  <2>2. CASE k \in KeysIn(F)
    <3>1. new[k] \in Values /\ into[k] = MapInsert(kv[k], base, new[k])
      BY <1>2, <1>6, <2>2
    <3>2. PICK row, x, row2 : row = kv[k] /\ x = new[k] /\ row2 = into[k]
      OBVIOUS
    <3>3. /\ IsMap(row2, 0 .. next_ver_id - 1, Values)
          /\ DOMAIN row2 = DOMAIN row \cup {base}
          /\ \A v \in DOMAIN row2 : row2[v] = IF v = base THEN x ELSE row[v]
      BY <1>5, <2>1, <3>1, <3>2 DEF IsMap, MapInsert
    <3>. QED  BY <2>2, <3>2, <3>3
  <2>3. CASE k \notin KeysIn(F)
    BY <1>6, <2>1, <2>3
  <2>. QED  BY <2>2, <2>3
<1>9. ASSUME NEW k \in DOMAIN kv
      PROVE  /\ IsMap(kn[k], 0 .. next_ver_id - 1, Values)
             /\ DOMAIN kn[k] = IF k \in dead THEN DOMAIN into[k] \ {base} ELSE DOMAIN into[k]
             /\ \A v \in DOMAIN kn[k] : kn[k][v] = into[k][v]
  <2>1. IsMap(into[k], 0 .. next_ver_id - 1, Values)
    BY <1>8
  <2>2. kn[k] = IF k \in dead THEN MapRemove(into[k], {base}) ELSE into[k]
    BY <1>7
  <2>3. PICK row, row2 : row = into[k] /\ row2 = kn[k]
    OBVIOUS
  <2>4. CASE k \in dead
    BY <2>1, <2>2, <2>3, <2>4 DEF IsMap, MapRemove, Restrict
  <2>5. CASE k \notin dead
    BY <2>1, <2>2, <2>5
  <2>. QED  BY <2>4, <2>5
<1>10. DOMAIN kn = DOMAIN kv /\ kn = [k \in DOMAIN kn |-> kn[k]]
  BY <1>7
<1>11. LayersOf(kn, 0 .. next_ver_id - 1)
  BY <1>4, <1>9, <1>10 DEF LayersOf
<1>12. ASSUME NEW k \in DOMAIN layered_kv, NEW v \in DOMAIN layered_kv[k] \ (O \cup F)
       PROVE  \/ v = base /\ k \in DOMAIN new
              \/ k \in DOMAIN kn /\ v \in DOMAIN kn[k]
  <2>1. k \in DOMAIN kv /\ v \in DOMAIN kv[k]
    BY <1>4
  <2>2. v \in DOMAIN into[k]
    BY <1>8, <2>1
  <2>3. CASE v = base /\ k \notin DOMAIN new
    BY <1>2, <1>3, <1>9, <1>10, <2>1, <2>2, <2>3
  <2>4. CASE v # base
    BY <1>9, <1>10, <2>1, <2>2, <2>4
  <2>. QED  BY <2>3, <2>4
<1>13. ASSUME NEW k \in DOMAIN new \ dead
       PROVE  k \in DOMAIN kn /\ base \in DOMAIN kn[k]
  <2>1. PICK u \in With(F, k) : k \in DOMAIN layered_kv /\ u \in DOMAIN layered_kv[k]
    BY <1>2, LastIs
  <2>2. u \notin O
    BY DEF With
  <2>3. k \in DOMAIN kv
    BY <1>4, <2>1, <2>2
  <2>. QED  BY <1>2, <1>8, <1>9, <1>10, <2>3
<1>14. ASSUME NEW k \in DOMAIN kn, NEW v \in DOMAIN kn[k]
       PROVE  \/ v = base /\ k \in DOMAIN new \ dead /\ kn[k][v] = new[k]
              \/ /\ v # base \/ k \notin DOMAIN new
                 /\ k \in DOMAIN layered_kv /\ v \in DOMAIN layered_kv[k]
                 /\ kn[k][v] = layered_kv[k][v]
  <2>1. k \in DOMAIN kv /\ v \in DOMAIN into[k] /\ kn[k][v] = into[k][v]
    BY <1>9, <1>10
  <2>2. into[k][v] = IF k \in KeysIn(F) /\ v = base THEN new[k] ELSE kv[k][v]
    BY <1>8, <2>1
  <2>3. CASE k \in KeysIn(F) /\ v = base
    <3>1. k \notin dead
      BY <1>9, <2>1, <2>3
    <3>. QED  BY <1>2, <2>1, <2>2, <2>3, <3>1
  <2>4. CASE ~(k \in KeysIn(F) /\ v = base)
    <3>1. v \in DOMAIN kv[k]
      BY <1>8, <2>1, <2>4
    <3>. QED  BY <1>2, <1>4, <2>1, <2>2, <2>4, <3>1
  <2>. QED  BY <2>3, <2>4
<1>15. PutsInLayers(O \cup F, base, new, dead) /\ JoinsOnly(base, new, dead)
  <2>1. LayersOf(layered_kv', 0 .. next_ver_id - 1)
    BY <1>1, <1>11
  <2>2. \A k \in DOMAIN layered_kv : \A v \in DOMAIN layered_kv[k] \ (O \cup F) :
          \/ v = base /\ k \in DOMAIN new
          \/ k \in DOMAIN layered_kv' /\ v \in DOMAIN layered_kv'[k]
    BY <1>1, <1>12
  <2>3. \A k \in DOMAIN new \ dead : k \in DOMAIN layered_kv' /\ base \in DOMAIN layered_kv'[k]
    BY <1>1, <1>13
  <2>4. \A k \in DOMAIN layered_kv' : \A v \in DOMAIN layered_kv'[k] :
          \/ v = base /\ k \in DOMAIN new \ dead /\ layered_kv'[k][v] = new[k]
          \/ /\ v # base \/ k \notin DOMAIN new
             /\ k \in DOMAIN layered_kv /\ v \in DOMAIN layered_kv[k]
             /\ layered_kv'[k][v] = layered_kv[k][v]
    <3>1. kn = layered_kv'
      BY <1>1
    <3>. QED  BY <1>14, <3>1
  <2>5. \A k \in DOMAIN layered_kv' : \A v \in DOMAIN layered_kv'[k] :
          \/ v = base /\ k \in DOMAIN new \ dead /\ layered_kv'[k][v] = new[k]
          \/ /\ v # base \/ k \notin DOMAIN new
             /\ k \in DOMAIN layered_kv /\ v \in DOMAIN layered_kv[k]
             /\ layered_kv'[k][v] = layered_kv[k][v]
          \/ /\ v = base /\ k \notin DOMAIN new /\ k \notin KeysOf(ver_to_change_set[base])
             /\ layered_kv'[k][v] = NULL
    <3>1. TAKE k \in DOMAIN layered_kv'
    <3>2. TAKE v \in DOMAIN layered_kv'[k]
    <3>. QED  BY <2>4, ZenonT(60)
  <2>6. base \in DOMAIN ver_to_change_set' =>
          \A k \in DOMAIN new \ dead :
             k \in DOMAIN layered_kv' /\ base \in DOMAIN layered_kv'[k]
    BY <2>3, Zenon
  <2>7. PutsInLayers(O \cup F, base, new, dead)
    BY <2>1, <2>2, <2>5, <2>6, Zenon DEF PutsInLayers
  <2>8. JoinsOnly(base, new, dead)
    BY <2>4, Zenon DEF JoinsOnly
  <2>. QED  BY <2>7, <2>8
<1>. QED  BY <1>1, <1>15

\* Together: what a prune does.
LEMMA PruneJoins ==
  ASSUME Inv, NEW F, NEW base, PruneInto(F, base), F \subseteq Vs!SharedVers,
         base \in Vs!SharedVers \ F
  PROVE  \E O \in SUBSET DOMAIN ver_to_change_set :
           /\ O = DOMAIN ver_to_change_set \ AllOf(br_to_its_vers)
           /\ F \in SUBSET DOMAIN ver_to_change_set /\ F \subseteq AllOf(br_to_its_vers)
           /\ base \in DOMAIN ver_to_change_set \ (O \cup F)
           /\ DOMAIN br_to_its_vers' = DOMAIN br_to_its_vers
           /\ \A b \in DOMAIN br_to_its_vers : br_to_its_vers'[b] = br_to_its_vers[b] \ F
           /\ Puts(O \cup F, base, LastIn(F), Dead(F))
           /\ PutsInLayers(O \cup F, base, LastIn(F), Dead(F))
           /\ JoinsOnly(base, LastIn(F), Dead(F))
           /\ Vs!ForgetVersions(O)
           /\ UNCHANGED <<br_name_to_br_id, br_id_to_br_name, next_br_id, next_ver_id>>
<1>1. PICK O \in SUBSET DOMAIN ver_to_change_set :
        /\ O = DOMAIN ver_to_change_set \ AllOf(br_to_its_vers)
        /\ F \subseteq DOMAIN ver_to_change_set
        /\ base \in DOMAIN ver_to_change_set \ (O \cup F)
        /\ DOMAIN br_to_its_vers' = DOMAIN br_to_its_vers
        /\ \A b \in DOMAIN br_to_its_vers : br_to_its_vers'[b] = br_to_its_vers[b] \ F
        /\ Puts(O \cup F, base, LastIn(F), Dead(F))
        /\ LET kv   == Vs!PurgedKv(O)
               into == [k \in DOMAIN kv |-> IF k \in KeysIn(F)
                                            THEN MapInsert(kv[k], base, LastValue(F, k))
                                            ELSE kv[k]]
           IN  layered_kv' = [k \in DOMAIN kv |-> IF k \in Dead(F)
                                                  THEN MapRemove(into[k], {base})
                                                  ELSE into[k]]
        /\ Vs!ForgetVersions(O)
        /\ UNCHANGED <<br_name_to_br_id, br_id_to_br_name, next_br_id, next_ver_id>>
  BY PruneIs
<1>2. F \subseteq AllOf(br_to_its_vers)
  BY SharedIs DEF Inv
<1>3. F \cap O = {} /\ F \in SUBSET DOMAIN ver_to_change_set
  BY <1>1, <1>2
<1>4. /\ PutsInLayers(O \cup F, base, LastIn(F), Dead(F))
      /\ JoinsOnly(base, LastIn(F), Dead(F))
  BY <1>1, <1>3, PrunePuts
<1>. QED  BY <1>1, <1>2, <1>3, <1>4

\* Prune keeps the invariant.
LEMMA PruneKeeps ==
  ASSUME Inv, NEW n, Prune(n)
  PROVE  Inv'
<1>1. PICK F : F = Vs!Mergeable((1 + n) % (USIZE_MAX + 1))
  OBVIOUS
<1>2. CASE F = {}
  BY <1>1, <1>2, PurgeKeeps DEF Prune
<1>3. CASE F # {}
  <2>1. PICK base : base = Min(Vs!SharedVers)
    OBVIOUS
  <2>2. PruneInto(F, base)
    BY <1>1, <1>3, <2>1 DEF Prune
  <2>3. F \subseteq Vs!SharedVers /\ base \in Vs!SharedVers \ F
    BY <1>1, <1>3, <2>1, MergeableIs DEF Inv
  <2>4. PICK O \in SUBSET DOMAIN ver_to_change_set :
           /\ O = DOMAIN ver_to_change_set \ AllOf(br_to_its_vers)
           /\ F \subseteq AllOf(br_to_its_vers)
           /\ DOMAIN br_to_its_vers' = DOMAIN br_to_its_vers
           /\ \A b \in DOMAIN br_to_its_vers : br_to_its_vers'[b] = br_to_its_vers[b] \ F
           /\ Puts(O \cup F, base, LastIn(F), Dead(F))
           /\ PutsInLayers(O \cup F, base, LastIn(F), Dead(F))
           /\ Vs!ForgetVersions(O)
           /\ UNCHANGED <<br_name_to_br_id, br_id_to_br_name, next_br_id, next_ver_id>>
    BY <2>2, <2>3, PruneJoins
  <2>5. AllOf(br_to_its_vers') \subseteq AllOf(br_to_its_vers) \ (O \cup F)
    BY <2>4 DEF AllOf, Range
  <2>6. BranchesNext
    BY <2>4 DEF BranchesNext, Inv, Versions, Numbers, Names, Back
  <2>7. O \in SUBSET ((O \cup F) \cap DOMAIN ver_to_change_set)
    OBVIOUS
  <2>. QED  BY <2>4, <2>5, <2>6, <2>7, DropKeeps
<1>. QED  BY <1>2, <1>3

-----------------------------------------------------------------------------
(* Restarting. *)

\* The index is rebuilt from the change sets: it has what they have, no more.
LEMMA RestartIs ==
  ASSUME Inv, Restart
  PROVE  /\ \A k \in DOMAIN layered_kv' : \A v \in DOMAIN layered_kv'[k] :
              /\ v \in DOMAIN ver_to_change_set /\ k \in KeysOf(ver_to_change_set[v])
              /\ k \in DOMAIN layered_kv /\ v \in DOMAIN layered_kv[k]
              /\ layered_kv'[k][v] = layered_kv[k][v]
         /\ \A v \in DOMAIN ver_to_change_set : \A k \in KeysOf(ver_to_change_set[v]) :
              k \in DOMAIN layered_kv' /\ v \in DOMAIN layered_kv'[k]
         /\ LayersOf(layered_kv', 0 .. next_ver_id - 1)
         /\ UNCHANGED <<br_to_its_vers, ver_to_change_set, next_br_id, next_ver_id>>
<1>1. /\ layered_kv' =
           [k \in UNION Range(changed) |->
              [v \in {v \in DOMAIN changed : k \in changed[v]} |-> ChangedTo(v, k)]]
      /\ UNCHANGED <<br_to_its_vers, ver_to_change_set, next_br_id, next_ver_id>>
  BY DEF Restart
<1>2. PICK kn, chg, kv : kn = layered_kv' /\ chg = ver_to_change_set /\ kv = layered_kv
  OBVIOUS
<1>3. /\ DOMAIN changed = DOMAIN chg
      /\ \A v \in DOMAIN chg : changed[v] = KeysOf(chg[v])
  BY <1>2, ChangedIs
<1>4. PICK cs : cs = changed
  OBVIOUS
<1>5. /\ DOMAIN kn = UNION Range(cs)
      /\ kn = [k \in DOMAIN kn |-> kn[k]]
      /\ \A k \in DOMAIN kn :
           kn[k] = [v \in {v \in DOMAIN cs : k \in cs[v]} |-> ChangedTo(v, k)]
  BY <1>1, <1>2, <1>4
<1>6. \A v \in DOMAIN chg : \A k \in KeysOf(chg[v]) :
        /\ k \in DOMAIN kv /\ v \in DOMAIN kv[k] /\ kv[k][v] = chg[v][k]
        /\ k \in Key /\ chg[v][k] \in Values
        /\ ChangedTo(v, k) = chg[v][k]
  <2>1. \A v \in DOMAIN chg : \A k \in KeysOf(chg[v]) : ChangedTo(v, k) = chg[v][k]
    BY <1>2, ChangedToIs
  <2>. QED  BY <1>2, <2>1 DEF Inv, Data, Agrees, TreesOf
<1>7. ASSUME NEW k \in DOMAIN kn
      PROVE  /\ DOMAIN kn[k] = {v \in DOMAIN chg : k \in KeysOf(chg[v])}
             /\ kn[k] = [v \in DOMAIN kn[k] |-> kn[k][v]]
             /\ \A v \in DOMAIN kn[k] : kn[k][v] = chg[v][k]
             /\ DOMAIN kn[k] # {}
  <2>1. DOMAIN kn[k] = {v \in DOMAIN chg : k \in KeysOf(chg[v])}
        /\ kn[k] = [v \in DOMAIN kn[k] |-> kn[k][v]]
    BY <1>3, <1>4, <1>5
  <2>2. \A v \in DOMAIN kn[k] : kn[k][v] = ChangedTo(v, k)
    BY <1>5, ZenonT(60)
  <2>3. \E v \in DOMAIN cs : k \in cs[v]
    BY <1>5 DEF Range
  <2>. QED  BY <1>3, <1>4, <1>6, <2>1, <2>2, <2>3
<1>8. \A v \in DOMAIN chg : \A k \in KeysOf(chg[v]) : k \in DOMAIN kn /\ v \in DOMAIN kn[k]
  <2>. SUFFICES ASSUME NEW v \in DOMAIN chg, NEW k \in KeysOf(chg[v])
                PROVE  k \in DOMAIN kn /\ v \in DOMAIN kn[k]
    OBVIOUS
  <2>1. k \in DOMAIN kn
    BY <1>3, <1>4, <1>5 DEF Range
  <2>. QED  BY <1>7, <2>1
<1>9. \A k \in DOMAIN kn : \A v \in DOMAIN kn[k] :
        /\ v \in DOMAIN chg /\ k \in KeysOf(chg[v])
        /\ k \in DOMAIN kv /\ v \in DOMAIN kv[k] /\ kn[k][v] = kv[k][v]
  <2>. SUFFICES ASSUME NEW k \in DOMAIN kn, NEW v \in DOMAIN kn[k]
                PROVE  /\ v \in DOMAIN chg /\ k \in KeysOf(chg[v])
                       /\ k \in DOMAIN kv /\ v \in DOMAIN kv[k] /\ kn[k][v] = kv[k][v]
    OBVIOUS
  <2>1. v \in DOMAIN chg /\ k \in KeysOf(chg[v]) /\ kn[k][v] = chg[v][k]
    BY <1>7
  <2>. QED  BY <1>6, <2>1
<1>10. PICK ids : ids = 0 .. next_ver_id - 1
  OBVIOUS
<1>11. DOMAIN chg \subseteq ids
  BY <1>2, <1>10, VersionNumbers DEF Inv
<1>12. LayersOf(kn, ids)
  <2>1. \A k \in DOMAIN kn : k \in Key /\ IsMap(kn[k], ids, Values)
    <3>. SUFFICES ASSUME NEW k \in DOMAIN kn
                  PROVE  k \in Key /\ IsMap(kn[k], ids, Values)
      OBVIOUS
    <3>1. PICK row : row = kn[k]
      OBVIOUS
    <3>2. /\ row = [v \in DOMAIN row |-> row[v]]
          /\ \A v \in DOMAIN row : row[v] \in Values /\ v \in ids
      BY <1>6, <1>7, <1>11, <3>1, ZenonT(60)
    <3>3. k \in Key
      BY <1>6, <1>7
    <3>. QED  BY <3>1, <3>2, <3>3 DEF IsMap
  <2>. QED  BY <1>5, <2>1 DEF LayersOf
<1>13. UNCHANGED <<br_to_its_vers, ver_to_change_set, next_br_id, next_ver_id>>
  BY <1>1
<1>. QED  BY <1>2, <1>8, <1>9, <1>10, <1>12, <1>13

\* A restart keeps the invariant.
LEMMA RestartKeeps ==
  ASSUME Inv, Restart
  PROVE  Inv'
<1>1. /\ \A k \in DOMAIN layered_kv' : \A v \in DOMAIN layered_kv'[k] :
              /\ v \in DOMAIN ver_to_change_set /\ k \in KeysOf(ver_to_change_set[v])
              /\ k \in DOMAIN layered_kv /\ v \in DOMAIN layered_kv[k]
              /\ layered_kv'[k][v] = layered_kv[k][v]
      /\ \A v \in DOMAIN ver_to_change_set : \A k \in KeysOf(ver_to_change_set[v]) :
              k \in DOMAIN layered_kv' /\ v \in DOMAIN layered_kv'[k]
      /\ LayersOf(layered_kv', 0 .. next_ver_id - 1)
      /\ UNCHANGED <<br_to_its_vers, ver_to_change_set, next_br_id, next_ver_id>>
  BY RestartIs
<1>2. /\ br_id_to_br_name' = AntiFunction(br_name_to_br_id)
      /\ ver_id_to_ver_name' = AntiFunction(ver_name_to_ver_id)
      /\ UNCHANGED <<br_name_to_br_id, ver_name_to_ver_id>>
  BY DEF Restart
<1>3. /\ Back(br_name_to_br_id', br_id_to_br_name')
      /\ Back(ver_name_to_ver_id', ver_id_to_ver_name')
  BY <1>2, AntiBack DEF Inv, Versions, Names
<1>4. /\ DOMAIN br_id_to_br_name' = DOMAIN br_id_to_br_name
      /\ DOMAIN ver_id_to_ver_name' = DOMAIN ver_id_to_ver_name
  BY <1>2, <1>3 DEF Inv, Versions, Names, Back
<1>5. Numbers' /\ Names' /\ Known'
  BY <1>1, <1>3, <1>4 DEF Inv, Versions, Numbers, Names, Known
<1>6. TreesOf(ver_to_change_set') /\ LayersOf(layered_kv', 0 .. next_ver_id' - 1)
  BY <1>1 DEF Inv, Data
<1>7. Agrees(ver_to_change_set', layered_kv')
  BY <1>1 DEF Inv, Data, Agrees
<1>8. MarksBeyond(ver_to_change_set', layered_kv', AllOf(br_to_its_vers'))
  BY <1>1 DEF MarksBeyond
<1>. QED  BY <1>5, <1>6, <1>7, <1>8 DEF Inv, Versions, Data

-----------------------------------------------------------------------------
(* The theorems. *)

\* Every step keeps the invariant.
LEMMA NextInv == Inv /\ [Next]_vars => Inv'
<1>. SUFFICES ASSUME Inv, [Next]_vars PROVE Inv'
  OBVIOUS
<1>1. Versions
  BY DEF Inv
<1>2. ASSUME WriteStep PROVE Inv'
  <2>1. ASSUME NEW b, NEW k \in Key, Remove(b, k) PROVE Inv'
    <3>1. PICK h \in Newest(b) : Write(k, NULL, h)
      BY <2>1 DEF Remove
    <3>. QED  BY <3>1, WriteKeeps DEF Values
  <2>2. ASSUME NEW b, NEW k \in Key, NEW x \in Value \cup {NULL}, Insert(b, k, x) PROVE Inv'
    <3>1. PICK h \in Newest(b) : Write(k, x, h)
      BY <2>2 DEF Insert
    <3>. QED  BY <3>1, WriteKeeps DEF Values
  <2>. QED  BY <1>2, <2>1, <2>2, BatchKeeps DEF WriteStep
<1>3. ASSUME CreateStep PROVE Inv'
  <2>1. Moves \/ Creates
    BY <1>1, <1>3, VersionCreates, BranchCreates DEF CreateStep
  <2>. QED  BY <2>1, MovesKeep, CreatesKeep
<1>4. ASSUME DropStep PROVE Inv'
  <2>1. ASSUME NEW b, \/ VersionPop(b) \/ BranchTruncate(b)
                      \/ \E v \in Vs!KnownVersions : BranchTruncateTo(b, v)
        PROVE  Inv'
    BY <1>1, <2>1, TruncateMoves, MovesKeep
  <2>2. ASSUME NEW b, BranchRemove(b) PROVE Inv'
    BY <1>1, <2>2, RemoveMoves, MovesKeep
  <2>3. ASSUME NEW n, BranchCreateFails(n) PROVE Inv'
    BY <1>1, <2>3, RemoveMoves, MovesKeep
  <2>. QED  BY <1>4, <2>1, <2>2, <2>3, RevertKeeps, ClearKeeps DEF DropStep
<1>5. ASSUME MergeStep PROVE Inv'
  BY <1>1, <1>5, MergeMoves, MovesKeep DEF MergeStep
<1>6. ASSUME RenameStep PROVE Inv'
  BY <1>1, <1>6, RenameMoves, MovesKeep DEF RenameStep
<1>7. ASSUME CompactStep PROVE Inv'
  <2>1. ASSUME CleanUp PROVE Inv'
    BY <2>1, PurgeKeeps
  <2>2. ASSUME NEW keep, BranchKeepOnly(keep) PROVE Inv'
    BY <2>2, PurgeKeeps
  <2>. QED  BY <1>7, <2>1, <2>2, PruneKeeps, RebaseKeeps DEF CompactStep
<1>8. ASSUME UNCHANGED vars PROVE Inv'
  <2>1. UNCHANGED <<br_name_to_br_id, br_id_to_br_name, ver_name_to_ver_id,
                    ver_id_to_ver_name, br_to_its_vers, ver_to_change_set, layered_kv,
                    next_br_id, next_ver_id>>
    BY <1>8 DEF vars, names
  <2>2. Moves
    BY <1>1, <2>1 DEF Moves, BranchesNext, Versions, Numbers, Names, Back
  <2>. QED  BY <2>2, MovesKeep
<1>. QED  BY <1>2, <1>3, <1>4, <1>5, <1>6, <1>7, <1>8, RestartKeeps DEF Next

\* The invariant holds in every state.
LEMMA Invariant == Spec => []Inv
<1>1. Init => Inv
  BY InitInv
<1>2. Inv /\ [Next]_vars => Inv'
  BY NextInv
<1>. QED  BY <1>1, <1>2, PTL DEF Spec

\* Types: change sets are trees over the keys and the index has values of
\* allocated versions.
THEOREM TypeCorrect == Spec => []TypeOK
<1>1. Inv => TypeOK
  <2>. SUFFICES ASSUME Inv PROVE TypeOK
    OBVIOUS
  <2>1. Vs!VerIds = 0 .. next_ver_id - 1
    BY DEF Vs!VerIds
  <2>2. Vs!IsLayers(layered_kv, Vs!VerIds)
    BY <2>1, SameLayers DEF Inv, Data
  <2>3. DOMAIN ver_to_change_set \subseteq Vs!VerIds
    BY <2>1, VersionNumbers DEF Inv
  <2>4. \A v \in DOMAIN changed : changed[v] \subseteq Key
    BY ChangedIs DEF Inv, Data, TreesOf
  <2>. QED  BY <2>2, <2>3, <2>4 DEF TypeOK
<1>. QED  BY <1>1, Invariant, PTL

\* Every value of a change set on disk is in the index: the assertion of rebase
\* and prune holds.
THEOREM ChangesInLayersHolds == Spec => []ChangesInLayers
<1>1. Inv => ChangesInLayers
  <2>. SUFFICES ASSUME Inv, NEW v \in DOMAIN changed, NEW k \in changed[v]
                PROVE  /\ k \in DOMAIN layered_kv
                       /\ v \in DOMAIN layered_kv[k]
                       /\ layered_kv[k][v] = ChangedTo(v, k)
    BY DEF ChangesInLayers
  <2>1. v \in DOMAIN ver_to_change_set /\ k \in KeysOf(ver_to_change_set[v])
    BY ChangedIs
  <2>2. ChangedTo(v, k) = ver_to_change_set[v][k]
    BY <2>1, ChangedToIs
  <2>. QED  BY <2>1, <2>2 DEF Inv, Data, Agrees
<1>. QED  BY <1>1, Invariant, PTL

\* What the index has of a branch beyond the change sets are marks of deleted
\* keys: a restart loses no value.
THEOREM OnlyMarksInMemoryHolds == Spec => []OnlyMarksInMemory
<1>1. Inv => OnlyMarksInMemory
  <2>. SUFFICES ASSUME Inv, NEW k \in DOMAIN layered_kv,
                       NEW v \in DOMAIN layered_kv[k] \cap Vs!AllVers(br_to_its_vers)
                PROVE  k \in changed[v] \/ layered_kv[k][v] = NULL
    BY DEF OnlyMarksInMemory
  <2>1. v \in AllOf(br_to_its_vers)
    BY SameMaps
  <2>2. changed[v] = KeysOf(ver_to_change_set[v])
    BY <2>1, ChangedIs, VersionNumbers DEF Inv
  <2>. QED  BY <2>1, <2>2 DEF Inv, Data, MarksBeyond
<1>. QED  BY <1>1, Invariant, PTL

\* The maps of names agree, and every version on a branch is known.
THEOREM NamesKnownHolds == Spec => []NamesKnown
<1>1. Inv => NamesKnown
  BY SameNames, SameKnown DEF Inv, Versions, NamesKnown
<1>. QED  BY <1>1, Invariant, PTL

-----------------------------------------------------------------------------
(***************************************************************************)
(* What readers see.                                                       *)
(***************************************************************************)
\* What the layers kv have of key k in versions S: the value of the newest.
Seen(kv, k, S) ==
    LET row   == IF k \in DOMAIN kv THEN kv[k] ELSE EmptyMap
        found == DOMAIN row \cap S
    IN  IF found = {} THEN NULL ELSE row[Max(found)]

\* Version u is the one whose value that is.
SeenAt(kv, k, S, u) ==
    /\ k \in DOMAIN kv
    /\ u \in DOMAIN kv[k] \cap S
    /\ \A w \in DOMAIN kv[k] \cap S : w <= u

\* So the two say the same.
LEMMA SeenIs ==
  ASSUME NEW kv, NEW k, NEW n \in Nat, NEW S \in SUBSET (0 .. n)
  PROVE  /\ \A u : SeenAt(kv, k, S, u) => Seen(kv, k, S) = kv[k][u]
         /\ (\A u : ~SeenAt(kv, k, S, u)) => Seen(kv, k, S) = NULL
<1>1. PICK row : row = IF k \in DOMAIN kv THEN kv[k] ELSE EmptyMap
  OBVIOUS
<1>2. PICK found : found = DOMAIN row \cap S
  OBVIOUS
<1>3. Seen(kv, k, S) = IF found = {} THEN NULL ELSE row[Max(found)]
  BY <1>1, <1>2 DEF Seen
<1>4. found \in SUBSET (0 .. n) /\ found \subseteq Int
  <2>1. found \subseteq S /\ \A x \in 0 .. n : x \in Int
    BY <1>2
  <2>2. \A x \in found : x \in 0 .. n
    BY <2>1, Zenon
  <2>. QED  BY <2>1, <2>2, Zenon
<1>5. ASSUME NEW u, SeenAt(kv, k, S, u)
      PROVE  Seen(kv, k, S) = kv[k][u]
  <2>1. row = kv[k] /\ u \in found /\ \A w \in found : w <= u
    BY <1>1, <1>2, <1>5 DEF SeenAt
  <2>2. Max(found) = u
    BY <1>4, <2>1, MaxIs
  <2>. QED  BY <1>3, <2>1, <2>2
<1>6. ASSUME found # {}
      PROVE  SeenAt(kv, k, S, Max(found))
  <2>1. PICK m \in found : m = Max(found) /\ \A w \in found : w <= m
    BY <1>4, <1>6, MaxInSet
  <2>2. k \in DOMAIN kv /\ row = kv[k]
    BY <1>1, <1>2, <1>6 DEF EmptyMap
  <2>. QED  BY <1>2, <2>1, <2>2 DEF SeenAt
<1>. QED  BY <1>3, <1>5, <1>6

\* A read at a version is one of the versions up to it; a read of a branch one
\* of all its versions.
LEMMA GetSeen ==
  ASSUME NEW k, NEW b, NEW v
  PROVE  Get(k, b, v) = Seen(layered_kv, k, {w \in Vs!Vers(b) : w <= v})
<1>1. PICK row : row = IF k \in DOMAIN layered_kv THEN layered_kv[k] ELSE EmptyMap
  OBVIOUS
<1>2. Vs!KeyVers(k) = row
  BY <1>1, SameMaps DEF Vs!KeyVers
<1>3. PICK found : found = DOMAIN row \cap {w \in Vs!Vers(b) : w <= v}
  OBVIOUS
<1>4. Vs!UpTo(DOMAIN row \cap Vs!Vers(b), v) = found
  BY <1>3 DEF Vs!UpTo
<1>5. Vs!Max(found) = Max(found)
  BY DEF Vs!Max, Max
<1>6. Get(k, b, v) = IF found = {} THEN NULL ELSE row[Max(found)]
  BY <1>2, <1>4, <1>5 DEF Get, Vs!Get
<1>. QED  BY <1>1, <1>3, <1>6 DEF Seen

\* So in the next state.
LEMMA GetSeenNext ==
  ASSUME NEW k, NEW b, NEW v
  PROVE  Get(k, b, v)' = Seen(layered_kv', k, {w \in Vs!Vers(b)' : w <= v})
<1>1. PICK row : row = IF k \in DOMAIN layered_kv' THEN layered_kv'[k] ELSE EmptyMap
  OBVIOUS
<1>2. Vs!KeyVers(k)' = row
  BY <1>1, SameMaps DEF Vs!KeyVers
<1>3. PICK found : found = DOMAIN row \cap {w \in Vs!Vers(b)' : w <= v}
  OBVIOUS
<1>4. Vs!UpTo(DOMAIN row \cap Vs!Vers(b)', v) = found
  BY <1>3 DEF Vs!UpTo
<1>5. Vs!Max(found) = Max(found)
  BY DEF Vs!Max, Max
<1>6. Get(k, b, v)' = IF found = {} THEN NULL ELSE row[Max(found)]
  BY <1>2, <1>4, <1>5 DEF Get, Vs!Get
<1>. QED  BY <1>1, <1>3, <1>6 DEF Seen

\* The layers kn are kv, but that key k, if hit, is marked deleted in version h.
Marks(kv, kn, k, h, hit) ==
    /\ DOMAIN kn = DOMAIN kv
    /\ k \in DOMAIN kv => kn[k] = IF hit THEN MapInsert(kv[k], h, NULL) ELSE kv[k]

\* Removing by prefix adds marks to the newest version, and nothing else.
LEMMA MarkedSeen ==
  ASSUME NEW n \in Nat, NEW S \in SUBSET (0 .. n), NEW h \in S, \A w \in S : w <= h,
         NEW k, NEW kv, NEW kn, NEW hit \in BOOLEAN, Marks(kv, kn, k, h, hit),
         NEW v \in S, NEW T, T = {w \in S : w <= v}
  PROVE  Seen(kn, k, T) = IF hit /\ v = h THEN NULL ELSE Seen(kv, k, T)
<1>1. PICK U \in SUBSET (0 .. n) : U = T
  OBVIOUS
<1>2. /\ \A u : SeenAt(kv, k, U, u) => Seen(kv, k, U) = kv[k][u]
      /\ (\A u : ~SeenAt(kv, k, U, u)) => Seen(kv, k, U) = NULL
  BY SeenIs, Zenon
<1>3. /\ \A u : SeenAt(kn, k, U, u) => Seen(kn, k, U) = kn[k][u]
      /\ (\A u : ~SeenAt(kn, k, U, u)) => Seen(kn, k, U) = NULL
  BY SeenIs, Zenon
<1>4. ASSUME \A u : SeenAt(kn, k, U, u) <=> SeenAt(kv, k, U, u),
             \A u : SeenAt(kv, k, U, u) => kn[k][u] = kv[k][u]
      PROVE  Seen(kn, k, U) = Seen(kv, k, U)
  <2>1. CASE \E u : SeenAt(kv, k, U, u)
    <3>1. PICK u : SeenAt(kv, k, U, u)
      BY <2>1
    <3>2. Seen(kv, k, U) = kv[k][u] /\ Seen(kn, k, U) = kn[k][u] /\ kn[k][u] = kv[k][u]
      BY <1>2, <1>3, <1>4, <3>1, Zenon
    <3>. QED  BY <3>2
  <2>2. CASE \A u : ~SeenAt(kv, k, U, u)
    BY <1>2, <1>3, <1>4, <2>2, Zenon
  <2>. QED  BY <2>1, <2>2
<1>5. Seen(kn, k, U) = IF hit /\ v = h THEN NULL ELSE Seen(kv, k, U)
  <2>1. CASE k \notin DOMAIN kv
    <3>1. \A u : ~SeenAt(kn, k, U, u) /\ ~SeenAt(kv, k, U, u)
      BY <2>1 DEF SeenAt, Marks
    <3>. QED  BY <1>2, <1>3, <3>1
  <2>2. CASE k \in DOMAIN kv /\ ~hit
    <3>1. kn[k] = kv[k]
      BY <2>2 DEF Marks
    <3>2. \A u : SeenAt(kn, k, U, u) <=> SeenAt(kv, k, U, u)
      BY <2>2, <3>1 DEF SeenAt, Marks
    <3>. QED  BY <1>4, <2>2, <3>1, <3>2
  <2>3. CASE k \in DOMAIN kv /\ hit
    <3>1. PICK row, row2 : row = kv[k] /\ row2 = kn[k]
      OBVIOUS
    <3>2. row2 = MapInsert(row, h, NULL)
      BY <2>3, <3>1 DEF Marks
    <3>3. /\ DOMAIN row2 = DOMAIN row \cup {h} /\ row2[h] = NULL
          /\ \A w \in DOMAIN row : w # h => row2[w] = row[w]
      BY <3>2 DEF MapInsert
    <3>4. CASE v = h
      <4>1. U = S
        BY <1>1, <3>4
      <4>2. SeenAt(kn, k, U, h)
        BY <2>3, <3>1, <3>3, <4>1 DEF SeenAt, Marks
      <4>3. Seen(kn, k, U) = NULL
        BY <1>3, <3>1, <3>3, <4>2
      <4>. QED  BY <2>3, <3>4, <4>3
    <3>5. CASE v # h
      <4>1. v \in Int /\ h \in Int /\ v <= h
        OBVIOUS
      <4>2. h \notin U
        BY <1>1, <3>5, <4>1
      <4>3. \A u : SeenAt(kn, k, U, u) <=> SeenAt(kv, k, U, u)
        BY <2>3, <3>1, <3>3, <4>2 DEF SeenAt, Marks
      <4>4. \A u : SeenAt(kv, k, U, u) => kn[k][u] = kv[k][u]
        BY <3>1, <3>3, <4>2 DEF SeenAt
      <4>. QED  BY <1>4, <3>5, <4>3, <4>4
    <3>. QED  BY <3>4, <3>5
  <2>. QED  BY <2>1, <2>2, <2>3
<1>. QED  BY <1>1, <1>5

\* The removal of a prefix, of keys inherited from older versions too, hides the
\* keys under it from the newest version of the branch on, and no others.
THEOREM PrefixRemovalHidesHolds == Spec => PrefixRemovalHides
<1>1. ASSUME Inv, NEW b, NEW p, BatchRemove(b, p), NEW k \in Key, NEW v \in Vs!Vers(b)
      PROVE  Get(k, b, v)' = IF StartsWith(k, p) /\ v \in Newest(b) THEN NULL
                             ELSE Get(k, b, v)
  <2>1. PICK h \in Newest(b) : br_to_its_vers' = br_to_its_vers /\ layered_kv' = Marked(p, h)
    BY <1>1 DEF BatchRemove
  <2>2. PICK S : S = Vs!Vers(b)
    OBVIOUS
  <2>3. PICK n \in Nat : S \in SUBSET (0 .. n)
    <3>1. S \subseteq 0 .. next_ver_id - 1 /\ next_ver_id \in Nat
      BY <1>1, <2>2, VersAre, VersionNumbers DEF Inv
    <3>2. S \in SUBSET (0 .. next_ver_id)
      BY <3>1
    <3>. QED  BY <3>1, <3>2
  <2>4. h \in S /\ \A w \in S : w <= h
    BY <2>2 DEF Newest, Vs!IsLast
  <2>5. v \in Newest(b) <=> v = h
    <3>1. v \in Newest(b) => v <= h /\ h <= v
      BY <2>2, <2>4 DEF Newest, Vs!IsLast
    <3>2. v \in Int /\ h \in Int
      BY <1>1, <2>2, <2>3, <2>4
    <3>. QED  BY <3>1, <3>2
  <2>6. Vs!Vers(b)' = S
    BY <2>1, <2>2 DEF Vs!Vers
  <2>7. PICK kv, kn, hit : kv = layered_kv /\ kn = layered_kv' /\ hit = StartsWith(k, p)
    OBVIOUS
  <2>8. hit \in BOOLEAN
    BY <2>7 DEF StartsWith, Seqs!IsPrefix
  <2>9. Marks(kv, kn, k, h, hit)
    BY <2>1, <2>7 DEF Marked, Marks
  <2>10. PICK T : T = {w \in S : w <= v}
    OBVIOUS
  <2>11. Seen(kn, k, T) = IF hit /\ v = h THEN NULL ELSE Seen(kv, k, T)
    <3>1. v \in S /\ h \in S /\ (\A w \in S : w <= h) /\ n \in Nat /\ S \in SUBSET (0 .. n)
      BY <1>1, <2>2, <2>3, <2>4
    <3>. QED  BY <2>8, <2>9, <2>10, <3>1, MarkedSeen
  <2>12. Get(k, b, v) = Seen(kv, k, T)
    BY <2>2, <2>7, <2>10, GetSeen
  <2>13. Get(k, b, v)' = Seen(kn, k, T)
    BY <2>6, <2>7, <2>10, GetSeenNext
  <2>. QED  BY <2>5, <2>7, <2>11, <2>12, <2>13
<1>2. Inv => (\A b \in Vs!Branches, p \in KeyPrefix : BatchRemove(b, p) =>
                \A k \in Key : \A v \in Vs!Vers(b) :
                   Get(k, b, v)' = IF StartsWith(k, p) /\ v \in Newest(b) THEN NULL
                                   ELSE Get(k, b, v))
  BY <1>1
<1>. QED  BY <1>2, Invariant, PTL DEF PrefixRemovalHides

-----------------------------------------------------------------------------
(***************************************************************************)
(* Clean-up, prune, rebase and restart keep what branches read.            *)
(***************************************************************************)
\* A value that versions of branches show is in a change set.
LEMMA HeadIs ==
  ASSUME Inv, NEW S \in SUBSET AllOf(br_to_its_vers), NEW k, Seen(layered_kv, k, S) # NULL
  PROVE  \E u : /\ SeenAt(layered_kv, k, S, u)
                /\ Seen(layered_kv, k, S) = layered_kv[k][u]
                /\ u \in DOMAIN ver_to_change_set
                /\ k \in KeysOf(ver_to_change_set[u])
<1>1. PICK n \in Nat : n = next_ver_id
  BY VersionNumbers DEF Inv
<1>2. PICK U \in SUBSET (0 .. n) : U = S
  <2>1. S \subseteq 0 .. next_ver_id - 1 /\ next_ver_id \in Nat
    BY VersionNumbers DEF Inv
  <2>2. S \subseteq 0 .. n
    BY <1>1, <2>1
  <2>. QED  BY <2>2
<1>3. PICK kv : kv = layered_kv
  OBVIOUS
<1>4. /\ \A u : SeenAt(kv, k, U, u) => Seen(kv, k, U) = kv[k][u]
      /\ (\A u : ~SeenAt(kv, k, U, u)) => Seen(kv, k, U) = NULL
  BY SeenIs, Zenon
<1>5. PICK u : SeenAt(kv, k, U, u)
  BY <1>2, <1>3, <1>4, Zenon
<1>6. Seen(kv, k, U) = kv[k][u]
  BY <1>4, <1>5, Zenon
<1>7. k \in DOMAIN layered_kv /\ u \in DOMAIN layered_kv[k] \cap AllOf(br_to_its_vers)
  BY <1>2, <1>3, <1>5 DEF SeenAt
<1>8. u \in DOMAIN ver_to_change_set
  BY <1>7, VersionNumbers DEF Inv
<1>9. layered_kv[k][u] # NULL
  BY <1>2, <1>3, <1>6
<1>10. k \in KeysOf(ver_to_change_set[u])
  BY <1>7, <1>9 DEF Inv, Data, MarksBeyond
<1>. QED  BY <1>2, <1>3, <1>5, <1>6, <1>8, <1>10

\* What versions of branches show is the value of the one with the newest.
LEMMA SeenBy ==
  ASSUME Inv, NEW S \in SUBSET AllOf(br_to_its_vers), NEW kn, NEW k, NEW u, SeenAt(kn, k, S, u)
  PROVE  Seen(kn, k, S) = kn[k][u]
<1>1. PICK n \in Nat : n = next_ver_id
  BY VersionNumbers DEF Inv
<1>2. PICK U \in SUBSET (0 .. n) : U = S
  <2>1. S \subseteq 0 .. next_ver_id - 1 /\ next_ver_id \in Nat
    BY VersionNumbers DEF Inv
  <2>2. S \subseteq 0 .. n
    BY <1>1, <2>1
  <2>. QED  BY <2>2
<1>3. /\ \A w : SeenAt(kn, k, U, w) => Seen(kn, k, U) = kn[k][w]
      /\ (\A w : ~SeenAt(kn, k, U, w)) => Seen(kn, k, U) = NULL
  BY SeenIs, Zenon
<1>. QED  BY <1>2, <1>3

\* Layers that lose no value of a change set show the same values.
LEMMA ShrinkSees ==
  ASSUME Inv, NEW S \in SUBSET AllOf(br_to_its_vers), NEW k, Seen(layered_kv, k, S) # NULL,
         NEW kn,
         k \in DOMAIN kn =>
            \A v \in DOMAIN kn[k] : /\ k \in DOMAIN layered_kv /\ v \in DOMAIN layered_kv[k]
                                    /\ kn[k][v] = layered_kv[k][v],
         \A u \in S : k \in KeysOf(ver_to_change_set[u]) => k \in DOMAIN kn /\ u \in DOMAIN kn[k]
  PROVE  Seen(kn, k, S) = Seen(layered_kv, k, S)
<1>1. PICK u : /\ SeenAt(layered_kv, k, S, u)
               /\ Seen(layered_kv, k, S) = layered_kv[k][u]
               /\ k \in KeysOf(ver_to_change_set[u])
  BY HeadIs
<1>2. u \in S /\ k \in DOMAIN kn /\ u \in DOMAIN kn[k]
  BY <1>1 DEF SeenAt
<1>3. SeenAt(kn, k, S, u)
  BY <1>1, <1>2 DEF SeenAt
<1>4. Seen(kn, k, S) = kn[k][u]
  BY <1>3, SeenBy
<1>. QED  BY <1>1, <1>2, <1>4

\* Versions F are joined into a base, without the keys of `dead` that they leave
\* deleted, and versions O dropped.
Joins(O, F, base, dead) ==
    /\ F \in SUBSET DOMAIN ver_to_change_set
    /\ base \in DOMAIN ver_to_change_set \ (O \cup F)
    /\ \A k \in dead : LastValue(F, k) = NULL
    /\ Puts(O \cup F, base, LastIn(F), dead)
    /\ PutsInLayers(O \cup F, base, LastIn(F), dead)
    /\ JoinsOnly(base, LastIn(F), dead)

\* Versions S have none of the versions joined, or all of them and the base
\* with nothing in between.
Beside(S, F, base) == S \cap F = {} /\ base \notin S
Upon(S, F, base)   == /\ F \subseteq S /\ base \in S
                      /\ \A f \in F : base < f
                      /\ \A f \in F, w \in S : w <= f => w \in F \/ w <= base

\* Joining shows the same values to versions that have none of those joined,
\* and to versions that have all.
LEMMA JoinSees ==
  ASSUME Inv, NEW O, NEW F, NEW base, NEW dead, Joins(O, F, base, dead),
         NEW S \in SUBSET AllOf(br_to_its_vers), S \cap O = {},
         Beside(S, F, base) \/ Upon(S, F, base),
         NEW k, Seen(layered_kv, k, S) # NULL
  PROVE  Seen(layered_kv', k, S \ F) = Seen(layered_kv, k, S)
<1>0. /\ F \in SUBSET DOMAIN ver_to_change_set
      /\ base \in DOMAIN ver_to_change_set \ (O \cup F)
      /\ \A x \in dead : LastValue(F, x) = NULL
      /\ Puts(O \cup F, base, LastIn(F), dead)
      /\ PutsInLayers(O \cup F, base, LastIn(F), dead)
      /\ JoinsOnly(base, LastIn(F), dead)
  BY DEF Joins
<1>1. PICK u : /\ SeenAt(layered_kv, k, S, u)
               /\ Seen(layered_kv, k, S) = layered_kv[k][u]
               /\ u \in DOMAIN ver_to_change_set
               /\ k \in KeysOf(ver_to_change_set[u])
  BY HeadIs
<1>2. PICK new, kv, kn : new = LastIn(F) /\ kv = layered_kv /\ kn = layered_kv'
  OBVIOUS
<1>3. PICK T \in SUBSET AllOf(br_to_its_vers) : T = S \ F
  OBVIOUS
<1>4. /\ k \in DOMAIN kv /\ u \in DOMAIN kv[k] /\ u \in S
      /\ \A w \in DOMAIN kv[k] \cap S : w <= u
      /\ kv[k][u] # NULL
  BY <1>1, <1>2 DEF SeenAt
<1>5. DOMAIN new = KeysIn(F) /\ \A x \in KeysIn(F) : new[x] = LastValue(F, x)
  BY <1>0, <1>2, LastInIs
<1>6. \A w \in S : w \in Int
  BY VersionNumbers DEF Inv
<1>7. base \in Int
  BY <1>0, VersionNumbers DEF Inv
<1>8. k \in DOMAIN kn => \A v \in DOMAIN kn[k] :
        \/ v = base /\ k \in DOMAIN new \ dead /\ kn[k][v] = new[k]
        \/ (v # base \/ k \notin DOMAIN new) /\ v \in DOMAIN kv[k] /\ kn[k][v] = kv[k][v]
  BY <1>0, <1>2 DEF JoinsOnly
<1>9. \A v \in DOMAIN kv[k] \ (O \cup F) :
        \/ v = base /\ k \in DOMAIN new
        \/ k \in DOMAIN kn /\ v \in DOMAIN kn[k]
  BY <1>0, <1>2, <1>4 DEF PutsInLayers
<1>10. k \in KeysIn(F) =>
         \E f \in With(F, k) : /\ \A v \in With(F, k) : v <= f
                               /\ f \in DOMAIN kv[k]
                               /\ kv[k][f] = LastValue(F, k)
  BY <1>0, <1>2, LastIs
<1>11. With(F, k) \subseteq F /\ (u \in F => u \in With(F, k) /\ k \in KeysIn(F))
  BY <1>1, ChangedIs DEF With, KeysIn
<1>12. CASE Upon(S, F, base) /\ u \in F
  <2>1. PICK f \in With(F, k) : /\ \A v \in With(F, k) : v <= f
                                /\ f \in DOMAIN kv[k] /\ kv[k][f] = LastValue(F, k)
    BY <1>10, <1>11, <1>12
  <2>2. u <= f /\ f <= u /\ f \in S
    BY <1>4, <1>11, <1>12, <2>1 DEF Upon
  <2>3. f = u
    BY <1>4, <1>6, <2>2
  <2>4. k \in KeysIn(F) /\ LastValue(F, k) = kv[k][u] /\ k \notin dead
    BY <1>0, <1>4, <1>11, <1>12, <2>1, <2>3
  <2>5. base \in DOMAIN ver_to_change_set'
    BY <1>0 DEF Puts
  <2>6. k \in DOMAIN kn /\ base \in DOMAIN kn[k]
    BY <1>0, <1>2, <1>5, <2>4, <2>5 DEF PutsInLayers
  <2>7. kn[k][base] = kv[k][u]
    BY <1>5, <1>8, <2>4, <2>6
  <2>8. ASSUME NEW w \in DOMAIN kn[k] \cap T
        PROVE  w <= base
    <3>1. w = base \/ w \in DOMAIN kv[k]
      BY <1>8, <2>6
    <3>2. w \in DOMAIN kv[k] => w <= u
      BY <1>3, <1>4
    <3>3. w \in S /\ w \notin F
      BY <1>3
    <3>. QED  BY <1>7, <1>12, <3>1, <3>2, <3>3 DEF Upon
  <2>9. SeenAt(kn, k, T, base)
    BY <1>0, <1>3, <1>12, <2>6, <2>8 DEF SeenAt, Upon
  <2>10. Seen(kn, k, T) = kn[k][base]
    BY <2>9, SeenBy
  <2>. QED  BY <1>1, <1>2, <1>3, <2>7, <2>10
<1>13. CASE u \notin F
  <2>1. ASSUME Upon(S, F, base), NEW f \in With(F, k), f \in DOMAIN kv[k]
        PROVE  base < u
    <3>1. f \in S /\ base < f
      BY <1>11, <2>1 DEF Upon
    <3>2. f <= u
      BY <1>4, <2>1, <3>1
    <3>. QED  BY <1>4, <1>6, <1>7, <3>1, <3>2
  <2>2. u = base => k \notin KeysIn(F)
    <3>1. CASE Beside(S, F, base)
      BY <1>4, <3>1 DEF Beside
    <3>2. CASE Upon(S, F, base)
      BY <1>7, <1>10, <2>1, <3>2
    <3>. QED  BY <3>1, <3>2
  <2>3. k \in DOMAIN kn /\ u \in DOMAIN kn[k]
    BY <1>4, <1>5, <1>9, <1>13, <2>2
  <2>4. kn[k][u] = kv[k][u]
    BY <1>5, <1>8, <2>2, <2>3
  <2>5. ASSUME NEW w \in DOMAIN kn[k] \cap T
        PROVE  w <= u
    <3>1. CASE w \in DOMAIN kv[k]
      BY <1>3, <1>4, <3>1
    <3>2. CASE w = base /\ k \in KeysIn(F)
      <4>1. Upon(S, F, base)
        BY <1>3, <3>2 DEF Beside
      <4>2. base < u
        BY <1>10, <2>1, <3>2, <4>1
      <4>. QED  BY <1>4, <1>6, <1>7, <3>2, <4>2
    <3>. QED  BY <1>5, <1>8, <2>3, <3>1, <3>2
  <2>6. SeenAt(kn, k, T, u)
    BY <1>3, <1>4, <1>13, <2>3, <2>5 DEF SeenAt
  <2>7. Seen(kn, k, T) = kn[k][u]
    BY <2>6, SeenBy
  <2>. QED  BY <1>1, <1>2, <1>3, <2>4, <2>7
<1>14. u \in F => ~Beside(S, F, base)
  BY <1>4 DEF Beside
<1>. QED  BY <1>12, <1>13, <1>14

\* A prune merges, on each branch, what comes next after the base.
LEMMA PruneUpon ==
  ASSUME Versions, NEW r \in Nat, NEW F, F = Vs!Mergeable(r), F # {},
         NEW b \in DOMAIN br_to_its_vers, br_to_its_vers[b] # {}
  PROVE  Upon(br_to_its_vers[b], F, Min(Vs!SharedVers))
<1>1. PICK base, Sh : base = Min(Vs!SharedVers) /\ Sh = Vs!SharedVers
  OBVIOUS
<1>2. /\ F \subseteq Sh /\ base \in Sh
      /\ \A v \in Sh : base <= v
      /\ \A v \in F : base < v
  BY <1>1, MergeableIs
<1>3. \A v \in Sh : /\ v \in br_to_its_vers[b]
                    /\ \A w \in br_to_its_vers[b] : w <= v => w \in Sh
  BY <1>1, SharedIs
<1>4. Sh \in SUBSET Nat /\ IsFiniteSet(Sh)
  <2>1. Sh \subseteq AllOf(br_to_its_vers)
    BY <1>1, SharedIs
  <2>2. next_ver_id \in Nat /\ Sh \subseteq 0 .. next_ver_id - 1
    BY <2>1, VersionNumbers
  <2>3. IsFiniteSet(0 .. next_ver_id - 1)
    BY <2>2, FS_Interval
  <2>4. PICK ids : ids = 0 .. next_ver_id - 1
    OBVIOUS
  <2>5. IsFiniteSet(ids) /\ Sh \subseteq ids
    BY <2>2, <2>3, <2>4
  <2>6. IsFiniteSet(Sh)
    BY <2>5, FS_Subset
  <2>7. \A v \in Sh : v \in Nat
    BY <2>2
  <2>. QED  BY <2>6, <2>7
<1>5. \A X : Vs!Cardinality(X) = Cardinality(X)
  BY DEF Vs!Cardinality, Cardinality
<1>6. F = {v \in Sh : /\ r # 0
                      /\ \E u \in Sh : u < v
                      /\ Cardinality({w \in Sh : w > v}) >= r - 1}
  BY <1>1, <1>5 DEF Vs!Mergeable
<1>7. ASSUME NEW f \in F, NEW w \in Sh, w <= f, base # w
      PROVE  w \in F
  <2> DEFINE newer(x) == {y \in Sh : y > x}
  <2>1. f \in Sh /\ r # 0 /\ Cardinality(newer(f)) >= r - 1
    BY <1>6
  <2>2. newer(f) \subseteq newer(w) /\ IsFiniteSet(newer(w))
    <3>1. newer(w) \subseteq Sh
      OBVIOUS
    <3>2. IsFiniteSet(newer(w))
      BY <1>4, <3>1, FS_Subset
    <3>3. \A y \in Sh : y > f => y > w
      BY <1>4, <1>7, <2>1
    <3>. QED  BY <3>2, <3>3
  <2>3. Cardinality(newer(f)) <= Cardinality(newer(w))
    BY <2>2, FS_Subset
  <2>4. Cardinality(newer(f)) \in Nat /\ Cardinality(newer(w)) \in Nat
    BY <2>2, FS_Subset, FS_CardinalityType
  <2>5. Cardinality(newer(w)) >= r - 1
    BY <2>1, <2>3, <2>4
  <2>6. base < w
    BY <1>2, <1>4, <1>7
  <2>. QED  BY <1>2, <1>6, <2>1, <2>5, <2>6
<1>8. ASSUME NEW f \in F, NEW w \in br_to_its_vers[b], w <= f
      PROVE  w \in F \/ w <= base
  <2>1. w \in Sh
    BY <1>2, <1>3, <1>8
  <2>2. CASE w = base
    BY <1>2, <1>4, <2>2
  <2>. QED  BY <1>7, <1>8, <2>1, <2>2
<1>9. F \subseteq br_to_its_vers[b] /\ base \in br_to_its_vers[b]
  BY <1>2, <1>3
<1>. QED  BY <1>1, <1>2, <1>8, <1>9 DEF Upon

\* A prune leaves what branches read as it was.
LEMMA PruneSees ==
  ASSUME Inv, NEW r \in Nat, NEW F, F = Vs!Mergeable(r), F # {},
         NEW base, base = Min(Vs!SharedVers), PruneInto(F, base),
         NEW b \in DOMAIN br_to_its_vers, NEW k, Seen(layered_kv, k, br_to_its_vers[b]) # NULL
  PROVE  Seen(layered_kv', k, br_to_its_vers'[b]) = Seen(layered_kv, k, br_to_its_vers[b])
<1>1. F \subseteq Vs!SharedVers /\ base \in Vs!SharedVers \ F
  BY MergeableIs DEF Inv
<1>2. PICK O \in SUBSET DOMAIN ver_to_change_set :
        /\ O = DOMAIN ver_to_change_set \ AllOf(br_to_its_vers)
        /\ F \in SUBSET DOMAIN ver_to_change_set
        /\ base \in DOMAIN ver_to_change_set \ (O \cup F)
        /\ \A c \in DOMAIN br_to_its_vers : br_to_its_vers'[c] = br_to_its_vers[c] \ F
        /\ Puts(O \cup F, base, LastIn(F), Dead(F))
        /\ PutsInLayers(O \cup F, base, LastIn(F), Dead(F))
        /\ JoinsOnly(base, LastIn(F), Dead(F))
  BY <1>1, PruneJoins
<1>6. PICK S \in SUBSET AllOf(br_to_its_vers) : S = br_to_its_vers[b]
  BY DEF AllOf, Range
<1>7. S # {}
  <2>1. \E u : SeenAt(layered_kv, k, S, u)
    BY <1>6, HeadIs
  <2>. QED  BY <2>1 DEF SeenAt
<1>8. Upon(S, F, base)
  BY <1>6, <1>7, PruneUpon DEF Inv
<1>9. S \cap O = {}
  BY <1>2, <1>6
<1>10. Joins(O, F, base, Dead(F))
  BY <1>2 DEF Joins, Dead
<1>11. Seen(layered_kv', k, S \ F) = Seen(layered_kv, k, S)
  BY <1>6, <1>8, <1>9, <1>10, JoinSees
<1>. QED  BY <1>2, <1>6, <1>11

\* So does a rebase.
LEMMA RebaseSees ==
  ASSUME Inv, NEW c, NEW base, Vs!RebaseDuty(c, base), VersionRebase(c, base),
         NEW b \in DOMAIN br_to_its_vers, NEW k, Seen(layered_kv, k, br_to_its_vers[b]) # NULL
  PROVE  Seen(layered_kv', k, br_to_its_vers'[b]) = Seen(layered_kv, k, br_to_its_vers[b])
<1>1. PICK F \in SUBSET DOMAIN ver_to_change_set :
           /\ c \in DOMAIN br_to_its_vers /\ base \in br_to_its_vers[c] \ F
           /\ F = {v \in br_to_its_vers[c] : v > base}
           /\ \A d \in DOMAIN br_to_its_vers \ {c} : \A v \in br_to_its_vers[d] : v < base
           /\ br_to_its_vers'[c] = br_to_its_vers[c] \ F
           /\ \A d \in DOMAIN br_to_its_vers \ {c} : br_to_its_vers'[d] = br_to_its_vers[d]
           /\ Puts(F, base, LastIn(F), {})
           /\ layered_kv' = [x \in DOMAIN layered_kv |->
                               Vs!MergeInto(layered_kv[x], With(F, x), base)]
  BY RebaseIs
<1>2. /\ AllOf(br_to_its_vers) \subseteq DOMAIN ver_to_change_set
      /\ DOMAIN ver_to_change_set \subseteq 0 .. next_ver_id - 1
  BY VersionNumbers DEF Inv
<1>3. \A d \in DOMAIN br_to_its_vers : br_to_its_vers[d] \subseteq AllOf(br_to_its_vers)
  BY DEF AllOf, Range
<1>4. base \in DOMAIN ver_to_change_set \ F
  BY <1>1, <1>2, <1>3
<1>5. PutsInLayers(F, base, LastIn(F), {}) /\ JoinsOnly(base, LastIn(F), {})
  BY <1>1, <1>4, RebasePuts
<1>6. PICK S \in SUBSET AllOf(br_to_its_vers) : S = br_to_its_vers[b]
  BY <1>3
<1>7. base \in Int /\ \A v \in AllOf(br_to_its_vers) : v \in Int
  BY <1>2, <1>4
<1>8. Joins({}, F, base, {})
  BY <1>1, <1>4, <1>5 DEF Joins
<1>9. CASE b = c
  <2>1. Upon(S, F, base)
    <3>1. F \subseteq S /\ base \in S /\ \A f \in F : base < f
      BY <1>1, <1>6, <1>7, <1>9
    <3>2. \A w \in S : w \in F \/ w <= base
      BY <1>1, <1>6, <1>7, <1>9
    <3>. QED  BY <3>1, <3>2 DEF Upon
  <2>2. br_to_its_vers'[b] = S \ F
    BY <1>1, <1>6, <1>9
  <2>3. Seen(layered_kv', k, S \ F) = Seen(layered_kv, k, S)
    BY <1>6, <1>8, <2>1, JoinSees
  <2>. QED  BY <1>6, <2>2, <2>3
<1>10. CASE b # c
  <2>1. \A v \in S : v < base
    BY <1>1, <1>6, <1>10
  <2>2. Beside(S, F, base)
    BY <1>1, <1>7, <2>1 DEF Beside
  <2>3. br_to_its_vers'[b] = S \ F
    BY <1>1, <1>6, <1>10, <2>2 DEF Beside
  <2>4. Seen(layered_kv', k, S \ F) = Seen(layered_kv, k, S)
    BY <1>6, <1>8, <2>2, JoinSees
  <2>. QED  BY <1>6, <2>3, <2>4
<1>. QED  BY <1>9, <1>10

\* So do clean-up and the removal of branches from the others.
LEMMA PurgeSees ==
  ASSUME Inv, CleanUp \/ \E keep : BranchKeepOnly(keep),
         NEW b \in DOMAIN br_to_its_vers, b \in DOMAIN br_to_its_vers',
         NEW k, Seen(layered_kv, k, br_to_its_vers[b]) # NULL
  PROVE  Seen(layered_kv', k, br_to_its_vers'[b]) = Seen(layered_kv, k, br_to_its_vers[b])
<1>1. PICK O : /\ Drops(O)
               /\ AllOf(br_to_its_vers') \subseteq AllOf(br_to_its_vers) \ O
               /\ \A c \in DOMAIN br_to_its_vers' : br_to_its_vers'[c] = br_to_its_vers[c]
  BY PurgeDrops
<1>2. PICK S \in SUBSET AllOf(br_to_its_vers) : S = br_to_its_vers[b]
  BY DEF AllOf, Range
<1>3. br_to_its_vers'[b] = S /\ S \cap O = {}
  <2>1. br_to_its_vers'[b] \subseteq AllOf(br_to_its_vers')
    BY DEF AllOf, Range
  <2>. QED  BY <1>1, <1>2, <2>1
<1>4. k \in DOMAIN layered_kv' =>
        \A v \in DOMAIN layered_kv'[k] :
           /\ k \in DOMAIN layered_kv /\ v \in DOMAIN layered_kv[k]
           /\ layered_kv'[k][v] = layered_kv[k][v]
  BY <1>1 DEF Drops
<1>5. ASSUME NEW u \in S, k \in KeysOf(ver_to_change_set[u])
      PROVE  k \in DOMAIN layered_kv' /\ u \in DOMAIN layered_kv'[k]
  <2>1. u \in DOMAIN ver_to_change_set /\ u \notin O
    BY <1>3, VersionNumbers DEF Inv
  <2>2. k \in DOMAIN layered_kv /\ u \in DOMAIN layered_kv[k]
    BY <1>5, <2>1 DEF Inv, Data, Agrees
  <2>. QED  BY <1>1, <2>1, <2>2 DEF Drops
<1>6. PICK kn : kn = layered_kv'
  OBVIOUS
<1>7. Seen(kn, k, S) = Seen(layered_kv, k, S)
  BY <1>2, <1>4, <1>5, <1>6, ShrinkSees
<1>. QED  BY <1>2, <1>3, <1>6, <1>7

\* So does a restart.
LEMMA RestartSees ==
  ASSUME Inv, Restart,
         NEW b \in DOMAIN br_to_its_vers, NEW k, Seen(layered_kv, k, br_to_its_vers[b]) # NULL
  PROVE  Seen(layered_kv', k, br_to_its_vers'[b]) = Seen(layered_kv, k, br_to_its_vers[b])
<1>1. /\ \A x \in DOMAIN layered_kv' : \A v \in DOMAIN layered_kv'[x] :
              /\ x \in DOMAIN layered_kv /\ v \in DOMAIN layered_kv[x]
              /\ layered_kv'[x][v] = layered_kv[x][v]
      /\ \A v \in DOMAIN ver_to_change_set : \A x \in KeysOf(ver_to_change_set[v]) :
              x \in DOMAIN layered_kv' /\ v \in DOMAIN layered_kv'[x]
      /\ br_to_its_vers' = br_to_its_vers
  BY RestartIs
<1>2. PICK S \in SUBSET AllOf(br_to_its_vers) : S = br_to_its_vers[b]
  BY DEF AllOf, Range
<1>3. S \subseteq DOMAIN ver_to_change_set
  BY VersionNumbers DEF Inv
<1>4. PICK kn : kn = layered_kv'
  OBVIOUS
<1>5. Seen(kn, k, S) = Seen(layered_kv, k, S)
  BY <1>1, <1>2, <1>3, <1>4, ShrinkSees
<1>. QED  BY <1>1, <1>2, <1>4, <1>5

\* A read of a branch shows what all of its versions show.
LEMMA BranchSeen ==
  ASSUME Versions, NEW k, NEW b \in DOMAIN br_to_its_vers
  PROVE  GetByBranch(k, b) = Seen(layered_kv, k, br_to_its_vers[b])
<1>1. PICK S : S = br_to_its_vers[b]
  OBVIOUS
<1>2. Vs!Vers(b) = S
  BY <1>1, VersAre
<1>3. GetByBranch(k, b) = IF S = {} THEN NULL ELSE Vs!Get(k, b, Vs!Max(S))
  BY <1>2 DEF GetByBranch, Vs!GetByBranch
<1>4. CASE S = {}
  BY <1>1, <1>3, <1>4 DEF Seen
<1>5. CASE S # {}
  <2>1. PICK n \in Nat : n = next_ver_id
    BY VersionNumbers
  <2>2. S \subseteq AllOf(br_to_its_vers)
    BY <1>1 DEF AllOf, Range
  <2>3. S \in SUBSET (0 .. n)
    <3>1. \A v \in S : v \in 0 .. next_ver_id - 1
      BY <2>2, VersionNumbers
    <3>2. \A v \in S : v \in 0 .. n
      BY <2>1, <3>1
    <3>. QED  BY <3>2
  <2>4. \A w \in S : w <= Max(S)
    BY <1>5, <2>3, MaxInSet
  <2>5. Vs!Max(S) = Max(S)
    BY DEF Vs!Max, Max
  <2>6. GetByBranch(k, b) = Get(k, b, Max(S))
    BY <1>3, <1>5, <2>5 DEF Get
  <2>7. Get(k, b, Max(S)) = Seen(layered_kv, k, {w \in S : w <= Max(S)})
    BY <1>2, GetSeen
  <2>8. {w \in S : w <= Max(S)} = S
    BY <2>4
  <2>. QED  BY <1>1, <2>6, <2>7, <2>8
<1>. QED  BY <1>4, <1>5

\* So in the next state.
LEMMA BranchSeenNext ==
  ASSUME Versions', NEW k, NEW b \in DOMAIN br_to_its_vers'
  PROVE  GetByBranch(k, b)' = Seen(layered_kv', k, br_to_its_vers'[b])
<1>1. PICK S : S = br_to_its_vers'[b]
  OBVIOUS
<1>2. Vs!Vers(b)' = S
  BY <1>1 DEF Vs!Vers
<1>3. PICK max : max = Max(S)
  OBVIOUS
<1>4. Vs!Max(S) = max
  BY <1>3 DEF Vs!Max, Max
<1>5. GetByBranch(k, b)' = IF S = {} THEN NULL ELSE Vs!Get(k, b, max)'
  BY <1>2, <1>4 DEF GetByBranch, Vs!GetByBranch, Vs!Get
<1>6. CASE S = {}
  BY <1>1, <1>5, <1>6 DEF Seen
<1>7. CASE S # {}
  <2>1. PICK n \in Nat : n = next_ver_id'
    BY DEF Versions, Numbers
  <2>2. S \subseteq AllOf(br_to_its_vers')
    BY <1>1 DEF AllOf, Range
  <2>3. S \in SUBSET (0 .. n)
    <3>1. \A v \in S : v \in 0 .. next_ver_id' - 1
      BY <2>2 DEF Versions, Numbers, Known
    <3>2. \A v \in S : v \in 0 .. n
      BY <2>1, <3>1
    <3>. QED  BY <3>2
  <2>4. \A w \in S : w <= max
    BY <1>3, <1>7, <2>3, MaxInSet
  <2>5. GetByBranch(k, b)' = Get(k, b, max)'
    BY <1>5, <1>7 DEF Get
  <2>6. Get(k, b, max)' = Seen(layered_kv', k, {w \in S : w <= max})
    BY <1>2, GetSeenNext
  <2>7. {w \in S : w <= max} = S
    BY <2>4
  <2>. QED  BY <1>1, <2>5, <2>6, <2>7
<1>. QED  BY <1>6, <1>7

\* Reorganising and restarting neither change nor lose a value that a branch
\* reads at its newest version.
THEOREM ReorganiseKeepsValuesHolds == Spec => ReorganiseKeepsValues
<1>1. ASSUME Inv, Inv', CompactStep \/ Restart,
             NEW b \in DOMAIN br_to_its_vers, b \in DOMAIN br_to_its_vers',
             NEW k, GetByBranch(k, b) # NULL
      PROVE  GetByBranch(k, b)' = GetByBranch(k, b)
  <2>1. GetByBranch(k, b) = Seen(layered_kv, k, br_to_its_vers[b])
    BY <1>1, BranchSeen DEF Inv
  <2>2. GetByBranch(k, b)' = Seen(layered_kv', k, br_to_its_vers'[b])
    BY <1>1, BranchSeenNext DEF Inv
  <2>3. Seen(layered_kv, k, br_to_its_vers[b]) # NULL
    BY <1>1, <2>1
  <2> DEFINE kept == Seen(layered_kv', k, br_to_its_vers'[b])
                       = Seen(layered_kv, k, br_to_its_vers[b])
  <2>4. ASSUME CleanUp \/ \E keep : BranchKeepOnly(keep) PROVE kept
    BY <1>1, <2>3, <2>4, PurgeSees
  <2>5. ASSUME NEW n \in 0 .. USIZE_MAX, Prune(n) PROVE kept
    <3>1. PICK r \in Nat : r = (1 + n) % (USIZE_MAX + 1)
      BY NumberAssumption
    <3>2. PICK F : F = Vs!Mergeable(r)
      OBVIOUS
    <3>3. CASE F = {}
      <4>1. CleanUp
        BY <2>5, <3>1, <3>2, <3>3 DEF Prune
      <4>. QED  BY <2>4, <4>1
    <3>4. CASE F # {}
      <4>1. PICK base : base = Min(Vs!SharedVers)
        OBVIOUS
      <4>2. PruneInto(F, base)
        BY <2>5, <3>1, <3>2, <3>4, <4>1 DEF Prune
      <4>. QED  BY <1>1, <2>3, <3>2, <3>4, <4>1, <4>2, PruneSees
    <3>. QED  BY <3>3, <3>4
  <2>6. ASSUME NEW c, NEW v, Vs!RebaseDuty(c, v), VersionRebase(c, v) PROVE kept
    BY <1>1, <2>3, <2>6, RebaseSees
  <2>7. ASSUME Restart PROVE kept
    BY <1>1, <2>3, <2>7, RestartSees
  <2>. HIDE DEF kept
  <2>8. kept
    BY <1>1, <2>4, <2>5, <2>6, <2>7 DEF CompactStep
  <2>. QED  BY <2>1, <2>2, <2>8 DEF kept
<1>2. Inv /\ Inv' =>
        ((\E b \in DOMAIN br_to_its_vers \cap DOMAIN br_to_its_vers', k \in Key :
            GetByBranch(k, b) \notin {NULL, GetByBranch(k, b)'})
         => ~(CompactStep \/ Restart))
  BY <1>1
<1>. QED  BY <1>2, Invariant, PTL DEF ReorganiseKeepsValues
=============================================================================
