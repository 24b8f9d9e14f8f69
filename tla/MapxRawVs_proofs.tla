-------------------------- MODULE MapxRawVs_proofs --------------------------
(***************************************************************************)
(* Theorems about MapxRawVs, for every value of its constants.             *)
(*                                                                         *)
(* The first part is about types and histories.  The invariant that        *)
(* carries it is TypeOK, HaveChangeSets and SharedHistory together.  The   *)
(* lemmas named ...Type, ...Fewer, ...Have and ...Shared each treat one    *)
(* operation or one group of operations.  The second part is about the     *)
(* redundant maps: names and ids, change sets and layers.  The third part  *)
(* is about what readers see: the operations that destroy and move data    *)
(* keep the newest content, and the layered store implements the snapshots *)
(* of VersionedSnapshots.                                                  *)
(***************************************************************************)
EXTENDS MapxRawVsSnapshots, Maps_proofs, FiniteSetTheorems

-----------------------------------------------------------------------------
(* Type correctness.                                                       *)

Values == Value \cup {NULL}

\* Setting the values of one key keeps the layers well-typed.
LEMMA InsertLayer ==
  ASSUME NEW kv, NEW ids, IsLayers(kv, ids),
         NEW k \in Key, NEW m, IsMap(m, ids, Values)
  PROVE  IsLayers(MapInsert(kv, k, m), ids)
  BY DEF IsLayers, MapInsert, Values

\* Layers over some versions are layers over more.
LEMMA WidenLayers ==
  ASSUME NEW kv, NEW ids, IsLayers(kv, ids), NEW ids2, ids \subseteq ids2
  PROVE  IsLayers(kv, ids2)
  BY WidenIsMap DEF IsLayers

\* Moving values between versions of a key keeps them values.
LEMMA MergeIsMap ==
  ASSUME NEW n \in Nat, NEW kvers, IsMap(kvers, 0 .. n - 1, Values),
         NEW from, NEW to \in 0 .. n - 1
  PROVE  IsMap(MergeInto(kvers, from, to), 0 .. n - 1, Values)
<1>1. CASE from \cap DOMAIN kvers = {}
  BY <1>1 DEF MergeInto
<1>2. CASE from \cap DOMAIN kvers # {}
  <2> DEFINE S == from \cap DOMAIN kvers
  <2>1. S \subseteq 0 .. n - 1 /\ n - 1 \in Nat
    BY <1>2 DEF IsMap
  <2>2. Max(S) \in S
    BY <1>2, <2>1, MaxInSet
  <2>3. kvers[Max(S)] \in Values
    BY <2>2 DEF IsMap
  <2>4. IsMap(MapRemove(kvers, from), 0 .. n - 1, Values)
    BY RemoveIsMap
  <2>. QED  BY <1>2, <2>3, <2>4, InsertIsMap DEF MergeInto
<1>. QED  BY <1>1, <1>2

\* The versions of a branch have been allocated.
LEMMA VersType ==
  ASSUME TypeOK, NEW b
  PROVE  Vers(b) \in SUBSET VerIds
  BY DEF TypeOK, Vers, IsMap

\* Insert and Remove keep the types.
LEMMA WriteType ==
  ASSUME TypeOK, WriteStep
  PROVE  TypeOK'
<1>1. PICK k \in Key, v \in Values, h \in VerIds : Write(k, v, h)
  BY VersType DEF WriteStep, Insert, Remove, Values
<1>2. IsMap(KeyVers(k), VerIds, Values)
  BY EmptyIsMap DEF TypeOK, IsLayers, KeyVers, Values
<1>3. IsLayers(layered_kv', VerIds)
  <2>1. IsMap(MapInsert(KeyVers(k), h, v), VerIds, Values)
    BY <1>2, InsertIsMap
  <2>. QED  BY <1>1, <2>1, InsertLayer DEF TypeOK, Write
<1>4. IsMap(ver_to_change_set', VerIds, SUBSET Key)
  BY <1>1 DEF TypeOK, Write, IsMap
<1>. QED  BY <1>1, <1>3, <1>4 DEF TypeOK, Write, VerIds, BrIds, brNames, verNames

\* The part of the state that AddVersion sets.
LEMMA AddVersionType ==
  ASSUME TypeOK, NEW brs, NEW ids, IsMap(brs, ids, SUBSET VerIds),
         NEW b \in DOMAIN brs, NEW name \in SUBSET VerName, AddVersion(brs, b, name)
  PROVE  /\ next_ver_id' \in Nat /\ next_ver_id <= next_ver_id'
         /\ VerIds \subseteq VerIds'
         /\ IsMap(br_to_its_vers', ids, SUBSET VerIds')
         /\ IsMap(ver_name_to_ver_id', VerName, VerIds')
         /\ IsMap(ver_id_to_ver_name', VerIds', VerName)
         /\ IsMap(ver_to_change_set', VerIds', SUBSET Key)
<1>1. CASE name = {} /\ br_to_its_vers' = brs
             /\ UNCHANGED <<verNames, ver_to_change_set, next_ver_id>>
  BY <1>1 DEF TypeOK, VerIds, verNames
<1>2. CASE \E n \in name :
             /\ br_to_its_vers' = MapInsert(brs, b, brs[b] \cup {next_ver_id})
             /\ ver_name_to_ver_id' = MapInsert(ver_name_to_ver_id, n, next_ver_id)
             /\ ver_id_to_ver_name' = MapInsert(ver_id_to_ver_name, next_ver_id, n)
             /\ ver_to_change_set' = MapInsert(ver_to_change_set, next_ver_id, {})
             /\ next_ver_id' = next_ver_id + 1
  <2>1. PICK n \in name :
             /\ br_to_its_vers' = MapInsert(brs, b, brs[b] \cup {next_ver_id})
             /\ ver_name_to_ver_id' = MapInsert(ver_name_to_ver_id, n, next_ver_id)
             /\ ver_id_to_ver_name' = MapInsert(ver_id_to_ver_name, next_ver_id, n)
             /\ ver_to_change_set' = MapInsert(ver_to_change_set, next_ver_id, {})
             /\ next_ver_id' = next_ver_id + 1
    BY <1>2
  <2>2. next_ver_id \in VerIds' /\ VerIds \subseteq VerIds' /\ next_ver_id' \in Nat
        /\ next_ver_id <= next_ver_id'
    BY <2>1 DEF TypeOK, VerIds
  <2>3. IsMap(br_to_its_vers', ids, SUBSET VerIds')
    <3>1. b \in ids /\ brs[b] \cup {next_ver_id} \in SUBSET VerIds'
      BY <2>2 DEF IsMap
    <3>2. IsMap(brs, ids, SUBSET VerIds')
      BY <2>2, WidenIsMap
    <3>. QED  BY <2>1, <3>1, <3>2, InsertIsMap
  <2>4. IsMap(ver_name_to_ver_id', VerName, VerIds')
    <3>1. IsMap(ver_name_to_ver_id, VerName, VerIds')
      BY <2>2, WidenIsMap DEF TypeOK
    <3>. QED  BY <2>1, <2>2, <3>1, InsertIsMap
  <2>5. IsMap(ver_id_to_ver_name', VerIds', VerName)
    <3>1. IsMap(ver_id_to_ver_name, VerIds', VerName)
      BY <2>2, WidenIsMap DEF TypeOK
    <3>. QED  BY <2>1, <2>2, <3>1, InsertIsMap
  <2>6. IsMap(ver_to_change_set', VerIds', SUBSET Key)
    <3>1. IsMap(ver_to_change_set, VerIds', SUBSET Key)
      BY <2>2, WidenIsMap DEF TypeOK
    <3>2. {} \in SUBSET Key
      OBVIOUS
    <3>. QED  BY <2>1, <2>2, <3>1, <3>2, InsertIsMap
  <2>. QED  BY <2>2, <2>3, <2>4, <2>5, <2>6
<1>. QED  BY <1>1, <1>2 DEF AddVersion

\* Creating a version keeps the types.
LEMMA VersionCreateType ==
  ASSUME TypeOK, NEW b, NEW n \in VerName, VersionCreate(b, n)
  PROVE  TypeOK'
<1>1. /\ b \in DOMAIN br_to_its_vers
      /\ AddVersion(br_to_its_vers, b, {n})
      /\ UNCHANGED <<default_branch, brNames, layered_kv, next_br_id>>
  BY DEF VersionCreate
<1>2. /\ next_ver_id' \in Nat
      /\ VerIds \subseteq VerIds'
      /\ IsMap(br_to_its_vers', BrIds, SUBSET VerIds')
      /\ IsMap(ver_name_to_ver_id', VerName, VerIds')
      /\ IsMap(ver_id_to_ver_name', VerIds', VerName)
      /\ IsMap(ver_to_change_set', VerIds', SUBSET Key)
  BY <1>1, AddVersionType DEF TypeOK
<1>3. IsLayers(layered_kv', VerIds')
  BY <1>1, <1>2, WidenLayers DEF TypeOK
<1>4. BrIds' = BrIds
  BY <1>1 DEF BrIds
<1>. QED  BY <1>1, <1>2, <1>3, <1>4 DEF TypeOK, brNames

\* Creating a branch keeps the types.
LEMMA BranchCreateType ==
  ASSUME TypeOK, NEW n \in BrName, NEW b, NEW base, NEW name \in SUBSET VerName,
         NEW force \in BOOLEAN, BranchCreate(n, b, base, name, force)
  PROVE  TypeOK'
<1> DEFINE gone == Replaced(n, force)
           brs  == MapRemove(br_to_its_vers, gone)
           kept == UNION {UpTo(brs[b], v) : v \in base}
           all  == MapInsert(brs, next_br_id, kept)
<1>1. /\ b \in DOMAIN brs
      /\ br_name_to_br_id' = MapInsert(BrNamesAfterRemoval(gone), n, next_br_id)
      /\ br_id_to_br_name' = MapInsert(MapRemove(br_id_to_br_name, gone), next_br_id, n)
      /\ AddVersion(all, next_br_id, name)
      /\ next_br_id' = next_br_id + 1
      /\ UNCHANGED <<default_branch, layered_kv>>
  BY DEF BranchCreate
<1>2. /\ BrIds \subseteq BrIds' /\ next_br_id \in BrIds' /\ next_br_id' \in Nat \ {0}
  BY <1>1 DEF TypeOK, BrIds
<1>3. IsMap(brs, BrIds', SUBSET VerIds)
  BY <1>2, WidenIsMap, RemoveIsMap DEF TypeOK
<1>4. kept \in SUBSET VerIds
  BY <1>1, <1>3 DEF IsMap, UpTo
<1>5. IsMap(all, BrIds', SUBSET VerIds) /\ next_br_id \in DOMAIN all
  <2>. HIDE DEF brs, kept
  <2>1. IsMap(MapInsert(brs, next_br_id, kept), BrIds', SUBSET VerIds)
    BY <1>2, <1>3, <1>4, InsertIsMap
  <2>2. next_br_id \in DOMAIN MapInsert(brs, next_br_id, kept)
    BY DEF MapInsert
  <2>. QED  BY <2>1, <2>2
<1>6. /\ next_ver_id' \in Nat
      /\ VerIds \subseteq VerIds'
      /\ IsMap(br_to_its_vers', BrIds', SUBSET VerIds')
      /\ IsMap(ver_name_to_ver_id', VerName, VerIds')
      /\ IsMap(ver_id_to_ver_name', VerIds', VerName)
      /\ IsMap(ver_to_change_set', VerIds', SUBSET Key)
  <2>. HIDE DEF all
  <2>. QED  BY <1>1, <1>5, AddVersionType
<1>7. IsMap(br_name_to_br_id', BrName, BrIds')
  <2>1. IsMap(BrNamesAfterRemoval(gone), BrName, BrIds')
    BY <1>2, WidenIsMap, RemoveIsMap DEF TypeOK, BrNamesAfterRemoval
  <2>. QED  BY <1>1, <1>2, <2>1, InsertIsMap
<1>8. IsMap(br_id_to_br_name', BrIds', BrName)
  <2>1. IsMap(MapRemove(br_id_to_br_name, gone), BrIds', BrName)
    BY <1>2, WidenIsMap, RemoveIsMap DEF TypeOK
  <2>. QED  BY <1>1, <1>2, <2>1, InsertIsMap
<1>9. IsLayers(layered_kv', VerIds') /\ default_branch' \in BrIds'
  BY <1>1, <1>2, <1>6, WidenLayers DEF TypeOK
<1>. QED  BY <1>2, <1>6, <1>7, <1>8, <1>9 DEF TypeOK

\* Every operation that creates something keeps the types.
LEMMA CreateType ==
  ASSUME TypeOK, CreateStep
  PROVE  TypeOK'
<1>1. CASE \E b \in Branches, n \in VerName : VersionCreate(b, n)
  BY <1>1, VersionCreateType
<1>2. CASE \E n \in BrName, b \in Branches, name \in {{}} \cup {{m} : m \in VerName},
             force \in BOOLEAN :
             \E base \in Bases(b) : BranchCreate(n, b, base, name, force)
  <2>1. PICK n \in BrName, b \in Branches, name \in {{}} \cup {{m} : m \in VerName},
             force \in BOOLEAN : \E base \in Bases(b) :
             BranchCreate(n, b, base, name, force)
    BY <1>2
  <2>2. name \in SUBSET VerName
    OBVIOUS
  <2>. QED  BY <2>1, <2>2, BranchCreateType
<1>. QED  BY <1>1, <1>2 DEF CreateStep

\* Replacing the versions of a branch by allocated ones keeps the types.
LEMMA SetVersType ==
  ASSUME TypeOK, NEW b, NEW S \in SUBSET VerIds, SetVers(b, S)
  PROVE  TypeOK'
<1>1. IsMap(br_to_its_vers', BrIds, SUBSET VerIds)
  BY DEF TypeOK, SetVers, IsMap
<1>. QED  BY <1>1 DEF TypeOK, SetVers, BrIds, VerIds, brNames, verNames, data

\* Forgetting names of versions keeps the types of the name maps.
LEMMA ForgetType ==
  ASSUME TypeOK, NEW S, ForgetVersions(S)
  PROVE  /\ IsMap(ver_name_to_ver_id', VerName, VerIds)
         /\ IsMap(ver_id_to_ver_name', VerIds, VerName)
  BY RemoveIsMap DEF TypeOK, ForgetVersions

\* Removing branches keeps the types of the three branch maps.
LEMMA RemoveBranchesType ==
  ASSUME TypeOK, NEW S, RemoveBranches(S)
  PROVE  /\ IsMap(br_name_to_br_id', BrName, BrIds)
         /\ IsMap(br_id_to_br_name', BrIds, BrName)
         /\ IsMap(br_to_its_vers', BrIds, SUBSET VerIds)
  BY RemoveIsMap DEF TypeOK, RemoveBranches, BrNamesAfterRemoval

\* Reverting a version keeps the types.
LEMMA RevertType ==
  ASSUME TypeOK, NEW v, VersionRevert(v)
  PROVE  TypeOK'
<1>1. IsLayers(layered_kv', VerIds)
  BY RemoveIsMap DEF TypeOK, VersionRevert, IsLayers
<1>2. IsMap(ver_to_change_set', VerIds, SUBSET Key)
  BY RemoveIsMap DEF TypeOK, VersionRevert
<1>3. IsMap(br_to_its_vers', BrIds, SUBSET VerIds)
  BY DEF TypeOK, VersionRevert, IsMap
<1>4. /\ IsMap(ver_name_to_ver_id', VerName, VerIds)
      /\ IsMap(ver_id_to_ver_name', VerIds, VerName)
  BY ForgetType DEF VersionRevert
<1>. QED  BY <1>1, <1>2, <1>3, <1>4 DEF TypeOK, VersionRevert, BrIds, VerIds, brNames

\* The initial state has the types.
LEMMA InitType == Init => TypeOK
<1>1. ASSUME Init PROVE TypeOK
  <2>1. 0 \in BrIds /\ {} \in SUBSET VerIds
    BY <1>1 DEF Init, BrIds, INITIAL_BRANCH_ID
  <2>2. IsLayers(EmptyMap, VerIds)
    BY DEF IsLayers, EmptyMap
  <2>3. /\ IsMap(MapInsert(EmptyMap, MASTER, 0), BrName, BrIds)
        /\ IsMap(MapInsert(EmptyMap, 0, MASTER), BrIds, BrName)
        /\ IsMap(MapInsert(EmptyMap, 0, {}), BrIds, SUBSET VerIds)
    BY <2>1, MasterAssumption, EmptyIsMap, InsertIsMap
  <2>4. next_br_id \in Nat \ {0} /\ next_ver_id \in Nat
    BY <1>1 DEF Init, INITIAL_BRANCH_ID
  <2>. QED  BY <1>1, <2>1, <2>2, <2>3, <2>4, EmptyIsMap
            DEF Init, TypeOK, INITIAL_BRANCH_ID
<1>. QED  BY <1>1

\* Clearing the instance keeps the types.
LEMMA ClearType ==
  ASSUME TypeOK, Clear
  PROVE  TypeOK'
<1>1. 0 \in BrIds' /\ {} \in SUBSET VerIds'
  BY DEF Clear, TypeOK, BrIds
<1>2. IsLayers(EmptyMap, VerIds')
  BY DEF IsLayers, EmptyMap
<1>. QED  BY <1>1, <1>2, MasterAssumption, EmptyIsMap, InsertIsMap
          DEF Clear, TypeOK, INITIAL_BRANCH_ID

\* Every operation that takes versions off branches keeps the types.
LEMMA DropType ==
  ASSUME TypeOK, DropStep
  PROVE  TypeOK'
<1>1. ASSUME NEW b \in Branches,
             \/ VersionPop(b) \/ BranchTruncate(b)
             \/ \E v \in KnownVersions : BranchTruncateTo(b, v)
      PROVE  TypeOK'
  BY <1>1, VersType, SetVersType DEF VersionPop, BranchTruncate, BranchTruncateTo, UpTo
<1>2. ASSUME NEW b \in Branches, BranchRemove(b)
      PROVE  TypeOK'
  BY <1>2, RemoveBranchesType DEF BranchRemove, TypeOK, BrIds, VerIds, verNames, data
<1>3. ASSUME NEW n \in BrName, BranchCreateFails(n)
      PROVE  TypeOK'
  BY <1>3, RemoveBranchesType DEF BranchCreateFails, TypeOK, BrIds, VerIds, verNames, data
<1>. QED  BY <1>1, <1>2, <1>3, RevertType, ClearType DEF DropStep

\* Merging a branch into another keeps the types.
LEMMA MergeBranchType ==
  ASSUME TypeOK, MergeStep \/ ForceStep
  PROVE  TypeOK'
<1>1. PICK b \in Branches, t \in Branches : SetVers(t, MergedVers(Vers(b), Vers(t)))
  BY DEF MergeStep, ForceStep, BranchMergeTo, BranchMergeToForce
<1>2. MergedVers(Vers(b), Vers(t)) \in SUBSET VerIds
  BY VersType DEF MergedVers
<1>. QED  BY <1>1, <1>2, SetVersType

\* Changing the default branch and swapping names keep the types.
LEMMA RenameType ==
  ASSUME TypeOK, RenameStep
  PROVE  TypeOK'
<1>1. ASSUME NEW b \in Branches, BranchSetDefault(b)
      PROVE  TypeOK'
  BY <1>1 DEF BranchSetDefault, TypeOK, IsMap, BrIds, VerIds, brNames, verNames, data
<1>2. ASSUME NEW m \in BrName, NEW n \in BrName, BranchSwap(m, n)
      PROVE  TypeOK'
  <2> DEFINE i == br_name_to_br_id[m]
             j == br_name_to_br_id[n]
  <2>1. i \in BrIds /\ j \in BrIds
    BY <1>2 DEF BranchSwap, TypeOK, IsMap
  <2>2. IsMap(br_name_to_br_id', BrName, BrIds)
    <3>1. IsMap(MapInsert(br_name_to_br_id, m, j), BrName, BrIds)
      BY <2>1, InsertIsMap DEF TypeOK
    <3>2. br_name_to_br_id' = MapInsert(MapInsert(br_name_to_br_id, m, j), n, i)
      BY <1>2 DEF BranchSwap
    <3>. QED  BY <2>1, <3>1, <3>2, InsertIsMap
  <2>3. IsMap(br_id_to_br_name', BrIds, BrName)
    <3>1. IsMap(MapInsert(br_id_to_br_name, i, n), BrIds, BrName)
      BY <2>1, InsertIsMap DEF TypeOK
    <3>2. br_id_to_br_name' = MapInsert(MapInsert(br_id_to_br_name, i, n), j, m)
      BY <1>2 DEF BranchSwap
    <3>. QED  BY <2>1, <3>1, <3>2, InsertIsMap
  <2>4. default_branch' \in BrIds
    BY <1>2, <2>1 DEF BranchSwap, TypeOK
  <2>. QED  BY <1>2, <2>2, <2>3, <2>4
            DEF BranchSwap, TypeOK, BrIds, VerIds, verNames, data
<1>. QED  BY <1>1, <1>2 DEF RenameStep

\* The layers that clean-up leaves are layers.
LEMMA PurgedType ==
  ASSUME TypeOK, NEW O
  PROVE  IsLayers(PurgedKv(O), VerIds)
<1>1. \A k \in DOMAIN layered_kv : IsMap(PurgedVers(k, O), VerIds, Values)
  BY RemoveIsMap DEF TypeOK, IsLayers, PurgedVers, Values
<1>. QED  BY <1>1 DEF PurgedKv, TypeOK, IsLayers, Values

\* Purging versions keeps the types of what it changes.
LEMMA PurgeType ==
  ASSUME TypeOK, NEW O, Purge(O)
  PROVE  /\ IsLayers(layered_kv', VerIds)
         /\ IsMap(ver_to_change_set', VerIds, SUBSET Key)
         /\ IsMap(ver_name_to_ver_id', VerName, VerIds)
         /\ IsMap(ver_id_to_ver_name', VerIds, VerName)
  BY PurgedType, ForgetType, RemoveIsMap DEF Purge, TypeOK

\* Clean-up keeps the types.
LEMMA CleanUpType ==
  ASSUME TypeOK, CleanUp
  PROVE  TypeOK'
  BY PurgeType DEF CleanUp, TypeOK, BrIds, VerIds, brNames

\* Versions changed keys.
LEMMA ChangedType ==
  ASSUME TypeOK, NEW S \in SUBSET DOMAIN ver_to_change_set
  PROVE  Changed(S) \in SUBSET Key
  BY DEF Changed, TypeOK, IsMap

\* A rebase keeps the types.
LEMMA RebaseType ==
  ASSUME TypeOK, NEW b, NEW base, VersionRebase(b, base)
  PROVE  TypeOK'
<1> DEFINE newer == Newer(b, base)
<1>1. /\ base \in VerIds
      /\ newer \subseteq DOMAIN ver_to_change_set
  BY VersType DEF VersionRebase
<1>2. IsLayers(layered_kv', VerIds)
  <2>1. \A k \in DOMAIN layered_kv : \A S :
           IsMap(MergeInto(layered_kv[k], S, base), VerIds, Values)
    BY <1>1, MergeIsMap DEF TypeOK, IsLayers, VerIds, Values
  <2>. QED  BY <2>1 DEF VersionRebase, TypeOK, IsLayers, Values
<1>3. IsMap(ver_to_change_set', VerIds, SUBSET Key)
  <2>1. Changed(newer) \in SUBSET Key
    BY <1>1, ChangedType
  <2>. QED  BY <2>1 DEF VersionRebase, TypeOK, IsMap
<1>4. IsMap(br_to_its_vers', BrIds, SUBSET VerIds)
  BY DEF VersionRebase, TypeOK, IsMap
<1>5. /\ IsMap(ver_name_to_ver_id', VerName, VerIds)
      /\ IsMap(ver_id_to_ver_name', VerIds, VerName)
  BY ForgetType DEF VersionRebase
<1>. QED  BY <1>2, <1>3, <1>4, <1>5 DEF VersionRebase, TypeOK, BrIds, VerIds, brNames

\* Removing all branches but some, and cleaning up, keeps the types.
LEMMA KeepOnlyType ==
  ASSUME TypeOK, NEW keep, BranchKeepOnly(keep)
  PROVE  TypeOK'
  BY PurgeType, RemoveBranchesType DEF BranchKeepOnly, TypeOK, BrIds, VerIds

\* The versions that all branches have in common are versions of one of them.
LEMMA SharedVersType ==
  ASSUME TypeOK
  PROVE  SharedVers \subseteq AllVers(br_to_its_vers)
                               /\ AllVers(br_to_its_vers) \subseteq VerIds
  BY DEF SharedVers, CommonPrefix, AllVers, Range, TypeOK, IsMap

\* Merging the oldest versions into the base version keeps the types.
LEMMA PruneIntoType ==
  ASSUME TypeOK, HaveChangeSets, NEW merged \in SUBSET SharedVers,
         NEW base \in SharedVers, PruneInto(merged, base)
  PROVE  TypeOK'
<1> DEFINE O     == Orphans(br_to_its_vers)
           kv    == PurgedKv(O)
           moved == [k \in DOMAIN kv |-> {v \in merged : k \in ver_to_change_set[v]}]
           into  == [k \in DOMAIN kv |-> MergeInto(kv[k], moved[k], base)]
           dead  == {k \in DOMAIN kv : moved[k] # {} /\ into[k][base] = NULL}
           left  == [k \in DOMAIN kv |-> IF k \in dead THEN MapRemove(into[k], {base})
                                                      ELSE into[k]]
<1>1. /\ base \in VerIds
      /\ merged \in SUBSET DOMAIN ver_to_change_set
  BY SharedVersType DEF HaveChangeSets
<1>2. IsLayers(layered_kv', VerIds)
  <2>1. IsLayers(kv, VerIds)
    BY PurgedType
  <2>2. \A k \in DOMAIN kv : IsMap(into[k], VerIds, Values)
    <3>. HIDE DEF kv, moved
    <3>. QED  BY <1>1, <2>1, MergeIsMap DEF TypeOK, IsLayers, VerIds, Values
  <2>3. \A k \in DOMAIN kv : IsMap(left[k], VerIds, Values)
    <3>. HIDE DEF kv, into, dead
    <3>. QED  BY <2>2, RemoveIsMap
  <2>4. layered_kv' = Restrict(left, {k \in DOMAIN kv : k \in dead => DOMAIN left[k] # {}})
    BY DEF PruneInto
  <2>5. DOMAIN kv \subseteq Key
    BY <2>1 DEF IsLayers
  <2>. HIDE DEF kv, dead, left
  <2>. QED  BY <2>3, <2>4, <2>5 DEF IsLayers, Restrict, Values
<1>3. IsMap(ver_to_change_set', VerIds, SUBSET Key)
  <2>1. Changed(merged) \in SUBSET Key
    BY <1>1, ChangedType
  <2>2. ver_to_change_set' =
             [v \in DOMAIN ver_to_change_set \ (O \cup merged) |->
                IF v = base
                THEN (ver_to_change_set[v] \cup Changed(merged)) \ dead
                ELSE ver_to_change_set[v]]
    BY DEF PruneInto
  <2>. HIDE DEF O, dead
  <2>. QED  BY <2>1, <2>2 DEF TypeOK, IsMap
<1>4. br_to_its_vers' =
             [b \in DOMAIN br_to_its_vers |-> br_to_its_vers[b] \ merged]
      /\ ForgetVersions(O)
      /\ UNCHANGED <<default_branch, brNames, next_br_id, next_ver_id>>
  BY DEF PruneInto
<1>5. IsMap(br_to_its_vers', BrIds, SUBSET VerIds)
  BY <1>4 DEF TypeOK, IsMap
<1>. QED  BY <1>2, <1>3, <1>4, <1>5, ForgetType DEF TypeOK, BrIds, VerIds, brNames

\* A prune keeps the types: the base version it picks has been allocated.
LEMMA PruneType ==
  ASSUME TypeOK, HaveChangeSets, NEW n, Prune(n)
  PROVE  TypeOK'
<1>1. PICK r : LET merged == Mergeable(r)
               IN  \/ merged = {} /\ CleanUp
                   \/ merged # {} /\ PruneInto(merged, Min(SharedVers))
  BY DEF Prune
<1>2. Mergeable(r) \in SUBSET SharedVers
  BY DEF Mergeable
<1>3. CASE Mergeable(r) # {}
  <2>1. SharedVers \in SUBSET Nat /\ SharedVers # {}
    BY <1>2, <1>3, SharedVersType DEF TypeOK, VerIds
  <2>2. Min(SharedVers) \in SharedVers
    BY <2>1, MinInSet
  <2>. QED  BY <1>1, <1>2, <1>3, <2>2, PruneIntoType
<1>. QED  BY <1>1, <1>3, CleanUpType

\* Clean-up, keep_only, prune and rebase keep the types.
LEMMA CompactType ==
  ASSUME TypeOK, HaveChangeSets, CompactStep
  PROVE  TypeOK'
  BY CleanUpType, KeepOnlyType, PruneType, RebaseType DEF CompactStep

\* What a restart derives from the maps on disk has the types.
LEMMA RestartType ==
  ASSUME TypeOK, Restart
  PROVE  TypeOK'
<1>1. /\ IsMap(br_id_to_br_name', BrIds, BrName)
      /\ IsMap(ver_id_to_ver_name', VerIds, VerName)
  BY AntiIsMap DEF Restart, TypeOK
<1>2. AllVers(br_to_its_vers) \subseteq VerIds
  BY SharedVersType
<1>3. UNION {DOMAIN layered_kv[k] : k \in DOMAIN layered_kv} \subseteq VerIds
  BY DEF TypeOK, IsLayers, IsMap
<1>4. IsMap(ver_to_change_set', VerIds, SUBSET Key)
  BY <1>2, <1>3 DEF Restart, DerivedChangeSets, TypeOK, IsLayers, IsMap
<1>. QED  BY <1>1, <1>4 DEF Restart, TypeOK, BrIds, VerIds

\* Every step keeps the types.
LEMMA NextType ==
  ASSUME TypeOK, HaveChangeSets, [Next \/ ForceStep]_vars
  PROVE  TypeOK'
<1>1. CASE UNCHANGED vars
  BY <1>1 DEF TypeOK, vars, brNames, verNames, data, BrIds, VerIds
<1>2. CASE Next \/ ForceStep
  BY <1>2, WriteType, CreateType, DropType, MergeBranchType, RenameType,
     CompactType, RestartType DEF Next
<1>. QED  BY <1>1, <1>2

-----------------------------------------------------------------------------
(* Which versions are on the branches after a step.                        *)

\* Replacing the versions of a branch by some that are on a branch.
LEMMA SetVersFewer ==
  ASSUME TypeOK, NEW b, NEW S \in SUBSET AllVers(br_to_its_vers), SetVers(b, S)
  PROVE  AllVers(br_to_its_vers') \subseteq AllVers(br_to_its_vers)
  BY DEF SetVers, TypeOK, IsMap, AllVers, Range

\* The versions of a branch are versions on some branch.
LEMMA VersInAll ==
  ASSUME NEW b
  PROVE  Vers(b) \subseteq AllVers(br_to_its_vers)
  BY DEF Vers, AllVers, Range

\* Removing branches puts no version on one.
LEMMA RemoveFewer ==
  ASSUME TypeOK, NEW S
  PROVE  AllVers(MapRemove(br_to_its_vers, S)) \subseteq AllVers(br_to_its_vers)
  BY DEF MapRemove, Restrict, AllVers, Range

\* Only the creation of a version puts one on a branch that was on none.
LEMMA CreateFewer ==
  ASSUME TypeOK, CreateStep
  PROVE  AllVers(br_to_its_vers') \subseteq AllVers(br_to_its_vers) \cup {next_ver_id}
<1>1. ASSUME NEW brs, NEW b \in DOMAIN brs, NEW name, AddVersion(brs, b, name),
             AllVers(brs) \subseteq AllVers(br_to_its_vers)
      PROVE  AllVers(br_to_its_vers') \subseteq AllVers(br_to_its_vers) \cup {next_ver_id}
  <2>1. \/ br_to_its_vers' = brs
        \/ br_to_its_vers' = MapInsert(brs, b, brs[b] \cup {next_ver_id})
    BY <1>1 DEF AddVersion
  <2>. QED  BY <1>1, <2>1 DEF MapInsert, AllVers, Range
<1>2. ASSUME NEW b, NEW n, VersionCreate(b, n)
      PROVE  AllVers(br_to_its_vers') \subseteq AllVers(br_to_its_vers) \cup {next_ver_id}
  BY <1>1, <1>2 DEF VersionCreate
<1>3. ASSUME NEW n, NEW b, NEW base, NEW name, NEW force,
             BranchCreate(n, b, base, name, force)
      PROVE  AllVers(br_to_its_vers') \subseteq AllVers(br_to_its_vers) \cup {next_ver_id}
  <2> DEFINE brs  == MapRemove(br_to_its_vers, Replaced(n, force))
             kept == UNION {UpTo(brs[b], v) : v \in base}
             all  == MapInsert(brs, next_br_id, kept)
  <2>1. b \in DOMAIN brs /\ AddVersion(all, next_br_id, name)
    BY <1>3 DEF BranchCreate
  <2>2. AllVers(brs) \subseteq AllVers(br_to_its_vers)
    BY RemoveFewer
  <2>3. kept \subseteq AllVers(brs)
    BY <2>1 DEF UpTo, AllVers, Range
  <2>4. AllVers(all) \subseteq AllVers(br_to_its_vers) /\ next_br_id \in DOMAIN all
    <3>. HIDE DEF brs, kept
    <3>. QED  BY <2>2, <2>3 DEF AllVers, Range, MapInsert
  <2>. HIDE DEF all
  <2>. QED  BY <1>1, <2>1, <2>4
<1>. QED  BY <1>2, <1>3 DEF CreateStep

\* Taking versions off branches puts none on one.
LEMMA DropFewer ==
  ASSUME TypeOK, DropStep
  PROVE  AllVers(br_to_its_vers') \subseteq AllVers(br_to_its_vers)
<1>1. ASSUME NEW b \in Branches,
             \/ VersionPop(b) \/ BranchTruncate(b)
             \/ \E v \in KnownVersions : BranchTruncateTo(b, v)
      PROVE  AllVers(br_to_its_vers') \subseteq AllVers(br_to_its_vers)
  <2>1. PICK S \in SUBSET AllVers(br_to_its_vers) : SetVers(b, S)
    BY <1>1, VersInAll DEF VersionPop, BranchTruncate, BranchTruncateTo, UpTo
  <2>. QED  BY <2>1, SetVersFewer
<1>2. ASSUME NEW S, RemoveBranches(S)
      PROVE  AllVers(br_to_its_vers') \subseteq AllVers(br_to_its_vers)
  BY <1>2, RemoveFewer DEF RemoveBranches
<1>3. ASSUME NEW v, VersionRevert(v)
      PROVE  AllVers(br_to_its_vers') \subseteq AllVers(br_to_its_vers)
  BY <1>3 DEF VersionRevert, AllVers, Range
<1>4. ASSUME Clear
      PROVE  AllVers(br_to_its_vers') \subseteq AllVers(br_to_its_vers)
  BY <1>4 DEF Clear, AllVers, Range, EmptyMap, MapInsert
<1>. QED  BY <1>1, <1>2, <1>3, <1>4 DEF DropStep, BranchRemove, BranchCreateFails

\* A merge puts only versions on the target that are on a branch.
LEMMA MergeFewer ==
  ASSUME TypeOK, MergeStep \/ ForceStep
  PROVE  AllVers(br_to_its_vers') \subseteq AllVers(br_to_its_vers)
<1>1. PICK b \in Branches, t \in Branches : SetVers(t, MergedVers(Vers(b), Vers(t)))
  BY DEF MergeStep, ForceStep, BranchMergeTo, BranchMergeToForce
<1>2. MergedVers(Vers(b), Vers(t)) \in SUBSET AllVers(br_to_its_vers)
  BY VersInAll DEF MergedVers
<1>. QED  BY <1>1, <1>2, SetVersFewer

\* Clean-up, keep_only, prune and rebase put no version on a branch.
LEMMA CompactFewer ==
  ASSUME TypeOK, CompactStep
  PROVE  AllVers(br_to_its_vers') \subseteq AllVers(br_to_its_vers)
<1>1. ASSUME CleanUp
      PROVE  AllVers(br_to_its_vers') \subseteq AllVers(br_to_its_vers)
  BY <1>1 DEF CleanUp
<1>2. ASSUME NEW keep, BranchKeepOnly(keep)
      PROVE  AllVers(br_to_its_vers') \subseteq AllVers(br_to_its_vers)
  BY <1>2, RemoveFewer DEF BranchKeepOnly, RemoveBranches
<1>3. ASSUME NEW merged, NEW base, PruneInto(merged, base)
      PROVE  AllVers(br_to_its_vers') \subseteq AllVers(br_to_its_vers)
  BY <1>3 DEF PruneInto, AllVers, Range
<1>4. ASSUME NEW b, NEW base, VersionRebase(b, base)
      PROVE  AllVers(br_to_its_vers') \subseteq AllVers(br_to_its_vers)
  BY <1>4 DEF VersionRebase, Vers, TypeOK, IsMap, AllVers, Range
<1>. QED  BY <1>1, <1>2, <1>3, <1>4 DEF CompactStep, Prune

-----------------------------------------------------------------------------
(* The versions of every branch have change sets.                          *)

\* What a step that leaves the change sets alone may do to the branches.
LEMMA FewerVersions ==
  ASSUME HaveChangeSets, AllVers(br_to_its_vers') \subseteq AllVers(br_to_its_vers),
         DOMAIN ver_to_change_set' = DOMAIN ver_to_change_set
  PROVE  HaveChangeSets'
  BY DEF HaveChangeSets

\* A write takes no change set away.
LEMMA WriteHave ==
  ASSUME TypeOK, HaveChangeSets, WriteStep
  PROVE  HaveChangeSets'
  BY DEF WriteStep, Insert, Remove, Write, HaveChangeSets, TypeOK, IsMap

\* A new version gets its change set with its place on a branch.
LEMMA AddVersionHave ==
  ASSUME TypeOK, HaveChangeSets, NEW brs, NEW ids, NEW b \in DOMAIN brs,
         AllVers(brs) \subseteq AllVers(br_to_its_vers),
         NEW name, AddVersion(brs, b, name)
  PROVE  HaveChangeSets'
<1>1. \/ br_to_its_vers' = brs /\ UNCHANGED ver_to_change_set
      \/ /\ br_to_its_vers' = MapInsert(brs, b, brs[b] \cup {next_ver_id})
         /\ ver_to_change_set' = MapInsert(ver_to_change_set, next_ver_id, {})
  BY DEF AddVersion
<1>2. AllVers(br_to_its_vers') \subseteq AllVers(brs) \cup {next_ver_id}
  BY <1>1 DEF MapInsert, AllVers, Range
<1>3. DOMAIN ver_to_change_set \subseteq DOMAIN ver_to_change_set'
  BY <1>1 DEF MapInsert
<1>4. br_to_its_vers' = brs \/ next_ver_id \in DOMAIN ver_to_change_set'
  BY <1>1 DEF MapInsert
<1>. QED  BY <1>2, <1>3, <1>4 DEF HaveChangeSets

\* Creating branches and versions leaves every version a change set.
LEMMA CreateHave ==
  ASSUME TypeOK, HaveChangeSets, CreateStep
  PROVE  HaveChangeSets'
<1>1. ASSUME NEW b, NEW n, VersionCreate(b, n)
      PROVE  HaveChangeSets'
  BY <1>1, AddVersionHave DEF VersionCreate
<1>2. ASSUME NEW n, NEW b, NEW base, NEW name, NEW force,
             BranchCreate(n, b, base, name, force)
      PROVE  HaveChangeSets'
  <2> DEFINE brs  == MapRemove(br_to_its_vers, Replaced(n, force))
             kept == UNION {UpTo(brs[b], v) : v \in base}
             all  == MapInsert(brs, next_br_id, kept)
  <2>1. b \in DOMAIN brs /\ AddVersion(all, next_br_id, name)
    BY <1>2 DEF BranchCreate
  <2>2. AllVers(brs) \subseteq AllVers(br_to_its_vers)
    BY RemoveFewer
  <2>3. kept \subseteq AllVers(brs)
    BY <2>1 DEF UpTo, AllVers, Range
  <2>4. AllVers(all) \subseteq AllVers(br_to_its_vers) /\ next_br_id \in DOMAIN all
    <3>. HIDE DEF brs, kept
    <3>. QED  BY <2>2, <2>3 DEF AllVers, Range, MapInsert
  <2>. HIDE DEF all
  <2>. QED  BY <2>1, <2>4, AddVersionHave
<1>. QED  BY <1>1, <1>2 DEF CreateStep

\* A reverted version leaves the branches with its change set.
LEMMA DropHave ==
  ASSUME TypeOK, HaveChangeSets, DropStep
  PROVE  HaveChangeSets'
<1>1. CASE UNCHANGED data
  BY <1>1, DropFewer, FewerVersions DEF data
<1>2. ASSUME NEW v, VersionRevert(v)
      PROVE  HaveChangeSets'
  BY <1>2 DEF VersionRevert, HaveChangeSets, AllVers, Range, MapRemove, Restrict
<1>3. ASSUME Clear
      PROVE  HaveChangeSets'
  BY <1>3 DEF Clear, HaveChangeSets, AllVers, Range, EmptyMap, MapInsert
<1>4. UNCHANGED data \/ (\E v : VersionRevert(v)) \/ Clear
  BY DEF DropStep, VersionPop, BranchRemove, BranchTruncate, BranchTruncateTo, SetVers,
         BranchCreateFails
<1>. QED  BY <1>1, <1>2, <1>3, <1>4

\* A merge takes no change set away.
LEMMA MergeHave ==
  ASSUME TypeOK, HaveChangeSets, MergeStep \/ ForceStep
  PROVE  HaveChangeSets'
  BY MergeFewer, FewerVersions DEF MergeStep, ForceStep, BranchMergeTo, BranchMergeToForce,
                                     SetVers, data

\* What loses its change set in clean-up, prune or rebase is on no branch
\* afterwards; for a rebase this is the duty of its caller.
LEMMA CompactHave ==
  ASSUME TypeOK, HaveChangeSets, CompactStep
  PROVE  HaveChangeSets'
<1>1. ASSUME CleanUp
      PROVE  HaveChangeSets'
  BY <1>1 DEF CleanUp, Purge, Orphans, HaveChangeSets, MapRemove, Restrict
<1>2. ASSUME NEW keep, BranchKeepOnly(keep)
      PROVE  HaveChangeSets'
  <2> DEFINE gone == DOMAIN br_id_to_br_name \ keep
             brs  == MapRemove(br_to_its_vers, gone)
  <2>1. /\ br_to_its_vers' = brs
        /\ ver_to_change_set' = MapRemove(ver_to_change_set, Orphans(brs))
    BY <1>2 DEF BranchKeepOnly, RemoveBranches, Purge
  <2>2. AllVers(brs) \subseteq DOMAIN ver_to_change_set
    BY RemoveFewer DEF HaveChangeSets
  <2>. HIDE DEF brs
  <2>. QED  BY <2>1, <2>2 DEF HaveChangeSets, Orphans, MapRemove, Restrict
<1>3. ASSUME NEW merged, NEW base, PruneInto(merged, base)
      PROVE  HaveChangeSets'
  <2>1. /\ br_to_its_vers' =
             [b \in DOMAIN br_to_its_vers |-> br_to_its_vers[b] \ merged]
        /\ DOMAIN ver_to_change_set' =
             DOMAIN ver_to_change_set \ (Orphans(br_to_its_vers) \cup merged)
    BY <1>3 DEF PruneInto
  <2>2. AllVers(br_to_its_vers') = AllVers(br_to_its_vers) \ merged
    BY <2>1 DEF AllVers, Range
  <2>. QED  BY <2>1, <2>2 DEF HaveChangeSets, Orphans
<1>4. ASSUME NEW b, NEW base, RebaseDuty(b, base), VersionRebase(b, base)
      PROVE  HaveChangeSets'
  <2> DEFINE newer == Newer(b, base)
  <2>1. /\ base \in Vers(b)
        /\ br_to_its_vers' = [br_to_its_vers EXCEPT ![b] = @ \ newer]
        /\ DOMAIN ver_to_change_set' = DOMAIN ver_to_change_set \ newer
    BY <1>4 DEF VersionRebase
  <2>2. b \in DOMAIN br_to_its_vers
    BY <2>1 DEF Vers
  <2>3. \A c \in DOMAIN br_to_its_vers : br_to_its_vers'[c] \cap newer = {}
    <3>. SUFFICES ASSUME NEW c \in DOMAIN br_to_its_vers, c # b
                  PROVE  br_to_its_vers[c] \cap newer = {}
      BY <2>1, <2>2 DEF TypeOK, IsMap
    <3>1. \A v \in br_to_its_vers[c] : v < base
      BY <1>4 DEF RebaseDuty, Vers
    <3>2. \A v \in newer : v \in VerIds /\ v > base
      BY VersType DEF Newer
    <3>3. base \in VerIds
      BY <2>1, VersType
    <3>. QED  BY <3>1, <3>2, <3>3 DEF VerIds, TypeOK
  <2>4. AllVers(br_to_its_vers') \subseteq AllVers(br_to_its_vers) \ newer
    <3>1. DOMAIN br_to_its_vers' = DOMAIN br_to_its_vers
      BY <2>1
    <3>2. \A c \in DOMAIN br_to_its_vers : br_to_its_vers'[c] \subseteq br_to_its_vers[c]
      BY <2>1 DEF TypeOK, IsMap
    <3>. HIDE DEF newer
    <3>. QED  BY <2>3, <3>1, <3>2 DEF AllVers, Range
  <2>. HIDE DEF newer
  <2>. QED  BY <2>1, <2>4 DEF HaveChangeSets
<1>. QED  BY <1>1, <1>2, <1>3, <1>4 DEF CompactStep, Prune

\* Every step leaves every version on a branch a change set.
LEMMA NextHave ==
  ASSUME TypeOK, HaveChangeSets, [Next \/ ForceStep]_vars
  PROVE  HaveChangeSets'
<1>1. CASE UNCHANGED vars
  BY <1>1 DEF HaveChangeSets, vars, data
<1>2. CASE RenameStep
  BY <1>2 DEF RenameStep, BranchSetDefault, BranchSwap, HaveChangeSets, data
<1>3. CASE Restart
  BY <1>3 DEF Restart, DerivedChangeSets, HaveChangeSets
<1>4. CASE Next \/ ForceStep
  BY <1>2, <1>3, <1>4, WriteHave, CreateHave, DropHave, MergeHave, CompactHave DEF Next
<1>. QED  BY <1>1, <1>4

\* At first there are no versions.
LEMMA InitHave == Init => HaveChangeSets
  BY DEF Init, HaveChangeSets, AllVers, Range, EmptyMap, MapInsert

\* Every reachable state is well-typed, and every version on a branch has a
\* change set; the second is what keeps the first when a prune takes the change
\* sets of the versions it merges.
THEOREM TypeCorrect == UnsafeSpec => [](TypeOK /\ HaveChangeSets)
<1>1. Init => TypeOK /\ HaveChangeSets
  BY InitType, InitHave
<1>2. TypeOK /\ HaveChangeSets /\ [Next \/ ForceStep]_vars => (TypeOK /\ HaveChangeSets)'
  BY NextType, NextHave
<1>. QED  BY <1>1, <1>2, PTL DEF UnsafeSpec

\* Without forced merges the system does nothing that it does not do with them.
LEMMA SpecIsUnsafe == Spec => UnsafeSpec
<1>1. [Next]_vars => [Next \/ ForceStep]_vars
  OBVIOUS
<1>. QED  BY <1>1, PTL DEF Spec, UnsafeSpec

-----------------------------------------------------------------------------
(* Branches that share a version share its past.                           *)

\* SharedHistory of any assignment of versions to branches.
Shared(brs) ==
    \A b, c \in DOMAIN brs : \A v \in brs[b] \cap brs[c] :
        UpTo(brs[b], v) = UpTo(brs[c], v)

\* SharedHistory is about the branches only,
LEMMA SharedIsShared == SharedHistory <=> Shared(br_to_its_vers)
  BY DEF SharedHistory, Shared, Vers

\* in the next state as well.
LEMMA SharedIsSharedNext == SharedHistory' <=> Shared(br_to_its_vers')
  BY DEF SharedHistory, Shared, Vers, UpTo

\* Branches whose versions are an initial part of those of a branch of an
\* assignment with shared pasts have shared pasts.
LEMMA PartsShared ==
  ASSUME NEW brs, NEW ids, IsMap(brs, ids, SUBSET Nat), Shared(brs), NEW brs2,
         \A b \in DOMAIN brs2 : \E c \in DOMAIN brs :
            /\ brs2[b] \subseteq brs[c]
            /\ \A v \in brs2[b] : UpTo(brs[c], v) \subseteq brs2[b]
  PROVE  Shared(brs2)
<1>. SUFFICES ASSUME NEW b \in DOMAIN brs2, NEW d \in DOMAIN brs2,
                     NEW v \in brs2[b] \cap brs2[d]
              PROVE  UpTo(brs2[b], v) = UpTo(brs2[d], v)
  BY DEF Shared
<1>1. PICK c \in DOMAIN brs : /\ brs2[b] \subseteq brs[c]
                              /\ \A w \in brs2[b] : UpTo(brs[c], w) \subseteq brs2[b]
  OBVIOUS
<1>2. PICK e \in DOMAIN brs : /\ brs2[d] \subseteq brs[e]
                              /\ \A w \in brs2[d] : UpTo(brs[e], w) \subseteq brs2[d]
  OBVIOUS
<1>3. UpTo(brs2[b], v) = UpTo(brs[c], v)
  BY <1>1 DEF UpTo
<1>4. UpTo(brs2[d], v) = UpTo(brs[e], v)
  BY <1>2 DEF UpTo
<1>5. UpTo(brs[c], v) = UpTo(brs[e], v)
  BY <1>1, <1>2 DEF Shared
<1>. QED  BY <1>3, <1>4, <1>5

\* The same versions taken off every branch leave shared pasts.
LEMMA WithoutShared ==
  ASSUME NEW brs, Shared(brs), NEW M
  PROVE  Shared([b \in DOMAIN brs |-> brs[b] \ M])
<1>. SUFFICES ASSUME NEW b \in DOMAIN brs, NEW c \in DOMAIN brs,
                     NEW v \in (brs[b] \ M) \cap (brs[c] \ M)
              PROVE  UpTo(brs[b] \ M, v) = UpTo(brs[c] \ M, v)
  BY DEF Shared
<1>1. UpTo(brs[b], v) = UpTo(brs[c], v)
  BY DEF Shared
<1>. QED  BY <1>1 DEF UpTo

\* A version newer than all others, on one branch, leaves shared pasts.
LEMMA AddedShared ==
  ASSUME NEW brs, NEW ids, NEW n \in Nat, IsMap(brs, ids, SUBSET (0 .. n - 1)),
         Shared(brs), NEW b \in DOMAIN brs
  PROVE  Shared(MapInsert(brs, b, brs[b] \cup {n}))
<1> DEFINE brs2 == MapInsert(brs, b, brs[b] \cup {n})
<1>1. /\ DOMAIN brs2 = DOMAIN brs
      /\ \A c \in DOMAIN brs : brs2[c] = IF c = b THEN brs[c] \cup {n} ELSE brs[c]
  BY DEF MapInsert
<1>2. \A c \in DOMAIN brs : \A w \in brs[c] : w \in Nat /\ w < n
  BY DEF IsMap
<1>. HIDE DEF brs2
<1>3. ASSUME NEW c \in DOMAIN brs, NEW d \in DOMAIN brs,
             NEW v \in brs2[c] \cap brs2[d], c # d
      PROVE  UpTo(brs2[c], v) = UpTo(brs2[d], v)
  <2>1. v \in brs[c] \cap brs[d] /\ v \in Nat /\ v < n
    BY <1>1, <1>2, <1>3
  <2>2. UpTo(brs[c], v) = UpTo(brs[d], v)
    BY <2>1 DEF Shared
  <2>3. UpTo(brs2[c], v) = UpTo(brs[c], v) /\ UpTo(brs2[d], v) = UpTo(brs[d], v)
    BY <1>1, <2>1 DEF UpTo
  <2>. QED  BY <2>2, <2>3
<1>4. Shared(brs2)
  BY <1>1, <1>3 DEF Shared
<1>. QED  BY <1>4 DEF brs2

\* What do_branch_merge_to computes, starting at the fork point or after the
\* newest version of the target, is the union of the two branches.
LEMMA MergedIsUnion ==
  ASSUME NEW S \in SUBSET Nat, NEW T \in SUBSET Nat
  PROVE  MergedVers(S, T) = S \cup T
<1> DEFINE common == CommonPrefix({S, T})
<1>1. common \subseteq S /\ common \subseteq T
  BY DEF CommonPrefix
<1>2. \A v \in common : UpTo(S, v) = UpTo(T, v)
  BY DEF CommonPrefix
<1>3. CASE S \ common # {} /\ T \ common # {}
  <2>1. MergedVers(S, T) = T \cup (S \ common)
    BY <1>3 DEF MergedVers
  <2>. QED  BY <1>1, <2>1
<1>4. CASE ~(S \ common # {} /\ T \ common # {})
  <2>1. MergedVers(S, T) = T \cup {v \in S : \A u \in T : u < v}
    BY <1>4 DEF MergedVers
  <2>2. CASE S \ common = {}
    BY <1>1, <2>1, <2>2
  <2>3. CASE T \ common = {}
    <3>1. ASSUME NEW v \in S \ T, NEW u \in T
          PROVE  u < v
      <4>1. UpTo(S, u) = UpTo(T, u)
        BY <1>2, <2>3
      <4>. QED  BY <3>1, <4>1 DEF UpTo
    <3>. HIDE DEF common
    <3>. QED  BY <2>1, <3>1
  <2>. QED  BY <1>4, <2>2, <2>3
<1>. QED  BY <1>3, <1>4

\* Branches that each keep an initial part of their own versions.
LEMMA OwnPartsShared ==
  ASSUME TypeOK, SharedHistory, DOMAIN br_to_its_vers' \subseteq DOMAIN br_to_its_vers,
         \A b \in DOMAIN br_to_its_vers' :
            /\ br_to_its_vers'[b] \subseteq br_to_its_vers[b]
            /\ \A v \in br_to_its_vers'[b] :
                 UpTo(br_to_its_vers[b], v) \subseteq br_to_its_vers'[b]
  PROVE  SharedHistory'
<1>1. IsMap(br_to_its_vers, BrIds, SUBSET Nat)
  BY WidenIsMap DEF TypeOK, VerIds
<1>. QED  BY <1>1, PartsShared, SharedIsShared, SharedIsSharedNext

\* Setting a branch to an initial part of the versions of some branch.
LEMMA SetPartShared ==
  ASSUME TypeOK, SharedHistory, NEW t, NEW S, SetVers(t, S), NEW c,
         S \subseteq Vers(c), \A v \in S : UpTo(Vers(c), v) \subseteq S
  PROVE  SharedHistory'
<1>1. IsMap(br_to_its_vers, BrIds, SUBSET Nat)
  BY WidenIsMap DEF TypeOK, VerIds
<1>2. /\ t \in DOMAIN br_to_its_vers
      /\ DOMAIN br_to_its_vers' = DOMAIN br_to_its_vers
      /\ \A b \in DOMAIN br_to_its_vers :
           br_to_its_vers'[b] = IF b = t THEN S ELSE br_to_its_vers[b]
  BY DEF SetVers, TypeOK, IsMap
<1>3. PICK d \in DOMAIN br_to_its_vers :
           S \subseteq br_to_its_vers[d] /\ \A v \in S : UpTo(br_to_its_vers[d], v) \subseteq S
  BY <1>2 DEF Vers
<1>4. \A b \in DOMAIN br_to_its_vers' : \E e \in DOMAIN br_to_its_vers :
         /\ br_to_its_vers'[b] \subseteq br_to_its_vers[e]
         /\ \A v \in br_to_its_vers'[b] : UpTo(br_to_its_vers[e], v) \subseteq br_to_its_vers'[b]
  BY <1>2, <1>3 DEF UpTo
<1>. QED  BY <1>1, <1>4, PartsShared, SharedIsShared, SharedIsSharedNext

\* A new version on one branch leaves shared pasts.
LEMMA AddVersionShared ==
  ASSUME TypeOK, NEW brs, NEW ids, IsMap(brs, ids, SUBSET VerIds), Shared(brs),
         NEW b \in DOMAIN brs, NEW name, AddVersion(brs, b, name)
  PROVE  SharedHistory'
<1>1. \/ br_to_its_vers' = brs
      \/ br_to_its_vers' = MapInsert(brs, b, brs[b] \cup {next_ver_id})
  BY DEF AddVersion
<1>2. Shared(MapInsert(brs, b, brs[b] \cup {next_ver_id}))
  BY AddedShared DEF TypeOK, VerIds
<1>. QED  BY <1>1, <1>2, SharedIsSharedNext

\* A new branch starts as an initial part of its base branch.
LEMMA CreateShared ==
  ASSUME TypeOK, SharedHistory, CreateStep
  PROVE  SharedHistory'
<1>1. ASSUME NEW b, NEW n, VersionCreate(b, n)
      PROVE  SharedHistory'
  BY <1>1, AddVersionShared, SharedIsShared DEF VersionCreate, TypeOK
<1>2. ASSUME NEW n, NEW b, NEW base \in Bases(b), NEW name, NEW force,
             BranchCreate(n, b, base, name, force)
      PROVE  SharedHistory'
  <2> DEFINE brs  == MapRemove(br_to_its_vers, Replaced(n, force))
             kept == UNION {UpTo(brs[b], v) : v \in base}
             all  == MapInsert(brs, next_br_id, kept)
  <2>1. b \in DOMAIN brs /\ AddVersion(all, next_br_id, name)
    BY <1>2 DEF BranchCreate
  <2>2. /\ IsMap(brs, BrIds, SUBSET VerIds)
        /\ DOMAIN brs \subseteq DOMAIN br_to_its_vers
        /\ \A c \in DOMAIN brs : brs[c] = br_to_its_vers[c]
    BY RemoveIsMap, RemoveKeeps DEF TypeOK
  <2>. HIDE DEF brs
  <2>3. brs[b] = Vers(b) /\ brs[b] \in SUBSET VerIds
    BY <2>1, <2>2, VersType DEF Vers
  <2>4. kept = {} \/ \E v \in VerIds : kept = UpTo(brs[b], v)
    BY <2>3 DEF Bases
  <2>5. kept \subseteq brs[b] /\ \A v \in kept : UpTo(brs[b], v) \subseteq kept
    BY <2>3, <2>4 DEF UpTo, VerIds, TypeOK
  <2>. HIDE DEF kept
  <2>6. /\ IsMap(all, BrIds \cup {next_br_id}, SUBSET VerIds)
        /\ DOMAIN all = DOMAIN brs \cup {next_br_id}
        /\ \A c \in DOMAIN all : all[c] = IF c = next_br_id THEN kept ELSE brs[c]
    <3>1. IsMap(brs, BrIds \cup {next_br_id}, SUBSET VerIds) /\ kept \in SUBSET VerIds
      BY <2>2, <2>3, <2>5, WidenIsMap
    <3>. QED  BY <3>1, InsertIsMap
  <2>. HIDE DEF all
  <2>7. \A c \in DOMAIN all : \E e \in DOMAIN br_to_its_vers :
           /\ all[c] \subseteq br_to_its_vers[e]
           /\ \A v \in all[c] : UpTo(br_to_its_vers[e], v) \subseteq all[c]
    BY <2>1, <2>2, <2>5, <2>6 DEF UpTo
  <2>8. IsMap(br_to_its_vers, BrIds, SUBSET Nat)
    BY WidenIsMap DEF TypeOK, VerIds
  <2>9. Shared(all)
    BY <2>7, <2>8, PartsShared, SharedIsShared
  <2>. QED  BY <2>1, <2>6, <2>9, AddVersionShared
<1>. QED  BY <1>1, <1>2 DEF CreateStep

\* Removing branches leaves shared pasts.
LEMMA RemoveShared ==
  ASSUME TypeOK, SharedHistory, NEW S, RemoveBranches(S)
  PROVE  SharedHistory'
<1>1. /\ DOMAIN br_to_its_vers' \subseteq DOMAIN br_to_its_vers
      /\ \A b \in DOMAIN br_to_its_vers' : br_to_its_vers'[b] = br_to_its_vers[b]
  BY RemoveKeeps DEF RemoveBranches
<1>. QED  BY <1>1, OwnPartsShared DEF UpTo

\* The initial branch alone has a shared past,
LEMMA FirstShared ==
  ASSUME br_to_its_vers = MapInsert(EmptyMap, INITIAL_BRANCH_ID, {})
  PROVE  SharedHistory
  BY DEF SharedHistory, Vers, MapInsert, EmptyMap

\* also when it is created again.
LEMMA ClearShared ==
  ASSUME Clear
  PROVE  SharedHistory'
  BY SharedIsSharedNext DEF Clear, Shared, MapInsert, EmptyMap

\* Popping, truncating and reverting take the newest versions, or one version
\* everywhere.
LEMMA DropShared ==
  ASSUME TypeOK, SharedHistory, DropStep
  PROVE  SharedHistory'
<1>1. ASSUME NEW b, VersionPop(b)
      PROVE  SharedHistory'
  <2>1. PICK h \in Vers(b) : IsLast(h, Vers(b)) /\ SetVers(b, Vers(b) \ {h})
    BY <1>1 DEF VersionPop
  <2>2. Vers(b) \in SUBSET Nat
    BY VersType DEF VerIds, TypeOK
  <2>3. \A v \in Vers(b) \ {h} : UpTo(Vers(b), v) \subseteq Vers(b) \ {h}
    BY <2>1, <2>2 DEF UpTo, IsLast
  <2>. QED  BY <2>1, <2>3, SetPartShared
<1>2. ASSUME NEW b, BranchTruncate(b)
      PROVE  SharedHistory'
  BY <1>2, SetPartShared DEF BranchTruncate
<1>3. ASSUME NEW b, NEW v \in KnownVersions, BranchTruncateTo(b, v)
      PROVE  SharedHistory'
  <2>1. Vers(b) \in SUBSET Nat /\ v \in Nat
    BY VersType DEF VerIds, TypeOK, KnownVersions, IsMap, Range
  <2>2. /\ UpTo(Vers(b), v) \subseteq Vers(b)
        /\ \A w \in UpTo(Vers(b), v) : UpTo(Vers(b), w) \subseteq UpTo(Vers(b), v)
    BY <2>1 DEF UpTo
  <2>. QED  BY <1>3, <2>2, SetPartShared DEF BranchTruncateTo
<1>4. ASSUME NEW v, VersionRevert(v)
      PROVE  SharedHistory'
  BY <1>4, WithoutShared, SharedIsShared, SharedIsSharedNext DEF VersionRevert
<1>. QED  BY <1>1, <1>2, <1>3, <1>4, RemoveShared, ClearShared
          DEF DropStep, BranchRemove, BranchCreateFails

\* The newest version of the target is on the branch that is merged, so all of
\* the target is, and the target becomes that branch.
LEMMA SafeMerge ==
  ASSUME TypeOK, SharedHistory, NEW b, NEW t, BranchMergeTo(b, t)
  PROVE  SetVers(t, Vers(b)) /\ Vers(t) \subseteq Vers(b)
<1>1. /\ \A h \in Vers(t) : IsLast(h, Vers(t)) => h \in Vers(b)
      /\ b \in DOMAIN br_to_its_vers /\ t \in DOMAIN br_to_its_vers
      /\ SetVers(t, MergedVers(Vers(b), Vers(t)))
  BY DEF BranchMergeTo, BranchMergeToForce, SetVers
<1>2. Vers(b) \in SUBSET Nat /\ Vers(t) \in SUBSET Nat
      /\ Vers(t) \in SUBSET (0 .. next_ver_id)
  BY VersType DEF VerIds, TypeOK
<1>3. Vers(t) \subseteq Vers(b)
  <2>. SUFFICES ASSUME NEW v \in Vers(t)
                PROVE  v \in Vers(b)
    OBVIOUS
  <2>1. Max(Vers(t)) \in Vers(t) /\ \A x \in Vers(t) : x <= Max(Vers(t))
    BY <1>2, MaxInSet DEF TypeOK
  <2>2. Max(Vers(t)) \in Vers(b)
    BY <1>1, <2>1 DEF IsLast
  <2>3. UpTo(Vers(t), Max(Vers(t))) = UpTo(Vers(b), Max(Vers(t)))
    BY <1>1, <2>1, <2>2 DEF SharedHistory
  <2>. QED  BY <2>1, <2>3 DEF UpTo
<1>4. MergedVers(Vers(b), Vers(t)) = Vers(b)
  BY <1>2, <1>3, MergedIsUnion
<1>. QED  BY <1>1, <1>3, <1>4

\* A merge that branch_merge_to allows leaves shared pasts.
LEMMA MergeShared ==
  ASSUME TypeOK, SharedHistory, MergeStep
  PROVE  SharedHistory'
<1>1. PICK b \in Branches, t \in Branches : BranchMergeTo(b, t)
  BY DEF MergeStep
<1>. QED  BY <1>1, SafeMerge, SetPartShared DEF UpTo

\* Pruning takes the same versions off every branch, and a rebase the newest
\* off one.
LEMMA CompactShared ==
  ASSUME TypeOK, SharedHistory, CompactStep
  PROVE  SharedHistory'
<1>1. ASSUME CleanUp
      PROVE  SharedHistory'
  BY <1>1, SharedIsShared, SharedIsSharedNext DEF CleanUp
<1>2. ASSUME NEW merged, NEW base, PruneInto(merged, base)
      PROVE  SharedHistory'
  BY <1>2, WithoutShared, SharedIsShared, SharedIsSharedNext DEF PruneInto
<1>3. ASSUME NEW b, NEW base, VersionRebase(b, base)
      PROVE  SharedHistory'
  <2>1. /\ base \in Vers(b)
        /\ br_to_its_vers' = [br_to_its_vers EXCEPT ![b] = @ \ Newer(b, base)]
    BY <1>3 DEF VersionRebase
  <2>2. b \in DOMAIN br_to_its_vers /\ Vers(b) \in SUBSET Nat
    BY <2>1, VersType DEF Vers, VerIds, TypeOK
  <2>3. /\ DOMAIN br_to_its_vers' = DOMAIN br_to_its_vers
        /\ \A c \in DOMAIN br_to_its_vers :
             br_to_its_vers'[c] = IF c = b THEN Vers(b) \ Newer(b, base)
                                           ELSE br_to_its_vers[c]
    BY <2>1, <2>2 DEF Vers, TypeOK, IsMap
  <2>4. \A v \in Vers(b) \ Newer(b, base) :
           UpTo(Vers(b), v) \subseteq Vers(b) \ Newer(b, base)
    BY <2>1, <2>2 DEF UpTo, Newer
  <2>5. \A c \in DOMAIN br_to_its_vers' :
            /\ br_to_its_vers'[c] \subseteq br_to_its_vers[c]
            /\ \A v \in br_to_its_vers'[c] :
                 UpTo(br_to_its_vers[c], v) \subseteq br_to_its_vers'[c]
    BY <2>2, <2>3, <2>4 DEF Vers, UpTo
  <2>. QED  BY <2>3, <2>5, OwnPartsShared
<1>. QED  BY <1>1, <1>2, <1>3, RemoveShared DEF CompactStep, BranchKeepOnly, Prune

\* Every step leaves shared pasts.
LEMMA NextShared ==
  ASSUME TypeOK, SharedHistory, [Next]_vars
  PROVE  SharedHistory'
<1>1. CASE UNCHANGED br_to_its_vers
  BY <1>1, SharedIsShared, SharedIsSharedNext
<1>2. CASE WriteStep \/ RenameStep \/ Restart \/ UNCHANGED vars
  BY <1>1, <1>2 DEF WriteStep, Insert, Remove, Write, RenameStep, BranchSetDefault,
                    BranchSwap, Restart, vars
<1>. QED  BY <1>2, CreateShared, DropShared, MergeShared, CompactShared DEF Next

\* Branches that have a version in common have all older versions in common,
\* however branches are created, cut, merged, reverted, rebased and pruned.
THEOREM SharedHistoryHolds == Spec => []SharedHistory
<1>1. Init => SharedHistory
  BY FirstShared DEF Init
<1>2. TypeOK /\ SharedHistory /\ [Next]_vars => SharedHistory'
  BY NextShared
<1>. QED  BY <1>1, <1>2, TypeCorrect, SpecIsUnsafe, PTL DEF Spec

\* A merge that branch_merge_to allows makes the target the branch that was
\* merged into it, version for version and value for value.
THEOREM MergeTakesAll == Spec => MergeCatchesUp
<1>1. ASSUME TypeOK, SharedHistory, NEW b, NEW t, BranchMergeTo(b, t)
      PROVE  /\ Vers(t)' = Vers(b)
             /\ \A k \in Key : \A v \in Vers(b) : Get(k, t, v)' = Get(k, b, v)
  <2>1. SetVers(t, Vers(b))
    BY <1>1, SafeMerge
  <2>2. Vers(t)' = Vers(b)
    BY <1>1, <2>1 DEF SetVers, Vers, TypeOK, IsMap
  <2>3. layered_kv' = layered_kv
    BY <2>1 DEF SetVers, data
  <2>. QED  BY <2>2, <2>3 DEF Get, KeyVers
<1>2. TypeOK /\ SharedHistory /\ [Next]_vars =>
        [\A b, t \in Branches : BranchMergeTo(b, t) =>
           /\ Vers(t)' = Vers(b)
           /\ \A k \in Key : \A v \in Vers(b) : Get(k, t, v)' = Get(k, b, v)]_vars
  BY <1>1
<1>. QED  BY <1>2, TypeCorrect, SpecIsUnsafe, SharedHistoryHolds, PTL DEF Spec, MergeCatchesUp

-----------------------------------------------------------------------------
(* A version that is on no branch does not come back.                      *)

\* No operation puts a version that is on no branch back on one, so that what
\* clean-up and prune destroy is never needed again.
THEOREM OrphansNeverReturn == UnsafeSpec => OrphansStayOrphans
<1>1. TypeOK /\ [Next \/ ForceStep]_vars =>
        [AllVers(br_to_its_vers') \subseteq AllVers(br_to_its_vers) \cup {next_ver_id}]_vars
  <2>. SUFFICES ASSUME TypeOK, Next \/ ForceStep
                PROVE  AllVers(br_to_its_vers') \subseteq
                         AllVers(br_to_its_vers) \cup {next_ver_id}
    OBVIOUS
  <2>1. CASE WriteStep \/ RenameStep \/ Restart
    <3>1. br_to_its_vers' = br_to_its_vers
      BY <2>1 DEF WriteStep, Insert, Remove, Write, RenameStep, BranchSetDefault,
                  BranchSwap, Restart
    <3>. QED  BY <3>1
  <2>. QED  BY <2>1, CreateFewer, DropFewer, MergeFewer, CompactFewer DEF Next
<1>. QED  BY <1>1, TypeCorrect, PTL DEF UnsafeSpec, OrphansStayOrphans

-----------------------------------------------------------------------------
(***************************************************************************)
(* The redundant maps.  What follows holds after any sequence of calls,    *)
(* forced merges included.                                                 *)
(***************************************************************************)

\* The names of branches, and of versions, are such maps.
LEMMA NamesAreBack ==
  NamesConsistent <=> /\ DOMAIN br_id_to_br_name = DOMAIN br_to_its_vers
                      /\ Back(br_name_to_br_id, br_id_to_br_name)
                      /\ Back(ver_name_to_ver_id, ver_id_to_ver_name)
  BY DEF NamesConsistent, Back

-----------------------------------------------------------------------------
(* Names and ids.                                                          *)

\* A new version is given a name that is free and an id that is new.
LEMMA AddVersionBack ==
  ASSUME TypeOK, Back(ver_name_to_ver_id, ver_id_to_ver_name),
         NEW brs, NEW b \in DOMAIN brs, NEW name, AddVersion(brs, b, name)
  PROVE  /\ Back(ver_name_to_ver_id, ver_id_to_ver_name)'
         /\ DOMAIN br_to_its_vers' = DOMAIN brs
<1>1. next_ver_id \notin DOMAIN ver_id_to_ver_name
  BY DEF TypeOK, IsMap, VerIds
<1>2. CASE name = {} /\ br_to_its_vers' = brs /\ UNCHANGED verNames
  BY <1>2 DEF verNames, Back
<1>3. CASE \E n \in name :
             /\ n \notin DOMAIN ver_name_to_ver_id
             /\ br_to_its_vers' = MapInsert(brs, b, brs[b] \cup {next_ver_id})
             /\ ver_name_to_ver_id' = MapInsert(ver_name_to_ver_id, n, next_ver_id)
             /\ ver_id_to_ver_name' = MapInsert(ver_id_to_ver_name, next_ver_id, n)
  <2>1. PICK n \in name :
             /\ n \notin DOMAIN ver_name_to_ver_id
             /\ br_to_its_vers' = MapInsert(brs, b, brs[b] \cup {next_ver_id})
             /\ ver_name_to_ver_id' = MapInsert(ver_name_to_ver_id, n, next_ver_id)
             /\ ver_id_to_ver_name' = MapInsert(ver_id_to_ver_name, next_ver_id, n)
    BY <1>3
  <2>2. Back(MapInsert(ver_name_to_ver_id, n, next_ver_id),
             MapInsert(ver_id_to_ver_name, next_ver_id, n))
    BY <1>1, <2>1, InsertBack
  <2>. QED  BY <2>1, <2>2 DEF Back, MapInsert
<1>. QED  BY <1>2, <1>3 DEF AddVersion

\* Creating branches and versions keeps the names and ids together.
LEMMA CreateNames ==
  ASSUME TypeOK, NamesConsistent, CreateStep
  PROVE  NamesConsistent'
<1>1. ASSUME NEW b, NEW n, VersionCreate(b, n)
      PROVE  NamesConsistent'
  <2>1. DOMAIN br_to_its_vers' = DOMAIN br_to_its_vers
        /\ Back(ver_name_to_ver_id, ver_id_to_ver_name)'
    BY <1>1, AddVersionBack, NamesAreBack DEF VersionCreate
  <2>. QED  BY <1>1, <2>1 DEF VersionCreate, brNames, NamesConsistent, Back
<1>2. ASSUME NEW n, NEW b, NEW base, NEW name, NEW force,
             BranchCreate(n, b, base, name, force)
      PROVE  NamesConsistent'
  <2> DEFINE gone == Replaced(n, force)
             brs  == MapRemove(br_to_its_vers, gone)
             all  == MapInsert(brs, next_br_id, UNION {UpTo(brs[b], v) : v \in base})
             f    == BrNamesAfterRemoval(gone)
             g    == MapRemove(br_id_to_br_name, gone)
  <2>1. /\ n \notin DOMAIN f
        /\ br_name_to_br_id' = MapInsert(f, n, next_br_id)
        /\ br_id_to_br_name' = MapInsert(g, next_br_id, n)
        /\ AddVersion(all, next_br_id, name)
    BY <1>2 DEF BranchCreate
  <2>2. next_br_id \in DOMAIN all
    BY DEF MapInsert
  <2>3. DOMAIN all = (DOMAIN br_to_its_vers \ gone) \cup {next_br_id}
    BY DEF MapInsert, MapRemove, Restrict
  <2>4. DOMAIN br_to_its_vers' = DOMAIN all
        /\ Back(ver_name_to_ver_id, ver_id_to_ver_name)'
    <3>. HIDE DEF all
    <3>. QED  BY <2>1, <2>2, AddVersionBack, NamesAreBack
  <2>5. gone \subseteq DOMAIN br_id_to_br_name
    BY DEF Replaced, NamesConsistent, Range
  <2>6. Back(f, g) /\ DOMAIN g = DOMAIN br_id_to_br_name \ gone
    <3>1. Back(f, g)
      BY <2>5, RemoveBack, NamesAreBack DEF BrNamesAfterRemoval
    <3>. QED  BY <3>1 DEF MapRemove, Restrict
  <2>7. next_br_id \notin DOMAIN g
    BY <2>6 DEF TypeOK, IsMap, BrIds
  <2>. HIDE DEF gone, all, f, g
  <2>8. Back(br_name_to_br_id', br_id_to_br_name')
    BY <2>1, <2>6, <2>7, InsertBack
  <2>9. DOMAIN br_id_to_br_name' = DOMAIN br_to_its_vers'
    BY <2>1, <2>3, <2>4, <2>6 DEF MapInsert, NamesConsistent
  <2>. QED  BY <2>4, <2>8, <2>9 DEF NamesConsistent, Back
<1>. QED  BY <1>1, <1>2 DEF CreateStep

\* Branches are removed with their names.
LEMMA RemoveNames ==
  ASSUME TypeOK, NamesConsistent, NEW S, RemoveBranches(S)
  PROVE  /\ DOMAIN br_id_to_br_name' = DOMAIN br_to_its_vers'
         /\ Back(br_name_to_br_id', br_id_to_br_name')
<1>1. S \in SUBSET DOMAIN br_id_to_br_name
  BY DEF RemoveBranches
<1>2. Back(br_name_to_br_id', br_id_to_br_name')
  BY <1>1, RemoveBack, NamesAreBack DEF RemoveBranches, BrNamesAfterRemoval
<1>. QED  BY <1>2 DEF RemoveBranches, MapRemove, Restrict, NamesConsistent

\* Names are forgotten of versions that have one: in both maps.
LEMMA ForgetNames ==
  ASSUME NamesConsistent, NEW S \in SUBSET DOMAIN ver_id_to_ver_name, ForgetVersions(S)
  PROVE  /\ Back(ver_name_to_ver_id', ver_id_to_ver_name')
         /\ DOMAIN ver_id_to_ver_name' = DOMAIN ver_id_to_ver_name \ S
<1>1. Back(ver_name_to_ver_id', ver_id_to_ver_name')
  BY RemoveBack, NamesAreBack DEF ForgetVersions
<1>. QED  BY <1>1 DEF ForgetVersions, MapRemove, Restrict

\* Taking versions off branches, and clearing, keep names and ids together.
LEMMA DropNames ==
  ASSUME TypeOK, NamesConsistent, HaveNames, DropStep
  PROVE  NamesConsistent'
<1>1. ASSUME NEW b, NEW S, SetVers(b, S)
      PROVE  NamesConsistent'
  BY <1>1 DEF SetVers, NamesConsistent, brNames, verNames
<1>2. ASSUME NEW S, RemoveBranches(S), UNCHANGED verNames
      PROVE  NamesConsistent'
  BY <1>2, RemoveNames, NamesAreBack DEF NamesConsistent, Back, verNames
<1>3. ASSUME NEW v, VersionRevert(v)
      PROVE  NamesConsistent'
  <2>1. Back(ver_name_to_ver_id', ver_id_to_ver_name')
    BY <1>3, ForgetNames DEF VersionRevert, HaveNames
  <2>2. UNCHANGED brNames /\ DOMAIN br_to_its_vers' = DOMAIN br_to_its_vers
    BY <1>3 DEF VersionRevert
  <2>. QED  BY <2>1, <2>2 DEF NamesConsistent, Back, brNames
<1>4. ASSUME Clear
      PROVE  NamesConsistent'
  BY <1>4 DEF Clear, NamesConsistent, EmptyMap, MapInsert, Range
<1>. QED  BY <1>1, <1>2, <1>3, <1>4
          DEF DropStep, VersionPop, BranchRemove, BranchTruncate, BranchTruncateTo,
              BranchCreateFails

\* So do clean-up, keep_only, prune and rebase: the versions they forget have
\* change sets, hence names.
LEMMA CompactNames ==
  ASSUME TypeOK, NamesConsistent, HaveNames, CompactStep
  PROVE  NamesConsistent'
<1>1. ASSUME NEW S \in SUBSET DOMAIN ver_to_change_set, ForgetVersions(S)
      PROVE  Back(ver_name_to_ver_id', ver_id_to_ver_name')
  BY <1>1, ForgetNames DEF HaveNames
<1>2. \A brs : Orphans(brs) \subseteq DOMAIN ver_to_change_set
  BY DEF Orphans
<1>3. ASSUME NEW S \in SUBSET DOMAIN ver_to_change_set, ForgetVersions(S),
             UNCHANGED brNames, DOMAIN br_to_its_vers' = DOMAIN br_to_its_vers
      PROVE  NamesConsistent'
  BY <1>1, <1>3 DEF NamesConsistent, Back, brNames
<1>4. ASSUME CleanUp
      PROVE  NamesConsistent'
  BY <1>2, <1>3, <1>4 DEF CleanUp, Purge
<1>5. ASSUME NEW keep, BranchKeepOnly(keep)
      PROVE  NamesConsistent'
  BY <1>1, <1>2, <1>5, RemoveNames DEF BranchKeepOnly, Purge, NamesConsistent, Back
<1>6. ASSUME NEW merged, NEW base, PruneInto(merged, base)
      PROVE  NamesConsistent'
  BY <1>2, <1>3, <1>6 DEF PruneInto
<1>7. ASSUME NEW b, NEW base, VersionRebase(b, base)
      PROVE  NamesConsistent'
  BY <1>3, <1>7 DEF VersionRebase
<1>. QED  BY <1>4, <1>5, <1>6, <1>7 DEF CompactStep, Prune

\* Two branches that exchange names have one name each.
LEMMA RenameNames ==
  ASSUME TypeOK, NamesConsistent, RenameStep
  PROVE  NamesConsistent'
<1>1. ASSUME NEW b, BranchSetDefault(b)
      PROVE  NamesConsistent'
  BY <1>1 DEF BranchSetDefault, NamesConsistent, brNames, verNames
<1>2. ASSUME NEW m, NEW n, BranchSwap(m, n)
      PROVE  NamesConsistent'
  <2>1. /\ m \in DOMAIN br_name_to_br_id /\ n \in DOMAIN br_name_to_br_id
        /\ Back(br_name_to_br_id', br_id_to_br_name')
    BY <1>2, SwapBack, NamesAreBack DEF BranchSwap
  <2>2. DOMAIN br_id_to_br_name' = DOMAIN br_id_to_br_name
    BY <1>2, <2>1 DEF BranchSwap, MapInsert, NamesConsistent, Range
  <2>. QED  BY <1>2, <2>1, <2>2 DEF BranchSwap, NamesConsistent, Back, verNames
<1>. QED  BY <1>1, <1>2 DEF RenameStep

\* A restart derives the maps back that there were.
LEMMA RestartNames ==
  ASSUME NamesConsistent, Restart
  PROVE  NamesConsistent'
<1>1. /\ Back(br_name_to_br_id, AntiFunction(br_name_to_br_id))
      /\ Back(ver_name_to_ver_id, AntiFunction(ver_name_to_ver_id))
  BY AntiBack, NamesAreBack
<1>. QED  BY <1>1 DEF Restart, NamesConsistent, Back

\* Every step keeps names and ids together.
LEMMA NextNames ==
  ASSUME TypeOK, NamesConsistent, HaveNames, [Next \/ ForceStep]_vars
  PROVE  NamesConsistent'
<1>1. CASE UNCHANGED vars \/ WriteStep
  BY <1>1 DEF vars, WriteStep, Insert, Remove, Write, NamesConsistent, brNames, verNames
<1>2. CASE MergeStep \/ ForceStep
  BY <1>2 DEF MergeStep, ForceStep, BranchMergeTo, BranchMergeToForce, SetVers,
              NamesConsistent, brNames, verNames
<1>. QED  BY <1>1, <1>2, CreateNames, DropNames, CompactNames, RenameNames, RestartNames
          DEF Next

-----------------------------------------------------------------------------
(* Change sets and layers.                                                 *)

\* Change sets cs are the keys whose layers in kv have a value of the version.
Exact(kv, cs) ==
    /\ \A k \in DOMAIN kv : DOMAIN kv[k] \subseteq DOMAIN cs
    /\ \A v \in DOMAIN cs : \A k : k \in cs[v] <=> k \in DOMAIN kv /\ v \in DOMAIN kv[k]

\* ChangeSetExact, key by key,
LEMMA ExactIs == ChangeSetExact <=> Exact(layered_kv, ver_to_change_set)
  BY DEF ChangeSetExact, Exact

\* in the next state as well.
LEMMA ExactIsNext == ChangeSetExact' <=> Exact(layered_kv', ver_to_change_set')
  BY DEF ChangeSetExact, Exact

\* A write enters the key in the layers and in the change set of one version.
LEMMA WriteExact ==
  ASSUME TypeOK, HaveChangeSets, ChangeSetExact, WriteStep
  PROVE  ChangeSetExact'
<1>0. PICK b, k, v : \E h \in Vers(b) : Write(k, v, h)
  BY DEF WriteStep, Insert, Remove
<1>1. PICK h \in Vers(b) : Write(k, v, h)
  BY <1>0
<1>2. h \in DOMAIN ver_to_change_set
  BY VersInAll DEF HaveChangeSets
<1>3. /\ layered_kv' = MapInsert(layered_kv, k, MapInsert(KeyVers(k), h, v))
      /\ ver_to_change_set' = [ver_to_change_set EXCEPT ![h] = @ \cup {k}]
  BY <1>1 DEF Write
<1>4. /\ DOMAIN layered_kv' = DOMAIN layered_kv \cup {k}
      /\ \A j \in DOMAIN layered_kv : j # k => layered_kv'[j] = layered_kv[j]
      /\ DOMAIN layered_kv'[k] = DOMAIN KeyVers(k) \cup {h}
  BY <1>3 DEF MapInsert
<1>5. \A w : w \in DOMAIN KeyVers(k) <=> k \in DOMAIN layered_kv /\ w \in DOMAIN layered_kv[k]
  BY DEF KeyVers, EmptyMap
<1>6. /\ DOMAIN ver_to_change_set' = DOMAIN ver_to_change_set
      /\ \A w \in DOMAIN ver_to_change_set :
           ver_to_change_set'[w] = IF w = h THEN ver_to_change_set[w] \cup {k}
                                            ELSE ver_to_change_set[w]
  BY <1>2, <1>3 DEF TypeOK, IsMap
<1>. QED  BY <1>2, <1>4, <1>5, <1>6, ExactIs, ExactIsNext DEF Exact

\* A new version has changed nothing, and no layer has a value of it yet.
LEMMA AddVersionExact ==
  ASSUME TypeOK, ChangeSetExact, NEW brs, NEW b, NEW name, AddVersion(brs, b, name),
         UNCHANGED layered_kv
  PROVE  ChangeSetExact'
<1>1. CASE UNCHANGED ver_to_change_set
  BY <1>1, ExactIs, ExactIsNext
<1>2. CASE ver_to_change_set' = MapInsert(ver_to_change_set, next_ver_id, {})
  <2>1. \A k \in DOMAIN layered_kv : next_ver_id \notin DOMAIN layered_kv[k]
    BY DEF TypeOK, IsLayers, IsMap, VerIds
  <2>. QED  BY <1>2, <2>1, ExactIs, ExactIsNext DEF Exact, MapInsert
<1>. QED  BY <1>1, <1>2 DEF AddVersion

\* kv2 and cs2 are kv and cs without the values and the change sets of the
\* versions O, and perhaps without keys that have only such values.
Without(O, kv, cs, kv2, cs2) ==
    /\ DOMAIN kv2 \subseteq DOMAIN kv
    /\ \A k \in DOMAIN kv2 : DOMAIN kv2[k] = DOMAIN kv[k] \ O
    /\ \A k \in DOMAIN kv \ DOMAIN kv2 : DOMAIN kv[k] \subseteq O
    /\ DOMAIN cs2 = DOMAIN cs \ O
    /\ \A v \in DOMAIN cs2 : cs2[v] = cs[v]

\* What remains without some versions is exact.
LEMMA WithoutExact ==
  ASSUME NEW O, NEW kv, NEW cs, Exact(kv, cs), NEW kv2, NEW cs2,
         Without(O, kv, cs, kv2, cs2)
  PROVE  Exact(kv2, cs2)
<1>. USE DEF Without
<1>1. ASSUME NEW k \in DOMAIN kv2
      PROVE  DOMAIN kv2[k] \subseteq DOMAIN cs2
  BY <1>1 DEF Exact
<1>2. ASSUME NEW v \in DOMAIN cs2, NEW k
      PROVE  k \in cs2[v] <=> k \in DOMAIN kv2 /\ v \in DOMAIN kv2[k]
  <2>1. v \in DOMAIN cs /\ v \notin O
    BY <1>2
  <2>2. k \in cs2[v] <=> k \in DOMAIN kv /\ v \in DOMAIN kv[k]
    BY <1>2, <2>1 DEF Exact
  <2>3. k \in DOMAIN kv2 => (v \in DOMAIN kv2[k] <=> v \in DOMAIN kv[k])
    BY <2>1
  <2>4. k \in DOMAIN kv /\ v \in DOMAIN kv[k] => k \in DOMAIN kv2
    BY <2>1
  <2>. QED  BY <2>2, <2>3, <2>4
<1>. QED  BY <1>1, <1>2 DEF Exact

\* A revert takes the version out of the layers of the keys it changed.
LEMMA RevertExact ==
  ASSUME ChangeSetExact, NEW v, VersionRevert(v)
  PROVE  ChangeSetExact'
<1>1. /\ v \in DOMAIN ver_to_change_set
      /\ layered_kv' = [k \in DOMAIN layered_kv |->
                         IF k \in ver_to_change_set[v]
                         THEN MapRemove(layered_kv[k], {v}) ELSE layered_kv[k]]
      /\ ver_to_change_set' = MapRemove(ver_to_change_set, {v})
  BY DEF VersionRevert
<1>2. \A k \in DOMAIN layered_kv : DOMAIN layered_kv'[k] = DOMAIN layered_kv[k] \ {v}
  BY <1>1, ExactIs DEF Exact, MapRemove, Restrict
<1>3. /\ DOMAIN ver_to_change_set' = DOMAIN ver_to_change_set \ {v}
      /\ \A w \in DOMAIN ver_to_change_set \ {v} :
           ver_to_change_set'[w] = ver_to_change_set[w]
  BY <1>1 DEF MapRemove, Restrict
<1>4. DOMAIN layered_kv' = DOMAIN layered_kv
  BY <1>1
<1>5. Exact(layered_kv, ver_to_change_set)
  BY ExactIs
<1>6. Exact(layered_kv', ver_to_change_set')
  <2>1. Without({v}, layered_kv, ver_to_change_set, layered_kv', ver_to_change_set')
    BY <1>2, <1>3, <1>4 DEF Without
  <2>. QED  BY <1>5, <2>1, WithoutExact
<1>. QED  BY <1>6, ExactIsNext

\* What the layers of a key lose in a clean-up are the versions cleaned up.
LEMMA PurgedVersDomain ==
  ASSUME ChangeSetExact, NEW O \in SUBSET DOMAIN ver_to_change_set,
         NEW k \in DOMAIN layered_kv
  PROVE  /\ DOMAIN PurgedVers(k, O) = DOMAIN layered_kv[k] \ O
         /\ \A v \in DOMAIN PurgedVers(k, O) : PurgedVers(k, O)[v] = layered_kv[k][v]
  BY ExactIs DEF Exact, PurgedVers, MapRemove, Restrict

\* A key that loses its entry in a clean-up has no value left.
LEMMA PurgedDomain ==
  ASSUME ChangeSetExact, NEW O \in SUBSET DOMAIN ver_to_change_set
  PROVE  /\ DOMAIN PurgedKv(O) \subseteq DOMAIN layered_kv
         /\ \A k \in DOMAIN PurgedKv(O) : PurgedKv(O)[k] = PurgedVers(k, O)
         /\ \A k \in DOMAIN layered_kv \ DOMAIN PurgedKv(O) : DOMAIN layered_kv[k] \subseteq O
  BY PurgedVersDomain DEF PurgedKv

\* What a clean-up leaves is exact.
LEMMA PurgedExact ==
  ASSUME ChangeSetExact, NEW O \in SUBSET DOMAIN ver_to_change_set
  PROVE  Exact(PurgedKv(O), MapRemove(ver_to_change_set, O))
<1> DEFINE kv == PurgedKv(O)
           cs == MapRemove(ver_to_change_set, O)
<1>1. /\ DOMAIN cs = DOMAIN ver_to_change_set \ O
      /\ \A v \in DOMAIN cs : cs[v] = ver_to_change_set[v]
  BY DEF MapRemove, Restrict
<1>2. /\ DOMAIN kv \subseteq DOMAIN layered_kv
      /\ \A k \in DOMAIN kv : DOMAIN kv[k] = DOMAIN layered_kv[k] \ O
      /\ \A k \in DOMAIN layered_kv \ DOMAIN kv : DOMAIN layered_kv[k] \subseteq O
  BY PurgedDomain, PurgedVersDomain
<1>3. Exact(layered_kv, ver_to_change_set)
  BY ExactIs
<1>. HIDE DEF kv, cs
<1>4. Exact(kv, cs)
  <2>1. Without(O, layered_kv, ver_to_change_set, kv, cs)
    BY <1>1, <1>2 DEF Without
  <2>. QED  BY <1>3, <2>1, WithoutExact
<1>. QED  BY <1>4 DEF kv, cs

\* Values of versions that have some move to one version.
LEMMA MergeDomain ==
  ASSUME NEW kvers, NEW from, NEW to
  PROVE  /\ from \cap DOMAIN kvers = {} => MergeInto(kvers, from, to) = kvers
         /\ from \cap DOMAIN kvers # {} =>
              /\ DOMAIN MergeInto(kvers, from, to) = (DOMAIN kvers \ from) \cup {to}
              /\ MergeInto(kvers, from, to)[to] = kvers[Max(from \cap DOMAIN kvers)]
              /\ \A v \in DOMAIN kvers \ (from \cup {to}) :
                   MergeInto(kvers, from, to)[v] = kvers[v]
  BY DEF MergeInto, MapInsert, MapRemove, Restrict

\* The versions a key has after the values of versions S moved to one.
MovedDomain(kvers, S, to) ==
    (DOMAIN kvers \ S) \cup (IF S \cap DOMAIN kvers = {} THEN {} ELSE {to})

\* MergeInto leaves a key these versions.
LEMMA MergeDomainOf ==
  ASSUME NEW kvers, NEW S, NEW from, from = S \cap DOMAIN kvers, NEW to
  PROVE  DOMAIN MergeInto(kvers, from, to) = MovedDomain(kvers, S, to)
<1>. USE DEF MovedDomain
<1>1. CASE from \cap DOMAIN kvers = {}
  <2>1. S \cap DOMAIN kvers = {}
    BY <1>1
  <2>2. DOMAIN kvers \ S = DOMAIN kvers
    BY <2>1
  <2>. QED  BY <1>1, <2>1, <2>2 DEF MergeInto
<1>2. CASE from \cap DOMAIN kvers # {}
  <2>1. S \cap DOMAIN kvers # {}
    BY <1>2
  <2>2. DOMAIN kvers \ S = DOMAIN kvers \ from
    OBVIOUS
  <2>3. DOMAIN MergeInto(kvers, from, to) = (DOMAIN kvers \ from) \cup {to}
    BY <1>2 DEF MergeInto, MapInsert, MapRemove, Restrict
  <2>. QED  BY <2>1, <2>2, <2>3
<1>. QED  BY <1>1, <1>2

\* kv2 and cs2 are kv and cs after the values and the changes of the versions S
\* moved to version `to`.
Moved(S, to, kv, cs, kv2, cs2) ==
    /\ DOMAIN kv2 = DOMAIN kv
    /\ \A k \in DOMAIN kv : DOMAIN kv2[k] = MovedDomain(kv[k], S, to)
    /\ DOMAIN cs2 = DOMAIN cs \ S
    /\ \A v \in DOMAIN cs2 \ {to} : cs2[v] = cs[v]
    /\ \A k : k \in cs2[to] <=> k \in cs[to] \/ \E v \in S : k \in cs[v]

\* Moving values and changes alike leaves change sets exact.
LEMMA MovedExact ==
  ASSUME NEW kv, NEW cs, Exact(kv, cs), NEW S \in SUBSET DOMAIN cs,
         NEW to \in DOMAIN cs \ S, NEW kv2, NEW cs2, Moved(S, to, kv, cs, kv2, cs2)
  PROVE  Exact(kv2, cs2)
<1>1. /\ DOMAIN kv2 = DOMAIN kv
      /\ \A k \in DOMAIN kv : \A v : v \in DOMAIN kv2[k] <=>
            \/ v \in DOMAIN kv[k] /\ v \notin S
            \/ v = to /\ \E w \in S : w \in DOMAIN kv[k]
      /\ DOMAIN cs2 = DOMAIN cs \ S
      /\ \A v \in DOMAIN cs2 \ {to} : cs2[v] = cs[v]
      /\ \A k : k \in cs2[to] <=> k \in cs[to] \/ \E v \in S : k \in cs[v]
  BY DEF Moved, MovedDomain
<1>2. ASSUME NEW k \in DOMAIN kv2
      PROVE  DOMAIN kv2[k] \subseteq DOMAIN cs2
  BY <1>1, <1>2 DEF Exact
<1>3. ASSUME NEW k
      PROVE  k \in cs2[to] <=> k \in DOMAIN kv2 /\ to \in DOMAIN kv2[k]
  <2>1. \A v \in S \cup {to} : k \in cs[v] <=> k \in DOMAIN kv /\ v \in DOMAIN kv[k]
    BY DEF Exact
  <2>2. k \in cs2[to] <=> k \in DOMAIN kv /\ \E v \in S \cup {to} : v \in DOMAIN kv[k]
    BY <1>1, <2>1
  <2>. QED  BY <1>1, <2>2
<1>4. ASSUME NEW v \in DOMAIN cs2 \ {to}, NEW k
      PROVE  k \in cs2[v] <=> k \in DOMAIN kv2 /\ v \in DOMAIN kv2[k]
  BY <1>1, <1>4 DEF Exact
<1>. QED  BY <1>1, <1>2, <1>3, <1>4 DEF Exact

\* A rebase moves every change of the newer versions to the base version.
LEMMA RebaseExact ==
  ASSUME TypeOK, HaveChangeSets, ChangeSetExact, NEW b, NEW base, VersionRebase(b, base)
  PROVE  ChangeSetExact'
<1> DEFINE newer == Newer(b, base)
           from(k) == {v \in newer : k \in ver_to_change_set[v]}
<1>1. /\ base \in Vers(b)
      /\ newer \subseteq DOMAIN ver_to_change_set
      /\ layered_kv' = [k \in DOMAIN layered_kv |-> MergeInto(layered_kv[k], from(k), base)]
      /\ ver_to_change_set' =
             [v \in DOMAIN ver_to_change_set \ newer |->
                IF v = base THEN ver_to_change_set[v] \cup Changed(newer)
                            ELSE ver_to_change_set[v]]
  BY DEF VersionRebase
<1>2. base \in DOMAIN ver_to_change_set \ newer
  <2>1. base \in DOMAIN ver_to_change_set /\ base \in Int
    BY <1>1, VersInAll, VersType DEF HaveChangeSets, VerIds
  <2>. QED  BY <2>1 DEF Newer
<1>3. Exact(layered_kv, ver_to_change_set)
  BY ExactIs
<1>4. \A k \in DOMAIN layered_kv : from(k) = newer \cap DOMAIN layered_kv[k]
  BY <1>1, <1>3 DEF Exact
<1>. HIDE DEF newer
<1>5. Moved(newer, base, layered_kv, ver_to_change_set, layered_kv', ver_to_change_set')
  <2>1. /\ DOMAIN layered_kv' = DOMAIN layered_kv
        /\ \A k \in DOMAIN layered_kv :
             DOMAIN layered_kv'[k] = MovedDomain(layered_kv[k], newer, base)
    BY <1>1, <1>4, MergeDomainOf
  <2>2. /\ DOMAIN ver_to_change_set' = DOMAIN ver_to_change_set \ newer
        /\ \A v \in DOMAIN ver_to_change_set' \ {base} :
             ver_to_change_set'[v] = ver_to_change_set[v]
        /\ \A k : k \in ver_to_change_set'[base] <=>
             k \in ver_to_change_set[base] \/ \E v \in newer : k \in ver_to_change_set[v]
    BY <1>1, <1>2 DEF Changed
  <2>. QED  BY <2>1, <2>2 DEF Moved
<1>. QED  BY <1>1, <1>2, <1>3, <1>5, MovedExact, ExactIsNext

\* kv2 and cs2 are kv and cs after version `base` lost the keys D, which go when
\* no version holds them any more.
Lost(D, base, kv, cs, kv2, cs2) ==
    /\ DOMAIN kv2 \subseteq DOMAIN kv
    /\ \A k \in DOMAIN kv2 : DOMAIN kv2[k] = IF k \in D THEN DOMAIN kv[k] \ {base}
                                                       ELSE DOMAIN kv[k]
    /\ \A k \in DOMAIN kv \ DOMAIN kv2 : k \in D /\ DOMAIN kv[k] \subseteq {base}
    /\ DOMAIN cs2 = DOMAIN cs
    /\ \A v \in DOMAIN cs \ {base} : cs2[v] = cs[v]
    /\ cs2[base] = cs[base] \ D

\* What remains is exact.
LEMMA LostExact ==
  ASSUME NEW kv, NEW cs, Exact(kv, cs), NEW D, NEW base \in DOMAIN cs, NEW kv2, NEW cs2,
         Lost(D, base, kv, cs, kv2, cs2)
  PROVE  Exact(kv2, cs2)
<1>. USE DEF Lost
<1>1. ASSUME NEW k \in DOMAIN kv2
      PROVE  DOMAIN kv2[k] \subseteq DOMAIN cs2
  BY <1>1 DEF Exact
<1>2. ASSUME NEW v \in DOMAIN cs2, NEW k
      PROVE  k \in cs2[v] <=> k \in DOMAIN kv2 /\ v \in DOMAIN kv2[k]
  <2>1. k \in cs[v] <=> k \in DOMAIN kv /\ v \in DOMAIN kv[k]
    BY <1>2 DEF Exact
  <2>2. k \in cs2[v] <=> k \in cs[v] /\ ~(v = base /\ k \in D)
    BY <1>2
  <2>3. k \in DOMAIN kv2 => (v \in DOMAIN kv2[k] <=> v \in DOMAIN kv[k] /\ ~(v = base /\ k \in D))
    BY <1>2
  <2>4. k \in DOMAIN kv /\ v \in DOMAIN kv[k] /\ ~(v = base /\ k \in D) => k \in DOMAIN kv2
    BY <1>2
  <2>. QED  BY <2>1, <2>2, <2>3, <2>4
<1>. QED  BY <1>1, <1>2 DEF Exact

\* What a prune merges is newer than the version it merges into, and all of it
\* is on every branch that has versions.
LEMMA PruneParts ==
  ASSUME TypeOK, NEW n, Prune(n)
  PROVE  \/ CleanUp
         \/ /\ PruneInto(Mergeable((1 + n) % (USIZE_MAX + 1)), Min(SharedVers))
            /\ Mergeable((1 + n) % (USIZE_MAX + 1)) \subseteq SharedVers
            /\ SharedVers \in SUBSET VerIds
            /\ Min(SharedVers) \in SharedVers
            /\ \A v \in SharedVers : Min(SharedVers) <= v
            /\ \A v \in Mergeable((1 + n) % (USIZE_MAX + 1)) : Min(SharedVers) < v
<1> DEFINE merged == Mergeable((1 + n) % (USIZE_MAX + 1))
<1>1. CASE merged = {}
  BY <1>1 DEF Prune
<1>2. CASE merged # {}
  <2>1. PruneInto(merged, Min(SharedVers))
    BY <1>2 DEF Prune
  <2>2. /\ merged \subseteq SharedVers
        /\ \A v \in merged : \E u \in SharedVers : u < v
    BY DEF Mergeable
  <2>3. SharedVers \in SUBSET VerIds /\ SharedVers \in SUBSET Nat
    BY SharedVersType DEF VerIds, TypeOK
  <2>. HIDE DEF merged
  <2>4. SharedVers # {}
    BY <1>2, <2>2
  <2>5. Min(SharedVers) \in SharedVers /\ \A v \in SharedVers : Min(SharedVers) <= v
    BY <2>3, <2>4, MinInSet
  <2>6. ASSUME NEW v \in merged
        PROVE  Min(SharedVers) < v
    <3>1. PICK u \in SharedVers : u < v
      BY <2>2
    <3>2. u \in Nat /\ v \in Nat /\ Min(SharedVers) \in Nat /\ Min(SharedVers) <= u
      BY <2>2, <2>3, <2>5
    <3>. QED  BY <3>1, <3>2
  <2>. QED  BY <2>1, <2>2, <2>3, <2>5, <2>6 DEF merged
<1>. QED  BY <1>1, <1>2

\* What a prune computes, part by part.
Kept(merged, base, kv, into, dead, kv2) ==
    /\ into = [k \in DOMAIN kv |->
                 MergeInto(kv[k], {v \in merged : k \in ver_to_change_set[v]}, base)]
    /\ dead = {k \in DOMAIN kv : /\ {v \in merged : k \in ver_to_change_set[v]} # {}
                                 /\ into[k][base] = NULL}
    /\ \A k \in DOMAIN kv : k \in DOMAIN kv2 <=>
         (k \in dead => DOMAIN into[k] \ {base} # {})
    /\ DOMAIN kv2 \subseteq DOMAIN kv
    /\ \A k \in DOMAIN kv2 : kv2[k] = IF k \in dead THEN MapRemove(into[k], {base})
                                                    ELSE into[k]

\* The layers a prune leaves are those of a clean-up, with the values of the
\* versions merged in the base version, and without what is deleted there.
LEMMA PruneKept ==
  ASSUME NEW merged, NEW base, PruneInto(merged, base)
  PROVE  \E into, dead :
           /\ Kept(merged, base, PurgedKv(Orphans(br_to_its_vers)), into, dead, layered_kv')
           /\ ver_to_change_set' =
                [v \in DOMAIN ver_to_change_set \ (Orphans(br_to_its_vers) \cup merged) |->
                   IF v = base THEN (ver_to_change_set[v] \cup Changed(merged)) \ dead
                               ELSE ver_to_change_set[v]]
<1> DEFINE O     == Orphans(br_to_its_vers)
           kv    == PurgedKv(O)
           moved == [k \in DOMAIN kv |-> {v \in merged : k \in ver_to_change_set[v]}]
           into  == [k \in DOMAIN kv |-> MergeInto(kv[k], moved[k], base)]
           dead  == {k \in DOMAIN kv : moved[k] # {} /\ into[k][base] = NULL}
           left  == [k \in DOMAIN kv |-> IF k \in dead THEN MapRemove(into[k], {base})
                                                      ELSE into[k]]
<1>1. /\ layered_kv' = Restrict(left, {k \in DOMAIN kv :
                                          k \in dead => DOMAIN left[k] # {}})
      /\ ver_to_change_set' =
           [v \in DOMAIN ver_to_change_set \ (O \cup merged) |->
              IF v = base THEN (ver_to_change_set[v] \cup Changed(merged)) \ dead
                          ELSE ver_to_change_set[v]]
  BY DEF PruneInto
<1>. HIDE DEF kv
<1>2. \A k \in DOMAIN kv : moved[k] = {v \in merged : k \in ver_to_change_set[v]}
  OBVIOUS
<1>3. into = [k \in DOMAIN kv |->
                 MergeInto(kv[k], {v \in merged : k \in ver_to_change_set[v]}, base)]
  BY <1>2
<1>4. dead = {k \in DOMAIN kv : /\ {v \in merged : k \in ver_to_change_set[v]} # {}
                                /\ into[k][base] = NULL}
  BY <1>2
<1>. HIDE DEF moved, into, dead
<1>5. /\ DOMAIN layered_kv' = {k \in DOMAIN kv : k \in dead => DOMAIN left[k] # {}}
      /\ \A k \in DOMAIN layered_kv' : layered_kv'[k] = left[k]
  BY <1>1 DEF Restrict
<1>6. \A k \in DOMAIN kv : left[k] = IF k \in dead THEN MapRemove(into[k], {base})
                                                  ELSE into[k]
  OBVIOUS
<1>7. \A k \in dead : DOMAIN MapRemove(into[k], {base}) = DOMAIN into[k] \ {base}
  BY DEF MapRemove, Restrict
<1>8. Kept(merged, base, kv, into, dead, layered_kv')
  BY <1>3, <1>4, <1>5, <1>6, <1>7 DEF Kept
<1>. QED  BY <1>1, <1>8 DEF kv

\* A prune leaves exact change sets.
LEMMA PruneIntoExact ==
  ASSUME TypeOK, HaveChangeSets, ChangeSetExact, NEW merged \in SUBSET SharedVers,
         NEW base \in SharedVers \ merged, PruneInto(merged, base)
  PROVE  ChangeSetExact'
<1> DEFINE O  == Orphans(br_to_its_vers)
           kv == PurgedKv(O)
           cs == MapRemove(ver_to_change_set, O)
           mid(dead) == [v \in DOMAIN cs \ merged |->
                           IF v = base THEN cs[v] \cup Changed(merged) ELSE cs[v]]
<1>0. PICK into, dead :
         /\ Kept(merged, base, kv, into, dead, layered_kv')
         /\ ver_to_change_set' =
              [v \in DOMAIN ver_to_change_set \ (O \cup merged) |->
                 IF v = base THEN (ver_to_change_set[v] \cup Changed(merged)) \ dead
                             ELSE ver_to_change_set[v]]
  BY PruneKept
<1> DEFINE cs1 == [v \in DOMAIN cs \ merged |->
                     IF v = base THEN cs[v] \cup Changed(merged) ELSE cs[v]]
<1>1. O \subseteq DOMAIN ver_to_change_set
  BY DEF Orphans
<1>2. /\ SharedVers \subseteq DOMAIN ver_to_change_set
      /\ SharedVers \cap O = {}
  BY SharedVersType DEF HaveChangeSets, Orphans
<1>3. /\ DOMAIN cs = DOMAIN ver_to_change_set \ O
      /\ \A v \in DOMAIN cs : cs[v] = ver_to_change_set[v]
  BY DEF MapRemove, Restrict
<1>4. Exact(kv, cs)
  BY <1>1, PurgedExact
<1>. HIDE DEF O, kv, cs
<1>5. merged \in SUBSET DOMAIN cs /\ base \in DOMAIN cs \ merged
  BY <1>2, <1>3
<1>6. \A k \in DOMAIN kv :
         {v \in merged : k \in ver_to_change_set[v]} = merged \cap DOMAIN kv[k]
  BY <1>3, <1>4, <1>5 DEF Exact
<1>7. Exact(into, cs1)
  <2>1. /\ DOMAIN into = DOMAIN kv
        /\ \A k \in DOMAIN kv : DOMAIN into[k] = MovedDomain(kv[k], merged, base)
    BY <1>0, <1>6, MergeDomainOf DEF Kept
  <2>2. /\ DOMAIN cs1 = DOMAIN cs \ merged
        /\ \A v \in DOMAIN cs1 \ {base} : cs1[v] = cs[v]
        /\ \A k : k \in cs1[base] <=> k \in cs[base] \/ \E v \in merged : k \in cs[v]
    BY <1>3, <1>5 DEF Changed
  <2>3. Moved(merged, base, kv, cs, into, cs1)
    BY <2>1, <2>2 DEF Moved
  <2>. HIDE DEF cs1
  <2>. QED  BY <1>4, <1>5, <2>3, MovedExact
<1>8. Lost(dead, base, into, cs1, layered_kv', ver_to_change_set')
  <2>1. DOMAIN into = DOMAIN kv
    BY <1>0 DEF Kept
  <2>2. /\ DOMAIN layered_kv' \subseteq DOMAIN into
        /\ \A k \in DOMAIN layered_kv' : DOMAIN layered_kv'[k] =
              IF k \in dead THEN DOMAIN into[k] \ {base} ELSE DOMAIN into[k]
        /\ \A k \in DOMAIN into \ DOMAIN layered_kv' :
              k \in dead /\ DOMAIN into[k] \subseteq {base}
    BY <1>0, <2>1 DEF Kept, MapRemove, Restrict
  <2>3. /\ DOMAIN ver_to_change_set' = DOMAIN cs1
        /\ \A v \in DOMAIN cs1 \ {base} : ver_to_change_set'[v] = cs1[v]
        /\ ver_to_change_set'[base] = cs1[base] \ dead
    BY <1>0, <1>3, <1>5
  <2>. QED  BY <2>2, <2>3 DEF Lost
<1>9. base \in DOMAIN cs1
  BY <1>5
<1>. HIDE DEF cs1
<1>. QED  BY <1>7, <1>8, <1>9, LostExact, ExactIsNext

\* Clean-up, keep_only, prune and rebase leave exact change sets.
LEMMA CompactExact ==
  ASSUME TypeOK, HaveChangeSets, ChangeSetExact, CompactStep
  PROVE  ChangeSetExact'
<1>1. ASSUME NEW brs, Purge(Orphans(brs))
      PROVE  ChangeSetExact'
  <2>1. Orphans(brs) \in SUBSET DOMAIN ver_to_change_set
    BY DEF Orphans
  <2>. QED  BY <1>1, <2>1, PurgedExact, ExactIsNext DEF Purge
<1>2. ASSUME NEW n, Prune(n)
      PROVE  ChangeSetExact'
  <2>1. CASE CleanUp
    BY <1>1, <2>1 DEF CleanUp
  <2>2. CASE ~CleanUp
    <3> DEFINE merged == Mergeable((1 + n) % (USIZE_MAX + 1))
               base   == Min(SharedVers)
    <3>1. /\ PruneInto(merged, base)
          /\ merged \in SUBSET SharedVers
          /\ base \in SharedVers
          /\ SharedVers \in SUBSET VerIds
          /\ \A v \in merged : base < v
      BY <1>2, <2>2, PruneParts
    <3>. HIDE DEF merged, base
    <3>2. base \in SharedVers \ merged
      BY <3>1 DEF VerIds
    <3>. QED  BY <3>1, <3>2, PruneIntoExact
  <2>. QED  BY <2>1, <2>2
<1>. QED  BY <1>1, <1>2, RebaseExact DEF CompactStep, CleanUp, BranchKeepOnly

\* A restart derives the change sets from the layers.
LEMMA RestartExact ==
  ASSUME Restart
  PROVE  ChangeSetExact'
  BY DEF Restart, DerivedChangeSets, ChangeSetExact

\* Taking versions off branches leaves change sets as they are.
LEMMA DropExact ==
  ASSUME ChangeSetExact, DropStep
  PROVE  ChangeSetExact'
<1>1. CASE UNCHANGED data
  BY <1>1, ExactIs, ExactIsNext DEF data
<1>2. CASE Clear
  BY <1>2 DEF Clear, ChangeSetExact, EmptyMap
<1>3. UNCHANGED data \/ (\E v : VersionRevert(v)) \/ Clear
  BY DEF DropStep, VersionPop, BranchRemove, BranchTruncate, BranchTruncateTo, SetVers,
         BranchCreateFails
<1>. QED  BY <1>1, <1>2, <1>3, RevertExact

\* A step keeps change sets exact.
LEMMA NextExact ==
  ASSUME TypeOK, HaveChangeSets, ChangeSetExact, [Next \/ ForceStep]_vars
  PROVE  ChangeSetExact'
<1>1. CASE UNCHANGED data
  BY <1>1, ExactIs, ExactIsNext DEF data
<1>2. CASE UNCHANGED vars \/ RenameStep \/ MergeStep \/ ForceStep
  BY <1>1, <1>2 DEF vars, RenameStep, BranchSetDefault, BranchSwap, MergeStep, ForceStep,
                    BranchMergeTo, BranchMergeToForce, SetVers
<1>3. CASE CreateStep
  BY <1>3, AddVersionExact DEF CreateStep, VersionCreate, BranchCreate
<1>. QED  BY <1>2, <1>3, WriteExact, DropExact, CompactExact, RestartExact DEF Next

-----------------------------------------------------------------------------
(* Change sets and names.                                                  *)

\* Names of versions that lose their change sets are forgotten, no others.
LEMMA ForgetHaveNames ==
  ASSUME HaveNames, NEW S, ForgetVersions(S),
         DOMAIN ver_to_change_set' \subseteq DOMAIN ver_to_change_set \ S
  PROVE  HaveNames'
  BY DEF HaveNames, ForgetVersions, MapRemove, Restrict

\* A new version gets its name and its change set together.
LEMMA AddVersionHaveNames ==
  ASSUME HaveNames, NEW brs, NEW b, NEW name, AddVersion(brs, b, name)
  PROVE  HaveNames'
<1>1. CASE UNCHANGED <<verNames, ver_to_change_set>>
  BY <1>1 DEF HaveNames, verNames
<1>2. CASE /\ \E n : ver_id_to_ver_name' = MapInsert(ver_id_to_ver_name, next_ver_id, n)
           /\ ver_to_change_set' = MapInsert(ver_to_change_set, next_ver_id, {})
  BY <1>2 DEF HaveNames, MapInsert
<1>. QED  BY <1>1, <1>2 DEF AddVersion

\* What loses its name in clean-up, keep_only, prune or rebase loses its change
\* set; a version that a prune merges keeps its name without one.
LEMMA CompactHaveNames ==
  ASSUME HaveNames, CompactStep
  PROVE  HaveNames'
<1>1. ASSUME NEW O, Purge(O)
      PROVE  HaveNames'
  <2>1. ForgetVersions(O) /\ DOMAIN ver_to_change_set' \subseteq DOMAIN ver_to_change_set \ O
    BY <1>1 DEF Purge, MapRemove, Restrict
  <2>. QED  BY <2>1, ForgetHaveNames
<1>2. ASSUME NEW merged, NEW base, PruneInto(merged, base)
      PROVE  HaveNames'
  <2>1. /\ ForgetVersions(Orphans(br_to_its_vers))
        /\ DOMAIN ver_to_change_set' =
             DOMAIN ver_to_change_set \ (Orphans(br_to_its_vers) \cup merged)
    BY <1>2 DEF PruneInto
  <2>. QED  BY <2>1, ForgetHaveNames
<1>3. ASSUME NEW b, NEW base, VersionRebase(b, base)
      PROVE  HaveNames'
  <2>1. /\ ForgetVersions(Newer(b, base))
        /\ DOMAIN ver_to_change_set' = DOMAIN ver_to_change_set \ Newer(b, base)
    BY <1>3 DEF VersionRebase
  <2>. QED  BY <2>1, ForgetHaveNames
<1>. QED  BY <1>1, <1>2, <1>3 DEF CompactStep, CleanUp, BranchKeepOnly, Prune

\* A restart gives change sets to the versions on branches and in layers only.
LEMMA RestartHaveNames ==
  ASSUME NamesConsistent, HaveNames, HaveChangeSets, ChangeSetExact, Restart
  PROVE  HaveNames'
<1>1. AllVers(br_to_its_vers) \subseteq DOMAIN ver_to_change_set
  BY DEF HaveChangeSets
<1>2. UNION {DOMAIN layered_kv[k] : k \in DOMAIN layered_kv} \subseteq DOMAIN ver_to_change_set
  BY DEF ChangeSetExact
<1>3. DOMAIN ver_to_change_set' \subseteq DOMAIN ver_to_change_set
  BY <1>1, <1>2 DEF Restart, DerivedChangeSets
<1>4. DOMAIN ver_id_to_ver_name' = DOMAIN ver_id_to_ver_name
  BY DEF Restart, AntiFunction, Inverse, NamesConsistent
<1>. QED  BY <1>3, <1>4 DEF HaveNames

\* Every version with a change set keeps a name.
LEMMA NextHaveNames ==
  ASSUME TypeOK, NamesConsistent, VersionsKnown, ChangeSetExact, [Next \/ ForceStep]_vars
  PROVE  HaveNames'
<1>. USE DEF VersionsKnown
<1>1. CASE UNCHANGED verNames /\ DOMAIN ver_to_change_set' = DOMAIN ver_to_change_set
  BY <1>1 DEF HaveNames, verNames
<1>2. CASE UNCHANGED vars \/ RenameStep \/ MergeStep \/ ForceStep
  BY <1>1, <1>2 DEF vars, data, RenameStep, BranchSetDefault, BranchSwap, MergeStep, ForceStep,
                    BranchMergeTo, BranchMergeToForce, SetVers
<1>3. CASE WriteStep
  <2>1. PICK k, v, h : Write(k, v, h)
    BY <1>3 DEF WriteStep, Insert, Remove
  <2>. QED  BY <1>1, <2>1 DEF Write
<1>4. CASE CreateStep
  BY <1>4, AddVersionHaveNames DEF CreateStep, VersionCreate, BranchCreate
<1>5. CASE DropStep
  <2>1. UNCHANGED <<verNames, data>> \/ (\E v : VersionRevert(v)) \/ Clear
    BY <1>5 DEF DropStep, VersionPop, BranchRemove, BranchTruncate, BranchTruncateTo, SetVers,
                BranchCreateFails
  <2>2. CASE UNCHANGED <<verNames, data>>
    BY <1>1, <2>2 DEF data
  <2>3. CASE Clear
    BY <2>3 DEF Clear, HaveNames
  <2>4. ASSUME NEW v, VersionRevert(v)
        PROVE  HaveNames'
    <3>1. ForgetVersions({v}) /\ DOMAIN ver_to_change_set' = DOMAIN ver_to_change_set \ {v}
      BY <2>4 DEF VersionRevert, MapRemove, Restrict
    <3>. QED  BY <3>1, ForgetHaveNames
  <2>. QED  BY <2>1, <2>2, <2>3, <2>4
<1>. QED  BY <1>2, <1>3, <1>4, <1>5, CompactHaveNames, RestartHaveNames DEF Next

-----------------------------------------------------------------------------
(* The redundant maps agree.                                               *)

\* At first there is one branch, with its name, and no version.
LEMMA InitData == Init => NamesConsistent /\ HaveNames /\ ChangeSetExact
<1>1. ASSUME Init PROVE NamesConsistent
  BY <1>1 DEF Init, NamesConsistent, EmptyMap, MapInsert, Range
<1>2. ASSUME Init PROVE HaveNames /\ ChangeSetExact
  BY <1>2 DEF Init, HaveNames, ChangeSetExact, EmptyMap
<1>. QED  BY <1>1, <1>2

\* The invariant: types, names, change sets.
DataInv == TypeOK /\ VersionsKnown /\ NamesConsistent /\ ChangeSetExact

\* Names, change sets and layers agree in every reachable state, also after
\* merges that were forced: a restart derives the maps in memory that were
\* there, and clean-up, revert, rebase and prune find what they look up.
THEOREM DataInvariant == UnsafeSpec => []DataInv
<1>1. Init => DataInv
  BY InitType, InitHave, InitData DEF DataInv, VersionsKnown
<1>2. DataInv /\ [Next \/ ForceStep]_vars => DataInv'
  <2>. SUFFICES ASSUME DataInv, [Next \/ ForceStep]_vars
                PROVE  DataInv'
    OBVIOUS
  <2>1. TypeOK' /\ HaveChangeSets'
    BY NextType, NextHave DEF DataInv, VersionsKnown
  <2>2. NamesConsistent'
    BY NextNames DEF DataInv, VersionsKnown
  <2>3. ChangeSetExact'
    BY NextExact DEF DataInv, VersionsKnown
  <2>4. HaveNames'
    BY NextHaveNames DEF DataInv
  <2>. QED  BY <2>1, <2>2, <2>3, <2>4 DEF DataInv, VersionsKnown
<1>. QED  BY <1>1, <1>2, PTL DEF UnsafeSpec

\* Names and ids lead back to each other, whatever is created, removed, swapped
\* and derived again.
THEOREM NamesConsistentHolds == UnsafeSpec => []NamesConsistent
<1>1. DataInv => NamesConsistent
  BY DEF DataInv
<1>. QED  BY <1>1, DataInvariant, PTL

\* Every version on a branch has a change set, and every version with a change
\* set a name, so that the lists of versions find both.
THEOREM VersionsKnownHolds == UnsafeSpec => []VersionsKnown
<1>1. DataInv => VersionsKnown
  BY DEF DataInv
<1>. QED  BY <1>1, DataInvariant, PTL

\* The change sets in memory never disagree with the layers on disk.
THEOREM ChangeSetExactHolds == UnsafeSpec => []ChangeSetExact
<1>1. DataInv => ChangeSetExact
  BY DEF DataInv
<1>. QED  BY <1>1, DataInvariant, PTL

-----------------------------------------------------------------------------
(***************************************************************************)
(* What readers see.                                                       *)
(***************************************************************************)

-----------------------------------------------------------------------------
(* The value a set of versions shows.                                      *)

\* Of the values of one key, the newest that a version of S has.
Shown(kvers, S) ==
    IF DOMAIN kvers \cap S = {} THEN NULL ELSE kvers[Max(DOMAIN kvers \cap S)]

\* f has in S the values that g has in T.
SameValues(f, S, g, T) ==
    /\ DOMAIN f \cap S = DOMAIN g \cap T
    /\ \A v \in DOMAIN f \cap S : f[v] = g[v]

\* Only the values of versions in S matter.
LEMMA ShownSame ==
  ASSUME NEW n \in Nat, NEW S \in SUBSET (0 .. n), NEW f, NEW g, NEW T,
         SameValues(f, S, g, T)
  PROVE  Shown(f, S) = Shown(g, T)
<1>. USE DEF SameValues
<1>1. CASE DOMAIN f \cap S = {}
  BY <1>1 DEF Shown
<1>2. CASE DOMAIN f \cap S # {}
  <2>1. Max(DOMAIN f \cap S) \in DOMAIN f \cap S
    BY <1>2, MaxInSet
  <2>. QED  BY <1>2, <2>1 DEF Shown
<1>. QED  BY <1>1, <1>2

\* S is a set of version ids up to n.
Ids(n, S) == n \in Nat /\ S \in SUBSET (0 .. n)

\* Sets of version ids with the same values show the same.
LEMMA SameShows ==
  ASSUME NEW n, NEW S, Ids(n, S), NEW f, NEW g, NEW T, SameValues(f, S, g, T)
  PROVE  Shown(f, S) = Shown(g, T)
<1>1. n \in Nat /\ S \in SUBSET (0 .. n)
  BY DEF Ids
<1>2. CASE DOMAIN f \cap S = {}
  BY <1>2 DEF Shown, SameValues
<1>3. CASE DOMAIN f \cap S # {}
  <2>1. DOMAIN f \cap S \in SUBSET (0 .. n)
    BY <1>1
  <2>2. Max(DOMAIN f \cap S) \in DOMAIN f \cap S
    BY <1>1, <1>3, <2>1, MaxInSet
  <2>. QED  BY <1>3, <2>2 DEF Shown, SameValues
<1>. QED  BY <1>2, <1>3

\* A version that has a value, and is newer than all others in S that have
\* one, shows it.
LEMMA ShownIs ==
  ASSUME NEW f, NEW S \in SUBSET Int, NEW m \in DOMAIN f \cap S,
         \A v \in DOMAIN f \cap S : v <= m
  PROVE  Shown(f, S) = f[m]
<1>1. Max(DOMAIN f \cap S) = m
  BY MaxIs
<1>. QED  BY <1>1 DEF Shown

\* In S, the versions M come next after `to`.
Follow(S, to, M) ==
    /\ to \in S \ M
    /\ \A m \in M : m \in Int /\ to < m
    /\ \A m \in M : \A v \in S \ M : v <= to \/ m < v

\* `from` are the versions of M that have a value in f; they are versions of S.
Taken(from, M, f, S) == from = M \cap DOMAIN f /\ from \subseteq S

\* The values of versions M of S move to version `to` of S.  Nothing in S
\* between `to` and M stays, so S shows what it showed.
LEMMA ShownMoved ==
  ASSUME NEW n, NEW S, Ids(n, S), NEW M, NEW to, Follow(S, to, M),
         NEW f, NEW from, Taken(from, M, f, S)
  PROVE  Shown(MergeInto(f, from, to), S \ M) = Shown(f, S)
<1>. USE DEF Follow, Taken
<1>0. n \in Nat /\ S \in SUBSET (0 .. n)
  BY DEF Ids
<1>. USE <1>0
<1> DEFINE g == MergeInto(f, from, to)
<1>1. CASE from = {}
  <2>1. from \cap DOMAIN f = {}
    BY <1>1
  <2>2. g = f
    BY <2>1, MergeDomain
  <2>3. SameValues(f, S, g, S \ M)
    BY <1>1, <2>2 DEF SameValues
  <2>. QED  BY <2>2, <2>3, SameShows
<1>2. CASE from # {}
  <2>1. from \cap DOMAIN f = from /\ from # {} /\ from \in SUBSET (0 .. n)
    BY <1>2
  <2>2. PICK h \in from : h = Max(from) /\ \A x \in from : x <= h
    BY <2>1, MaxInSet
  <2>3. /\ DOMAIN g = (DOMAIN f \ from) \cup {to}
        /\ g[to] = f[h]
        /\ \A v \in DOMAIN f \ (from \cup {to}) : g[v] = f[v]
    <3>1. /\ DOMAIN g = (DOMAIN f \ from) \cup {to}
          /\ g[to] = f[Max(from \cap DOMAIN f)]
          /\ \A v \in DOMAIN f \ (from \cup {to}) : g[v] = f[v]
      <4>1. from \cap DOMAIN f # {}
        BY <2>1
      <4>. QED  BY <4>1 DEF MergeInto, MapInsert, MapRemove, Restrict
    <3>2. Max(from \cap DOMAIN f) = h
      BY <2>1, <2>2
    <3>. QED  BY <3>1, <3>2
  <2>. HIDE DEF g
  <2>4. (\A v \in S : v \in Int) /\ S \in SUBSET Int /\ h \in Int /\ to \in Int /\ h \in M /\ h \in S /\ h \in DOMAIN f
        /\ to < h
    BY <2>2
  <2>5. CASE \E v \in DOMAIN f \cap (S \ M) : v > h
    <3>1. DOMAIN f \cap S \in SUBSET (0 .. n) /\ DOMAIN f \cap S # {}
      BY <2>5
    <3>2. PICK m \in DOMAIN f \cap S : \A v \in DOMAIN f \cap S : v <= m
      BY <3>1, MaxInSet
    <3>3. m \in Int /\ m > h
      <4>1. PICK v \in DOMAIN f \cap (S \ M) : v > h
        BY <2>5
      <4>2. v \in Int /\ m \in Int /\ v <= m
        BY <2>4, <3>2
      <4>. QED  BY <2>4, <4>1, <4>2
    <3>4. m \notin M /\ m \notin from /\ m # to
      BY <2>2, <2>4, <3>2, <3>3
    <3>5. m \in DOMAIN g \cap (S \ M) /\ g[m] = f[m]
      BY <2>3, <3>2, <3>4
    <3>6. \A v \in DOMAIN g \cap (S \ M) : v <= m
      BY <2>3, <2>4, <3>2, <3>3
    <3>7. Shown(f, S) = f[m]
      BY <2>4, <3>2, ShownIs
    <3>8. Shown(g, S \ M) = g[m]
      BY <2>4, <3>5, <3>6, ShownIs
    <3>. QED  BY <3>5, <3>7, <3>8 DEF g
  <2>6. CASE ~\E v \in DOMAIN f \cap (S \ M) : v > h
    <3>1. ASSUME NEW v \in DOMAIN f \cap S
          PROVE  v <= h
      <4>1. CASE v \in M
        BY <2>2, <4>1
      <4>2. CASE v \notin M
        <5>1. v \in DOMAIN f \cap (S \ M) /\ v \in Int
          BY <2>4, <4>2
        <5>2. ~(v > h)
          BY <2>6, <5>1
        <5>. QED  BY <2>4, <5>1, <5>2
      <4>. QED  BY <4>1, <4>2
    <3>2. \A v \in DOMAIN g \cap (S \ M) : v <= to
      <4>1. ASSUME NEW v \in DOMAIN f \cap (S \ M)
            PROVE  v <= to
        BY <2>4, <2>6, <4>1
      <4>. QED  BY <2>3, <2>4, <4>1
    <3>3. Shown(f, S) = f[h]
      BY <2>4, <3>1, ShownIs
    <3>4. Shown(g, S \ M) = g[to]
      BY <2>3, <2>4, <3>2, ShownIs
    <3>. QED  BY <2>3, <3>3, <3>4 DEF g
  <2>. QED  BY <2>5, <2>6
<1>. QED  BY <1>1, <1>2

\* The oldest version of S loses an empty value: S shows what it showed.
LEMMA ShownWithoutNull ==
  ASSUME NEW n \in Nat, NEW S \in SUBSET (0 .. n), NEW f, NEW o \in S,
         \A v \in S : o <= v, f[o] = NULL
  PROVE  Shown(MapRemove(f, {o}), S) = Shown(f, S)
<1> DEFINE g == MapRemove(f, {o})
<1>1. DOMAIN g = DOMAIN f \ {o} /\ \A v \in DOMAIN g : g[v] = f[v]
  BY DEF MapRemove, Restrict
<1>. HIDE DEF g
<1>2. CASE \E v \in DOMAIN f \cap S : v # o
  <2>1. DOMAIN f \cap S \in SUBSET (0 .. n) /\ DOMAIN f \cap S # {}
    BY <1>2
  <2>2. PICK m \in DOMAIN f \cap S : \A v \in DOMAIN f \cap S : v <= m
    BY <2>1, MaxInSet
  <2>3. (\A v \in S : v \in Int) /\ S \in SUBSET Int
    OBVIOUS
  <2>4. m # o
    <3>1. PICK v \in DOMAIN f \cap S : v # o
      BY <1>2
    <3>2. v \in Int /\ o \in Int /\ o <= v /\ v <= m
      BY <2>2, <2>3
    <3>. QED  BY <3>1, <3>2
  <2>5. m \in DOMAIN g \cap S /\ g[m] = f[m] /\ \A v \in DOMAIN g \cap S : v <= m
    BY <1>1, <2>2, <2>4
  <2>. QED  BY <2>2, <2>3, <2>5, ShownIs DEF g
<1>3. CASE \A v \in DOMAIN f \cap S : v = o
  <2>1. DOMAIN g \cap S = {}
    BY <1>1, <1>3
  <2>2. Shown(g, S) = NULL
    BY <2>1 DEF Shown
  <2>3. Shown(f, S) = NULL
    <3>1. CASE o \in DOMAIN f
      <4>1. S \in SUBSET Int /\ \A v \in DOMAIN f \cap S : v <= o
        BY <1>3
      <4>. QED  BY <3>1, <4>1, ShownIs
    <3>2. CASE o \notin DOMAIN f
      <4>1. DOMAIN f \cap S = {}
        BY <1>3, <3>2
      <4>. QED  BY <4>1 DEF Shown
    <3>. QED  BY <3>1, <3>2
  <2>. QED  BY <2>2, <2>3 DEF g
<1>. QED  BY <1>2, <1>3

-----------------------------------------------------------------------------
(* Reading, by what is shown.                                              *)

\* A read at a version shows the versions up to it.
LEMMA GetIsShown ==
  ASSUME NEW k, NEW b, NEW v
  PROVE  Get(k, b, v) = Shown(KeyVers(k), UpTo(Vers(b), v))
<1>1. UpTo(DOMAIN KeyVers(k) \cap Vers(b), v) = DOMAIN KeyVers(k) \cap UpTo(Vers(b), v)
  BY DEF UpTo
<1>. QED  BY <1>1 DEF Get, Shown

\* in the next state as well.
LEMMA GetIsShownNext ==
  ASSUME NEW k, NEW b, NEW v
  PROVE  Get(k, b, v)' = Shown(KeyVers(k)', UpTo(Vers(b)', v))
<1>1. {w \in DOMAIN KeyVers(k)' \cap Vers(b)' : w <= v} =
         DOMAIN KeyVers(k)' \cap UpTo(Vers(b)', v)
  BY DEF UpTo
<1>. QED  BY <1>1 DEF Get, Shown, UpTo

\* Up to its newest version, S is all of S.
LEMMA UpToLast ==
  ASSUME NEW n \in Nat, NEW S \in SUBSET (0 .. n), S # {}
  PROVE  Max(S) \in S /\ {w \in S : w <= Max(S)} = S /\ UpTo(S, Max(S)) = S
<1>1. Max(S) \in S /\ \A v \in S : v <= Max(S)
  BY MaxInSet
<1>. QED  BY <1>1 DEF UpTo

\* A read of a branch shows all its versions,
LEMMA HeadIsShown ==
  ASSUME NEW k, NEW b, NEW n \in Nat, Vers(b) \in SUBSET (0 .. n)
  PROVE  GetByBranch(k, b) = Shown(KeyVers(k), Vers(b))
<1>1. CASE Vers(b) = {}
  BY <1>1 DEF GetByBranch, Shown
<1>2. CASE Vers(b) # {}
  BY <1>2, UpToLast, GetIsShown DEF GetByBranch
<1>. QED  BY <1>1, <1>2

\* in the next state as well.
LEMMA HeadIsShownNext ==
  ASSUME NEW k, NEW b, NEW n \in Nat, Vers(b)' \in SUBSET (0 .. n)
  PROVE  GetByBranch(k, b)' = Shown(KeyVers(k)', Vers(b)')
<1> DEFINE S == Vers(b)'
           f == KeyVers(k)'
<1>1. GetByBranch(k, b)' =
        IF S = {} THEN NULL
        ELSE IF {w \in DOMAIN f \cap S : w <= Max(S)} = {} THEN NULL
             ELSE f[Max({w \in DOMAIN f \cap S : w <= Max(S)})]
  BY DEF GetByBranch, Get, UpTo
<1>2. S \in SUBSET (0 .. n)
  OBVIOUS
<1>. HIDE DEF S, f
<1>3. CASE S = {}
  BY <1>1, <1>3 DEF Shown, S, f
<1>4. CASE S # {}
  <2>1. {w \in S : w <= Max(S)} = S
    BY <1>2, <1>4, UpToLast
  <2>2. {w \in DOMAIN f \cap S : w <= Max(S)} = DOMAIN f \cap S
    BY <2>1
  <2>3. Shown(f, S) = GetByBranch(k, b)'
    BY <1>1, <1>4, <2>2 DEF Shown
  <2>. QED  BY <2>3 DEF S, f
<1>. QED  BY <1>3, <1>4

\* The layers of key k in kv.
Layers(kv, k) == IF k \in DOMAIN kv THEN kv[k] ELSE EmptyMap

\* KeyVers reads the layers, in both states.
LEMMA KeyVersAreLayers ==
  ASSUME NEW k
  PROVE  KeyVers(k) = Layers(layered_kv, k) /\ KeyVers(k)' = Layers(layered_kv', k)
  BY DEF KeyVers, Layers

\* The types of reading: versions are numbers below the next one.
LEMMA VersNumbers ==
  ASSUME TypeOK, NEW b
  PROVE  /\ next_ver_id \in Nat
         /\ Vers(b) \in SUBSET (0 .. next_ver_id)
         /\ \A v \in Vers(b) : v \in Int
  BY VersType DEF TypeOK, VerIds

-----------------------------------------------------------------------------
(* Clean-up and keep_only.                                                 *)

\* Without the values of versions that are not in S, S shows what it showed.
LEMMA PurgeShows ==
  ASSUME ChangeSetExact, NEW O \in SUBSET DOMAIN ver_to_change_set,
         NEW n \in Nat, NEW S \in SUBSET (0 .. n), S \cap O = {}, NEW k
  PROVE  Shown(Layers(PurgedKv(O), k), S) = Shown(Layers(layered_kv, k), S)
<1> DEFINE kv == PurgedKv(O)
<1>1. /\ DOMAIN kv \subseteq DOMAIN layered_kv
      /\ \A j \in DOMAIN kv : DOMAIN kv[j] = DOMAIN layered_kv[j] \ O
      /\ \A j \in DOMAIN kv : \A v \in DOMAIN kv[j] : kv[j][v] = layered_kv[j][v]
      /\ \A j \in DOMAIN layered_kv \ DOMAIN kv : DOMAIN layered_kv[j] \subseteq O
  <2>1. /\ DOMAIN kv \subseteq DOMAIN layered_kv
        /\ \A j \in DOMAIN kv : kv[j] = PurgedVers(j, O)
        /\ \A j \in DOMAIN layered_kv \ DOMAIN kv : DOMAIN layered_kv[j] \subseteq O
    BY PurgedDomain
  <2>2. \A j \in DOMAIN layered_kv :
          /\ DOMAIN PurgedVers(j, O) = DOMAIN layered_kv[j] \ O
          /\ \A v \in DOMAIN PurgedVers(j, O) : PurgedVers(j, O)[v] = layered_kv[j][v]
    BY PurgedVersDomain
  <2>. HIDE DEF kv
  <2>. QED  BY <2>1, <2>2
<1>. HIDE DEF kv
<1>2. SameValues(Layers(kv, k), S, Layers(layered_kv, k), S)
  <2>1. CASE k \in DOMAIN kv
    BY <1>1, <2>1 DEF SameValues, Layers
  <2>2. CASE k \notin DOMAIN kv /\ k \in DOMAIN layered_kv
    <3>1. DOMAIN layered_kv[k] \cap S = {}
      BY <1>1, <2>2
    <3>. QED  BY <2>2, <3>1 DEF SameValues, Layers, EmptyMap
  <2>3. CASE k \notin DOMAIN kv /\ k \notin DOMAIN layered_kv
    BY <2>3 DEF SameValues, Layers
  <2>. QED  BY <1>1, <2>1, <2>2, <2>3
<1>3. Shown(Layers(kv, k), S) = Shown(Layers(layered_kv, k), S)
  BY <1>2, ShownSame
<1>. QED  BY <1>3 DEF kv

\* The versions of a branch that stays are no orphans.
LEMMA NoOrphans ==
  ASSUME NEW brs, NEW b \in DOMAIN brs
  PROVE  brs[b] \cap Orphans(brs) = {}
  BY DEF Orphans, AllVers, Range

-----------------------------------------------------------------------------
(* Prune.                                                                  *)

\* The shared versions are an initial part of every branch that has versions.
LEMMA SharedPrefix ==
  ASSUME TypeOK, NEW b, Vers(b) # {}
  PROVE  /\ SharedVers \subseteq Vers(b)
         /\ \A v \in SharedVers, u \in Vers(b) : u <= v => u \in SharedVers
<1> DEFINE F == Range(br_to_its_vers) \ {{}}
<1>1. Vers(b) \in F /\ \A S \in F : \E c \in DOMAIN br_to_its_vers : S = Vers(c)
  BY DEF Vers, Range
<1>2. SharedVers = {v \in UNION F : \A S, T \in F : v \in S /\ UpTo(S, v) = UpTo(T, v)}
  BY DEF SharedVers, CommonPrefix
<1>3. \A S \in F : \A v \in S : v \in Int
  BY <1>1, VersNumbers
<1>. HIDE DEF F
<1>4. SharedVers \subseteq Vers(b)
  BY <1>1, <1>2
<1>5. ASSUME NEW v \in SharedVers, NEW u \in Vers(b), u <= v
      PROVE  u \in SharedVers
  <2>1. \A S \in F : u \in S
    <3>. SUFFICES ASSUME NEW S \in F
                  PROVE  u \in S
      OBVIOUS
    <3>1. u \in UpTo(Vers(b), v)
      BY <1>5 DEF UpTo
    <3>2. UpTo(Vers(b), v) = UpTo(S, v)
      BY <1>1, <1>2
    <3>. QED  BY <3>1, <3>2 DEF UpTo
  <2>2. ASSUME NEW S \in F, NEW T \in F
        PROVE  UpTo(S, u) = UpTo(T, u)
    <3>1. UpTo(S, v) = UpTo(T, v)
      BY <1>2
    <3>2. u \in Int /\ v \in Int
      BY <1>1, <1>2, <1>3, <1>4
    <3>3. /\ UpTo(S, u) = {w \in UpTo(S, v) : w <= u}
          /\ UpTo(T, u) = {w \in UpTo(T, v) : w <= u}
      BY <1>3, <1>5, <3>2 DEF UpTo
    <3>. QED  BY <3>1, <3>3
  <2>. QED  BY <1>1, <1>2, <2>1, <2>2
<1>. QED  BY <1>4, <1>5

\* The shared versions are finitely many.
LEMMA SharedFinite ==
  ASSUME TypeOK
  PROVE  IsFiniteSet(SharedVers) /\ SharedVers \in SUBSET Nat
<1>1. SharedVers \in SUBSET VerIds
  BY SharedVersType
<1>2. IsFiniteSet(VerIds) /\ VerIds \in SUBSET Nat
  BY FS_Interval DEF VerIds, TypeOK
<1>. QED  BY <1>1, <1>2, FS_Subset

\* What a prune merges is, after the base version, the oldest shared part.
LEMMA MergeableFirst ==
  ASSUME TypeOK, NEW r \in Nat, NEW v \in Mergeable(r), NEW u \in SharedVers, u < v,
         NEW o \in SharedVers, o < u
  PROVE  u \in Mergeable(r)
<1> DEFINE newer(x) == {w \in SharedVers : w > x}
<1>1. v \in SharedVers /\ r # 0 /\ Cardinality(newer(v)) >= r - 1
  BY DEF Mergeable
<1>2. /\ newer(v) \subseteq newer(u)
      /\ IsFiniteSet(newer(u))
  <2>1. newer(u) \subseteq SharedVers
    OBVIOUS
  <2>2. \A w \in SharedVers : w \in Nat
    BY SharedFinite
  <2>. QED  BY <1>1, <2>1, <2>2, SharedFinite, FS_Subset
<1>3. Cardinality(newer(v)) <= Cardinality(newer(u))
  BY <1>2, FS_Subset
<1>4. Cardinality(newer(v)) \in Nat /\ Cardinality(newer(u)) \in Nat
  BY <1>2, FS_Subset, FS_CardinalityType
<1>5. Cardinality(newer(u)) >= r - 1
  BY <1>1, <1>3, <1>4
<1>. QED  BY <1>1, <1>5 DEF Mergeable

\* A key without layers shows nothing.
LEMMA ShownEmpty ==
  ASSUME NEW S, NEW f, DOMAIN f = {}
  PROVE  Shown(f, S) = NULL
<1>1. DOMAIN f \cap S = {}
  OBVIOUS
<1>. QED  BY <1>1 DEF Shown

\* Where a prune merges: versions S, of which `base` is the oldest and `merged`
\* come next.
Lowest(n, S, base, merged) ==
  /\ Ids(n, S)
  /\ merged \subseteq S
  /\ \A v \in S : base <= v
  /\ Follow(S, base, merged)

\* A prune leaves what versions S show, where `base` is the oldest of S and what
\* is merged comes next.
LEMMA PruneShows ==
  ASSUME TypeOK, HaveChangeSets, ChangeSetExact,
         NEW merged \in SUBSET SharedVers, NEW base \in SharedVers \ merged,
         PruneInto(merged, base),
         NEW n, NEW S, S \cap Orphans(br_to_its_vers) = {},
         Lowest(n, S, base, merged), NEW k
  PROVE  Shown(Layers(layered_kv', k), S \ merged) = Shown(Layers(layered_kv, k), S)
<1>0. /\ n \in Nat /\ S \in SUBSET (0 .. n)
      /\ merged \subseteq S /\ (\A v \in S : base <= v) /\ Follow(S, base, merged)
  BY DEF Lowest, Ids
<1> USE <1>0
<1> DEFINE O  == Orphans(br_to_its_vers)
           kv == PurgedKv(O)
           cs == MapRemove(ver_to_change_set, O)
<1>1. PICK into, dead : Kept(merged, base, kv, into, dead, layered_kv')
  BY PruneKept
<1>2. Shown(Layers(kv, k), S) = Shown(Layers(layered_kv, k), S)
  <2>1. O \in SUBSET DOMAIN ver_to_change_set
    BY DEF Orphans
  <2>. QED  BY <2>1, PurgeShows
<1>3. \A j \in DOMAIN kv :
        {v \in merged : j \in ver_to_change_set[v]} = merged \cap DOMAIN kv[j]
  <2>1. O \in SUBSET DOMAIN ver_to_change_set /\ merged \in SUBSET (DOMAIN ver_to_change_set \ O)
    BY SharedVersType DEF HaveChangeSets, Orphans
  <2>2. Exact(kv, cs)
    BY <2>1, PurgedExact
  <2>3. \A v \in merged : v \in DOMAIN cs /\ cs[v] = ver_to_change_set[v]
    BY <2>1 DEF MapRemove, Restrict
  <2>. HIDE DEF kv, cs, O
  <2>. QED  BY <2>2, <2>3 DEF Exact
<1>. HIDE DEF kv, cs, O
<1>5. CASE k \notin DOMAIN kv
  <2>1. Layers(kv, k) = EmptyMap /\ Layers(layered_kv', k) = EmptyMap
    BY <1>1, <1>5 DEF Kept, Layers
  <2>2. DOMAIN EmptyMap = {}
    BY DEF EmptyMap
  <2>. QED  BY <1>2, <2>1, <2>2, ShownEmpty
<1>6. CASE k \in DOMAIN kv
  <2> DEFINE f    == kv[k]
             from == {v \in merged : k \in ver_to_change_set[v]}
             g    == into[k]
             h    == MapRemove(g, {base})
             T    == S \ merged
  <2>1. g = MergeInto(f, from, base) /\ from = merged \cap DOMAIN f
    BY <1>1, <1>3, <1>6 DEF Kept
  <2>. HIDE DEF f, from, g
  <2>3. Shown(g, T) = Shown(f, S)
    <3>1. Taken(from, merged, f, S) /\ Ids(n, S)
      BY <2>1 DEF Taken, Ids
    <3>. QED  BY <2>1, <3>1, ShownMoved
  <2>4. k \in dead => Shown(h, T) = Shown(g, T)
    <3>1. k \in dead => g[base] = NULL
      BY <1>1 DEF Kept, g
    <3>2. T \in SUBSET (0 .. n) /\ base \in T /\ \A v \in T : base <= v
      BY DEF Follow
    <3>. HIDE DEF T
    <3>. QED  BY <3>1, <3>2, ShownWithoutNull
  <2>5. Shown(Layers(layered_kv', k), T) = Shown(g, T)
    <3>1. CASE k \in DOMAIN layered_kv' /\ k \in dead
      BY <1>1, <2>4, <3>1 DEF Kept, Layers, g
    <3>2. CASE k \in DOMAIN layered_kv' /\ k \notin dead
      BY <1>1, <3>2 DEF Kept, Layers, g
    <3>3. CASE k \notin DOMAIN layered_kv'
      <4>1. k \in dead /\ DOMAIN g \ {base} = {}
        BY <1>1, <1>6, <3>3 DEF Kept, g
      <4>2. DOMAIN h = {}
        BY <4>1 DEF MapRemove, Restrict
      <4>3. Layers(layered_kv', k) = EmptyMap /\ DOMAIN EmptyMap = {}
        BY <3>3 DEF Layers, EmptyMap
      <4>. QED  BY <2>4, <4>1, <4>2, <4>3, ShownEmpty
    <3>. QED  BY <3>1, <3>2, <3>3
  <2>6. Layers(kv, k) = f
    BY <1>6 DEF Layers, f
  <2>. QED  BY <1>2, <2>3, <2>5, <2>6
<1>. QED  BY <1>5, <1>6

\* Where the oldest shared versions lie on a branch: first `base`, then what a
\* prune merges, then the rest.
LEMMA PrunePlace ==
  ASSUME TypeOK, NEW n \in Nat, NEW merged, NEW base,
         merged = Mergeable((1 + n) % (USIZE_MAX + 1)), base = Min(SharedVers),
         merged # {}, NEW b, Vers(b) # {}
  PROVE  /\ merged \in SUBSET SharedVers /\ base \in SharedVers \ merged
         /\ merged \subseteq Vers(b)
         /\ \A v \in Vers(b) : base <= v
         /\ Follow(Vers(b), base, merged)
<1>1. /\ merged \in SUBSET SharedVers
      /\ \A m \in merged : \E u \in SharedVers : u < m
  BY DEF Mergeable
<1>2. /\ SharedVers \in SUBSET Nat /\ SharedVers # {}
      /\ \A v \in SharedVers : v \in Int
  BY <1>1, SharedFinite
<1>3. base \in SharedVers /\ \A v \in SharedVers : base <= v
  BY <1>2, MinInSet
<1>4. /\ SharedVers \subseteq Vers(b)
      /\ \A v \in SharedVers, u \in Vers(b) : u <= v => u \in SharedVers
      /\ \A v \in Vers(b) : v \in Int
  BY SharedPrefix, VersNumbers
<1>5. base \notin merged
  <2>. SUFFICES ASSUME base \in merged
                PROVE  FALSE
    OBVIOUS
  <2>1. PICK u \in SharedVers : u < base
    BY <1>1
  <2>. QED  BY <1>2, <1>3, <2>1
<1>6. ASSUME NEW v \in Vers(b)
      PROVE  base <= v
  <2>. SUFFICES ASSUME ~(base <= v)
                PROVE  FALSE
    OBVIOUS
  <2>1. v <= base
    BY <1>2, <1>3, <1>4
  <2>2. v \in SharedVers
    BY <1>3, <1>4, <2>1
  <2>. QED  BY <1>3, <2>2
<1>7. ASSUME NEW m \in merged, NEW v \in Vers(b) \ merged
      PROVE  v <= base \/ m < v
  <2>. SUFFICES ASSUME ~(v <= base), ~(m < v)
                PROVE  FALSE
    OBVIOUS
  <2>1. base \in Int /\ m \in Int /\ v \in Int /\ m # v
    BY <1>1, <1>2, <1>3, <1>4
  <2>2. base < v /\ v < m
    BY <2>1
  <2>3. v \in SharedVers
    BY <1>1, <1>4, <2>1, <2>2
  <2>4. (1 + n) % (USIZE_MAX + 1) \in Nat
    BY NumberAssumption
  <2>5. v \in merged
    <3> DEFINE r == (1 + n) % (USIZE_MAX + 1)
    <3>1. r \in Nat /\ m \in Mergeable(r)
      BY <2>4
    <3>. HIDE DEF r
    <3>2. v \in Mergeable(r)
      BY <1>3, <2>2, <2>3, <3>1, MergeableFirst
    <3>. QED  BY <3>2 DEF r
  <2>. QED  BY <2>5
<1>8. \A m \in merged : m \in Int /\ base < m
  <2>1. \A m \in merged : m \in Int /\ base \in Int /\ base <= m /\ base # m
    BY <1>1, <1>2, <1>3, <1>5
  <2>. QED  BY <2>1
<1>. QED  BY <1>1, <1>3, <1>4, <1>5, <1>6, <1>7, <1>8 DEF Follow

-----------------------------------------------------------------------------
(* Rebase.                                                                 *)

\* A rebase merges the newer versions of every key.
LEMMA RebaseValues ==
  ASSUME ChangeSetExact, NEW b, NEW base, VersionRebase(b, base), NEW k
  PROVE  KeyVers(k)' =
           MergeInto(KeyVers(k), Newer(b, base) \cap DOMAIN KeyVers(k), base)
<1> DEFINE newer == Newer(b, base)
           from(j) == {v \in newer : j \in ver_to_change_set[v]}
<1>1. /\ newer \subseteq DOMAIN ver_to_change_set
      /\ layered_kv' = [j \in DOMAIN layered_kv |-> MergeInto(layered_kv[j], from(j), base)]
  BY DEF VersionRebase
<1>2. \A j \in DOMAIN layered_kv : from(j) = newer \cap DOMAIN layered_kv[j]
  BY <1>1, ExactIs DEF Exact
<1>. HIDE DEF newer
<1>3. CASE k \in DOMAIN layered_kv
  <2>1. KeyVers(k)' = MergeInto(layered_kv[k], from(k), base) /\ KeyVers(k) = layered_kv[k]
    BY <1>1, <1>3 DEF KeyVers
  <2>. QED  BY <1>2, <1>3, <2>1 DEF newer
<1>4. CASE k \notin DOMAIN layered_kv
  <2>1. KeyVers(k)' = EmptyMap /\ KeyVers(k) = EmptyMap /\ DOMAIN EmptyMap = {}
    BY <1>1, <1>4 DEF KeyVers, EmptyMap
  <2>2. (newer \cap DOMAIN EmptyMap) \cap DOMAIN EmptyMap = {}
    BY <2>1
  <2>3. MergeInto(EmptyMap, newer \cap DOMAIN EmptyMap, base) = EmptyMap
    BY <2>2 DEF MergeInto
  <2>. QED  BY <2>1, <2>3 DEF newer
<1>. QED  BY <1>3, <1>4

\* Versions that are not merged, nor merged into, show what they showed.
LEMMA ShownElsewhere ==
  ASSUME NEW n \in Nat, NEW S \in SUBSET (0 .. n), NEW f, NEW from, from \cap S = {},
         NEW to, to \notin S
  PROVE  Shown(MergeInto(f, from, to), S) = Shown(f, S)
<1> DEFINE g == MergeInto(f, from, to)
<1>1. \/ g = f
      \/ /\ DOMAIN g = (DOMAIN f \ from) \cup {to}
         /\ \A v \in DOMAIN f \ (from \cup {to}) : g[v] = f[v]
  BY DEF MergeInto, MapInsert, MapRemove, Restrict
<1>. HIDE DEF g
<1>2. SameValues(g, S, f, S)
  BY <1>1 DEF SameValues
<1>3. Shown(g, S) = Shown(f, S)
  BY <1>2, ShownSame
<1>. QED  BY <1>3 DEF g

\* Where a rebase finds its versions: everything newer than `base` on its
\* branch, nothing of it on another branch.
LEMMA RebasePlace ==
  ASSUME TypeOK, NEW b, NEW base, RebaseDuty(b, base), VersionRebase(b, base)
  PROVE  /\ b \in DOMAIN br_to_its_vers
         /\ Newer(b, base) \subseteq Vers(b)
         /\ Follow(Vers(b), base, Newer(b, base))
         /\ \A c \in DOMAIN br_to_its_vers \ {b} :
              Newer(b, base) \cap Vers(c) = {} /\ base \notin Vers(c)
         /\ Vers(b)' = Vers(b) \ Newer(b, base)
         /\ \A c \in DOMAIN br_to_its_vers \ {b} : Vers(c)' = Vers(c)
         /\ DOMAIN br_to_its_vers' = DOMAIN br_to_its_vers
<1>1. /\ base \in Vers(b)
      /\ br_to_its_vers' = [br_to_its_vers EXCEPT ![b] = @ \ Newer(b, base)]
  BY DEF VersionRebase
<1>2. \A c : \A v \in Vers(c) : v \in Int
  BY VersNumbers
<1>3. b \in DOMAIN br_to_its_vers
  BY <1>1 DEF Vers
<1>4. /\ Vers(b)' = Vers(b) \ Newer(b, base)
      /\ \A c \in DOMAIN br_to_its_vers \ {b} : Vers(c)' = Vers(c)
      /\ DOMAIN br_to_its_vers' = DOMAIN br_to_its_vers
  BY <1>1, <1>3 DEF Vers, TypeOK, IsMap
<1>5. \A v : v \in Newer(b, base) <=> v \in Vers(b) /\ v > base
  BY DEF Newer
<1>6. base \in Int /\ base \notin Newer(b, base)
  BY <1>1, <1>2, <1>5
<1>7. Follow(Vers(b), base, Newer(b, base))
  <2>1. \A m \in Newer(b, base) : m \in Int /\ base < m
    BY <1>2, <1>5, <1>6
  <2>2. \A v \in Vers(b) \ Newer(b, base) : v <= base
    BY <1>2, <1>5, <1>6
  <2>. QED  BY <1>1, <1>6, <2>1, <2>2 DEF Follow
<1>8. ASSUME NEW c \in DOMAIN br_to_its_vers \ {b}
      PROVE  Newer(b, base) \cap Vers(c) = {} /\ base \notin Vers(c)
  <2>1. \A v \in Vers(c) : v \in Int /\ v < base
    BY <1>2 DEF RebaseDuty
  <2>. QED  BY <1>5, <1>6, <2>1
<1>. QED  BY <1>3, <1>4, <1>5, <1>7, <1>8

-----------------------------------------------------------------------------
(* The newest content.                                                     *)

\* Clean-up, keep_only, prune and rebase leave what a branch shows.
LEMMA CompactShows ==
  ASSUME TypeOK, HaveChangeSets, ChangeSetExact, CompactStep,
         NEW b \in DOMAIN br_to_its_vers \cap DOMAIN br_to_its_vers', NEW k
  PROVE  Shown(Layers(layered_kv', k), Vers(b)') = Shown(Layers(layered_kv, k), Vers(b))
<1>0. /\ next_ver_id \in Nat /\ Vers(b) \in SUBSET (0 .. next_ver_id)
      /\ \A c : Vers(c) \in SUBSET (0 .. next_ver_id)
  BY VersNumbers
<1>1. ASSUME NEW brs, b \in DOMAIN brs, brs[b] = Vers(b), br_to_its_vers' = brs,
             layered_kv' = PurgedKv(Orphans(brs))
      PROVE  Shown(Layers(layered_kv', k), Vers(b)') = Shown(Layers(layered_kv, k), Vers(b))
  <2>1. Orphans(brs) \in SUBSET DOMAIN ver_to_change_set /\ Vers(b) \cap Orphans(brs) = {}
    BY <1>1, NoOrphans DEF Orphans
  <2>2. Shown(Layers(PurgedKv(Orphans(brs)), k), Vers(b)) =
          Shown(Layers(layered_kv, k), Vers(b))
    BY <1>0, <2>1, PurgeShows
  <2>3. Vers(b)' = Vers(b)
    BY <1>1 DEF Vers
  <2>. QED  BY <1>1, <2>2, <2>3
<1>2. ASSUME CleanUp
      PROVE  Shown(Layers(layered_kv', k), Vers(b)') = Shown(Layers(layered_kv, k), Vers(b))
  BY <1>1, <1>2 DEF CleanUp, Purge, Vers
<1>3. ASSUME NEW keep, BranchKeepOnly(keep)
      PROVE  Shown(Layers(layered_kv', k), Vers(b)') = Shown(Layers(layered_kv, k), Vers(b))
  <2> DEFINE brs == MapRemove(br_to_its_vers, DOMAIN br_id_to_br_name \ keep)
  <2>1. br_to_its_vers' = brs /\ layered_kv' = PurgedKv(Orphans(brs))
    BY <1>3 DEF BranchKeepOnly, RemoveBranches, Purge
  <2>2. \A c \in DOMAIN brs : brs[c] = br_to_its_vers[c]
    BY RemoveKeeps
  <2>. HIDE DEF brs
  <2>3. b \in DOMAIN brs /\ brs[b] = Vers(b)
    BY <2>1, <2>2 DEF Vers
  <2>. QED  BY <1>1, <2>1, <2>3
<1>4. ASSUME NEW n \in 0 .. USIZE_MAX, Prune(n)
      PROVE  Shown(Layers(layered_kv', k), Vers(b)') = Shown(Layers(layered_kv, k), Vers(b))
  <2> DEFINE merged == Mergeable((1 + n) % (USIZE_MAX + 1))
             base   == Min(SharedVers)
  <2>1. CASE merged = {}
    BY <1>2, <1>4, <2>1 DEF Prune
  <2>2. CASE merged # {}
    <3>1. PruneInto(merged, base)
      BY <1>4, <2>2 DEF Prune
    <3>2. Vers(b)' = Vers(b) \ merged
      BY <3>1 DEF PruneInto, Vers
    <3>3. CASE Vers(b) = {}
      BY <3>2, <3>3 DEF Shown
    <3>4. CASE Vers(b) # {}
      <4>1. n \in Nat /\ merged = Mergeable((1 + n) % (USIZE_MAX + 1))
            /\ base = Min(SharedVers)
        BY NumberAssumption
      <4>. HIDE DEF merged, base
      <4>2. /\ merged \in SUBSET SharedVers /\ base \in SharedVers \ merged
            /\ merged \subseteq Vers(b)
            /\ \A v \in Vers(b) : base <= v
            /\ Follow(Vers(b), base, merged)
        BY <2>2, <3>4, <4>1, PrunePlace
      <4>3. Vers(b) \cap Orphans(br_to_its_vers) = {}
        BY NoOrphans DEF Vers
      <4>4. Shown(Layers(layered_kv', k), Vers(b) \ merged) = Shown(Layers(layered_kv, k), Vers(b))
        <5>1. Lowest(next_ver_id, Vers(b), base, merged)
          BY <1>0, <4>2 DEF Lowest, Ids
        <5>. QED  BY <3>1, <4>2, <4>3, <5>1, PruneShows
      <4>. QED  BY <3>2, <4>4
    <3>. QED  BY <3>3, <3>4
  <2>. QED  BY <2>1, <2>2
<1>5. ASSUME NEW c, NEW base, RebaseDuty(c, base), VersionRebase(c, base)
      PROVE  Shown(Layers(layered_kv', k), Vers(b)') = Shown(Layers(layered_kv, k), Vers(b))
  <2> DEFINE M == Newer(c, base)
             f == Layers(layered_kv, k)
             from == M \cap DOMAIN f
  <2>1. Layers(layered_kv', k) = MergeInto(f, from, base)
    BY <1>5, RebaseValues, KeyVersAreLayers
  <2>2. from = M \cap DOMAIN f
    OBVIOUS
  <2>. HIDE DEF f, from
  <2>3. CASE b = c
    <3>1. M \subseteq Vers(b) /\ Follow(Vers(b), base, M) /\ Vers(b)' = Vers(b) \ M
      BY <1>5, <2>3, RebasePlace
    <3> DEFINE S == Vers(b)
    <3>2. Taken(from, M, f, S) /\ Ids(next_ver_id, S) /\ Follow(S, base, M)
      BY <1>0, <2>2, <3>1 DEF Taken, Ids
    <3>. HIDE DEF M, S
    <3>3. Shown(MergeInto(f, from, base), S \ M) = Shown(f, S)
      BY <3>2, ShownMoved
    <3>. QED  BY <2>1, <3>1, <3>3 DEF f, S
  <2>4. CASE b # c
    <3>1. M \cap Vers(b) = {} /\ base \notin Vers(b) /\ Vers(b)' = Vers(b)
      BY <1>5, <2>4, RebasePlace
    <3>2. from \cap Vers(b) = {}
      BY <2>2, <3>1
    <3>3. Shown(MergeInto(f, from, base), Vers(b)) = Shown(f, Vers(b))
      BY <1>0, <3>1, <3>2, ShownElsewhere
    <3>. QED  BY <2>1, <3>1, <3>3 DEF f
  <2>. QED  BY <2>3, <2>4
<1>. QED  BY <1>2, <1>3, <1>4, <1>5 DEF CompactStep

\* Clean-up, keep_only, prune, rebase within the duty of its caller, and a
\* restart leave the newest content of every branch that remains.
THEOREM HeadsKept == Spec => CompactKeepsHeads
<1>1. ASSUME DataInv, DataInv', CompactStep \/ Restart,
             NEW b \in DOMAIN br_to_its_vers \cap DOMAIN br_to_its_vers', NEW k
      PROVE  GetByBranch(k, b)' = GetByBranch(k, b)
  <2>1. Shown(Layers(layered_kv', k), Vers(b)') = Shown(Layers(layered_kv, k), Vers(b))
    <3>1. CASE CompactStep
      BY <1>1, <3>1, CompactShows DEF DataInv, VersionsKnown
    <3>2. CASE Restart
      BY <3>2 DEF Restart, Vers
    <3>. QED  BY <1>1, <3>1, <3>2
  <2>2. GetByBranch(k, b) = Shown(Layers(layered_kv, k), Vers(b))
    <3>1. next_ver_id \in Nat /\ Vers(b) \in SUBSET (0 .. next_ver_id)
      BY <1>1, VersNumbers DEF DataInv
    <3>. QED  BY <3>1, HeadIsShown, KeyVersAreLayers
  <2>3. GetByBranch(k, b)' = Shown(Layers(layered_kv', k), Vers(b)')
    <3>1. next_ver_id' \in Nat /\ Vers(b)' \in SUBSET (0 .. next_ver_id')
      BY <1>1 DEF DataInv, TypeOK, IsMap, Vers, VerIds
    <3>. QED  BY <3>1, HeadIsShownNext, KeyVersAreLayers
  <2>. QED  BY <2>1, <2>2, <2>3
<1>2. DataInv /\ DataInv' /\ [Next]_vars =>
        [(\E b \in DOMAIN br_to_its_vers \cap DOMAIN br_to_its_vers', k \in Key :
            GetByBranch(k, b)' # GetByBranch(k, b)) => ~(CompactStep \/ Restart)]_vars
  BY <1>1
<1>. QED  BY <1>2, DataInvariant, SpecIsUnsafe, PTL DEF Spec, CompactKeepsHeads

-----------------------------------------------------------------------------
(* What a prune reserves.                                                  *)

\* Each branch keeps the oldest version and as many more as were asked for, or
\* all it had; the sum of the two may wrap.
LEMMA PruneLeaves ==
  ASSUME TypeOK, NEW n \in 0 .. USIZE_MAX, Prune(n),
         NEW b \in DOMAIN br_to_its_vers \cap DOMAIN br_to_its_vers'
  PROVE  ~(Cardinality(Vers(b)') < Min({Cardinality(Vers(b)), 1 + n}))
<1> DEFINE r      == (1 + n) % (USIZE_MAX + 1)
           merged == Mergeable(r)
           base   == Min(SharedVers)
           S      == Vers(b)
<1>1. IsFiniteSet(S) /\ Cardinality(S) \in Nat /\ n \in Nat
  <2>1. IsFiniteSet(0 .. next_ver_id) /\ S \in SUBSET (0 .. next_ver_id)
    <3>1. 0 \in Int /\ next_ver_id \in Int /\ S \in SUBSET (0 .. next_ver_id)
      BY VersNumbers
    <3>. HIDE DEF S
    <3>. QED  BY <3>1, FS_Interval
  <2>2. IsFiniteSet(S)
    BY <2>1, FS_Subset
  <2>. QED  BY <2>2, FS_CardinalityType, NumberAssumption
<1>2. Min({Cardinality(S), 1 + n}) \in {Cardinality(S), 1 + n}
      /\ Min({Cardinality(S), 1 + n}) <= Cardinality(S)
      /\ Min({Cardinality(S), 1 + n}) <= 1 + n
  <2>1. {Cardinality(S), 1 + n} \in SUBSET Nat /\ {Cardinality(S), 1 + n} # {}
    BY <1>1
  <2>. HIDE DEF S
  <2>. QED  BY <2>1, MinInSet
<1>3. Vers(b)' = S \ merged
  <2>1. CASE merged = {}
    BY <2>1 DEF Prune, CleanUp, Vers
  <2>2. CASE merged # {}
    BY <2>2 DEF Prune, PruneInto, Vers
  <2>. QED  BY <2>1, <2>2
<1>4. CASE merged = {} \/ S = {}
  <2>1. Vers(b)' = S
    BY <1>3, <1>4
  <2>2. Cardinality(Vers(b)') = Cardinality(S)
    BY <2>1
  <2>3. Min({Cardinality(S), 1 + n}) \in Int
    BY <1>1, <1>2
  <2>4. ~(Cardinality(S) < Min({Cardinality(S), 1 + n}))
    BY <1>1, <1>2, <2>3
  <2>. QED  BY <2>2, <2>4 DEF S
<1>5. CASE merged # {} /\ S # {}
  <2>1. /\ merged \in SUBSET SharedVers /\ base \in SharedVers \ merged
        /\ \A m \in merged : m \in Int /\ base < m
    <3>1. n \in Nat
      BY <1>1
    <3>. QED  BY <1>5, <3>1, PrunePlace DEF Follow
  <2>2. r = 1 + n
    <3>1. r # 0
      BY <1>5 DEF Mergeable
    <3>2. n # USIZE_MAX
      BY <1>1, <3>1, NumberAssumption
    <3>. QED  BY <3>2, NumberAssumption
  <2>3. PICK m \in merged : \A v \in merged : v <= m
    <3>1. merged \in SUBSET (0 .. next_ver_id) /\ next_ver_id \in Nat
      BY <2>1, SharedVersType DEF VerIds, TypeOK
    <3>. HIDE DEF merged
    <3>. QED  BY <1>5, <3>1, MaxInSet
  <2> DEFINE W == {w \in SharedVers : w > m}
  <2>4. Cardinality(W) >= n
    <3>1. Cardinality(W) >= r - 1
      BY <2>3 DEF Mergeable
    <3>. HIDE DEF W, r
    <3>. QED  BY <1>1, <2>2, <3>1
  <2>5. SharedVers \subseteq S /\ \A v \in S : v \in Int
    BY <1>5, SharedPrefix, VersNumbers
  <2>. HIDE DEF merged, base, r, S
  <2>6. W \cup {base} \subseteq S \ merged /\ base \notin W
    BY <2>1, <2>3, <2>5
  <2>7. IsFiniteSet(S \ merged) /\ IsFiniteSet(W) /\ Cardinality(S \ merged) \in Nat
    <3>1. S \ merged \in SUBSET S /\ W \in SUBSET S
      BY <2>6
    <3>. HIDE DEF W
    <3>2. IsFiniteSet(S \ merged) /\ IsFiniteSet(W)
      BY <1>1, <3>1, FS_Subset
    <3>. QED  BY <3>2, FS_CardinalityType
  <2>. HIDE DEF W
  <2>8. Cardinality(W \cup {base}) = Cardinality(W) + 1 /\ Cardinality(W) \in Nat
    BY <2>6, <2>7, FS_AddElement, FS_CardinalityType
  <2>9. Cardinality(W \cup {base}) <= Cardinality(S \ merged)
    <3>1. W \cup {base} \in SUBSET (S \ merged)
      BY <2>6
    <3>. QED  BY <2>7, <3>1, FS_Subset
  <2>10. Cardinality(S \ merged) >= 1 + n
    BY <1>1, <2>4, <2>7, <2>8, <2>9
  <2>. QED  BY <1>1, <1>2, <1>3, <2>7, <2>10 DEF S
<1>. QED  BY <1>4, <1>5

\* A prune that is to reserve n versions beside the oldest leaves as many on
\* each branch, or all that were there.
THEOREM PruneReservesHolds == Spec => PruneReserves
<1>1. TypeOK /\ [Next]_vars =>
        [\A n \in 0..USIZE_MAX :
           (\E b \in DOMAIN br_to_its_vers \cap DOMAIN br_to_its_vers' :
              Cardinality(Vers(b)') < Min({Cardinality(Vers(b)), 1 + n}))
           => ~Prune(n)]_vars
  BY PruneLeaves
<1>. QED  BY <1>1, TypeCorrect, SpecIsUnsafe, PTL DEF Spec, PruneReserves

-----------------------------------------------------------------------------
(* The layered store implements snapshots.                                 *)

\* What versions S of a branch hold at version v, over layers kv.
At(kv, S, v) == [k \in Key |-> Shown(Layers(kv, k), UpTo(S, v))]

\* The content that layers kv and branches brs show.
ContentOf(kv, brs) == [b \in DOMAIN brs |-> [v \in brs[b] |-> At(kv, brs[b], v)]]

\* The refinement mapping reads the layers and the branches,
LEMMA ContentIs == content = ContentOf(layered_kv, br_to_its_vers)
<1>1. \A b \in DOMAIN br_to_its_vers : \A v, k :
         Get(k, b, v) = Shown(Layers(layered_kv, k), UpTo(br_to_its_vers[b], v))
  BY GetIsShown, KeyVersAreLayers DEF Vers
<1>. QED  BY <1>1 DEF content, ContentOf, At

\* in the next state as well.
LEMMA ContentIsNext == content' = ContentOf(layered_kv', br_to_its_vers')
<1>1. \A b \in DOMAIN br_to_its_vers' : \A v, k :
         Get(k, b, v)' = Shown(Layers(layered_kv', k), UpTo(br_to_its_vers'[b], v))
  <2>. SUFFICES ASSUME NEW b \in DOMAIN br_to_its_vers', NEW v, NEW k
                PROVE  Get(k, b, v)' = Shown(Layers(layered_kv', k), UpTo(br_to_its_vers'[b], v))
    OBVIOUS
  <2>1. Vers(b)' = br_to_its_vers'[b]
    BY DEF Vers
  <2>. QED  BY <2>1, GetIsShownNext, KeyVersAreLayers
<1>. QED  BY <1>1 DEF content, ContentOf, At

\* The parts of a content.
LEMMA ContentParts ==
  ASSUME NEW kv, NEW brs
  PROVE  /\ DOMAIN ContentOf(kv, brs) = DOMAIN brs
         /\ \A b \in DOMAIN brs : DOMAIN ContentOf(kv, brs)[b] = brs[b]
         /\ \A b \in DOMAIN brs : \A v \in brs[b] :
              ContentOf(kv, brs)[b][v] = At(kv, brs[b], v)
  BY DEF ContentOf

\* At first
LEMMA InitContent == Init => Snapshots!Init
  BY DEF Init, Snapshots!Init, content, INITIAL_BRANCH_ID, MapInsert, EmptyMap, Snapshots!MapInsert,
         Snapshots!EmptyMap

-----------------------------------------------------------------------------
\* Branches whose versions are numbers, and the content they show over layers kv.
Holds(kv, S) == [k \in Key |-> Shown(Layers(kv, k), S)]
Shows(n, kv, brs) ==
    /\ n \in Nat
    /\ \A b \in DOMAIN brs : brs[b] \in SUBSET (0 .. n)
    /\ content = ContentOf(kv, brs)

\* S is an initial part of T.
Initial(S, T) == S \subseteq T /\ \A v \in S, w \in T : w <= v => w \in S

\* The versions up to one of S, in an initial part of T, are those of T.
LEMMA InitialUpTo ==
  ASSUME NEW S, NEW T, Initial(S, T), NEW v \in S
  PROVE  UpTo(S, v) = UpTo(T, v)
  BY DEF Initial, UpTo

\* An initial part is empty or what is up to its newest version.
LEMMA InitialIs ==
  ASSUME NEW n \in Nat, NEW T \in SUBSET (0 .. n), NEW S, Initial(S, T), S # {}
  PROVE  Max(S) \in S /\ S = UpTo(T, Max(S))
<1>1. S \in SUBSET (0 .. n)
  BY DEF Initial
<1>2. Max(S) \in S /\ UpTo(S, Max(S)) = S
  BY <1>1, UpToLast
<1>. QED  BY <1>2, InitialUpTo

\* Initial parts of a branch are the parts that the snapshots have,
LEMMA PartsAre ==
  ASSUME NEW n, NEW kv, NEW brs, Shows(n, kv, brs), NEW b \in DOMAIN brs,
         NEW S, Initial(S, brs[b])
  PROVE  S \in Snapshots!Parts(b)
<1>1. DOMAIN content[b] = brs[b]
  BY ContentParts DEF Shows
<1>2. CASE S = {}
  BY <1>2 DEF Snapshots!Parts
<1>3. CASE S # {}
  <2>1. Max(S) \in brs[b] /\ S = UpTo(brs[b], Max(S))
    BY <1>3, InitialIs DEF Shows, Initial
  <2>. QED  BY <1>1, <2>1 DEF Snapshots!Parts, Snapshots!Versions, Snapshots!UpTo, UpTo
<1>. QED  BY <1>2, <1>3

\* and end with what they hold.
LEMMA EndIs ==
  ASSUME NEW n, NEW kv, NEW brs, Shows(n, kv, brs), NEW b \in DOMAIN brs,
         NEW S, Initial(S, brs[b])
  PROVE  Snapshots!End(b, S) = Holds(kv, S)
<1>1. CASE S = {}
  <2>1. \A k : Shown(Layers(kv, k), S) = NULL
    BY <1>1 DEF Shown
  <2>. QED  BY <1>1, <2>1 DEF Snapshots!End, Snapshots!Nothing, Holds
<1>2. CASE S # {}
  <2>1. Max(S) \in brs[b] /\ S = UpTo(brs[b], Max(S))
    BY <1>2, InitialIs DEF Shows, Initial
  <2>2. content[b][Max(S)] = At(kv, brs[b], Max(S))
    BY <2>1, ContentParts DEF Shows
  <2>3. Snapshots!Max(S) = Max(S)
    BY DEF Snapshots!Max, Max
  <2>. QED  BY <1>2, <2>1, <2>2, <2>3 DEF Snapshots!End, At, Holds
<1>. QED  BY <1>1, <1>2

\* A branch goes back to an initial part of its own.
LEMMA GoBackStep ==
  ASSUME NEW n, NEW kv, NEW brs, Shows(n, kv, brs), NEW b \in DOMAIN brs,
         NEW S, Initial(S, brs[b]), NEW brs2, DOMAIN brs2 = DOMAIN brs, brs2[b] = S,
         \A c \in DOMAIN brs \ {b} : brs2[c] = brs[c],
         content' = ContentOf(kv, brs2)
  PROVE  Snapshots!Rearrange
<1>1. /\ DOMAIN content = DOMAIN brs /\ DOMAIN content' = DOMAIN brs
      /\ DOMAIN content'[b] = S
  BY ContentParts DEF Shows
<1>2. \A v \in S : At(kv, S, v) = At(kv, brs[b], v)
  BY InitialUpTo DEF At
<1>3. content' = [content EXCEPT ![b] = Restrict(@, S)]
  <2>1. ASSUME NEW c \in DOMAIN brs
        PROVE  content'[c] = [content EXCEPT ![b] = Restrict(@, S)][c]
    <3>1. CASE c = b
      <4>1. content'[b] = [v \in S |-> At(kv, S, v)]
        BY DEF ContentOf
      <4>2. content[b] = [v \in brs[b] |-> At(kv, brs[b], v)]
        BY DEF ContentOf, Shows
      <4>3. S \subseteq brs[b]
        BY DEF Initial
      <4>4. Restrict(content[b], S) = [v \in S |-> At(kv, brs[b], v)]
        BY <4>2, <4>3 DEF Restrict
      <4>. QED  BY <1>1, <1>2, <3>1, <4>1, <4>4
    <3>2. CASE c # b
      <4>1. content'[c] = content[c]
        BY <3>2 DEF ContentOf, Shows
      <4>. QED  BY <1>1, <3>2, <4>1
    <3>. QED  BY <3>1, <3>2
  <2>2. content' = [c \in DOMAIN brs |-> content'[c]]
    BY DEF ContentOf
  <2>. QED  BY <1>1, <2>1, <2>2
<1>4. Snapshots!GoBack(b, Snapshots!After(b))
  BY <1>1, <1>3 DEF Snapshots!GoBack, Snapshots!After, Snapshots!Restrict, Restrict
<1>5. Snapshots!After(b) \in Snapshots!Parts(b) /\ b \in Snapshots!Kept
  BY <1>1, PartsAre DEF Snapshots!After, Snapshots!Kept, Snapshots!Branches
<1>. QED  BY <1>4, <1>5 DEF Snapshots!Rearrange
-----------------------------------------------------------------------------
\* After a write of x to version h, versions U show x, or what they showed: this
\* when h is not among them, or when one of them is newer.
LEMMA ShownWritten ==
  ASSUME NEW n, NEW U, Ids(n, U), NEW f, NEW h, NEW x
  PROVE  \/ Shown(MapInsert(f, h, x), U) = Shown(f, U) /\ ~(h \in U /\ \A v \in U : v <= h)
         \/ Shown(MapInsert(f, h, x), U) = x /\ h \in U
<1>0. n \in Nat /\ U \in SUBSET (0 .. n)
  BY DEF Ids
<1>. USE <1>0
<1> DEFINE g == MapInsert(f, h, x)
<1>1. /\ DOMAIN g = DOMAIN f \cup {h} /\ g[h] = x
      /\ \A v \in DOMAIN f \ {h} : g[v] = f[v]
  BY DEF MapInsert
<1>. HIDE DEF g
<1>2. CASE h \notin U
  <2>1. SameValues(g, U, f, U)
    BY <1>1, <1>2 DEF SameValues
  <2>2. Ids(n, U)
    BY DEF Ids
  <2>3. Shown(g, U) = Shown(f, U)
    BY <2>1, <2>2, SameShows
  <2>. QED  BY <1>2, <2>3 DEF g
<1>3. CASE h \in U
  <2>1. U \in SUBSET Int /\ \A v \in U : v \in Int
    OBVIOUS
  <2>2. CASE \A v \in DOMAIN f \cap U : v <= h
    <3>1. h \in DOMAIN g \cap U /\ \A v \in DOMAIN g \cap U : v <= h
      <4>1. h \in Int /\ h <= h
        BY <1>3, <2>1
      <4>. QED  BY <1>1, <1>3, <2>2, <4>1
    <3>2. Shown(g, U) = x
      BY <1>1, <2>1, <3>1, ShownIs
    <3>. QED  BY <1>3, <3>2 DEF g
  <2>3. CASE \E v \in DOMAIN f \cap U : ~(v <= h)
    <3>1. DOMAIN f \cap U \in SUBSET (0 .. n) /\ DOMAIN f \cap U # {}
      BY <2>3
    <3>2. PICK m \in DOMAIN f \cap U : \A v \in DOMAIN f \cap U : v <= m
      BY <3>1, MaxInSet
    <3>3. ~(m <= h) /\ m # h
      <4>1. PICK v \in DOMAIN f \cap U : ~(v <= h)
        BY <2>3
      <4>2. v \in Int /\ m \in Int /\ h \in Int /\ v <= m
        BY <1>3, <2>1, <3>2
      <4>. QED  BY <4>1, <4>2
    <3>4. m \in DOMAIN g \cap U /\ g[m] = f[m] /\ \A v \in DOMAIN g \cap U : v <= m
      <4>1. m \in Int /\ h \in Int
        BY <1>3, <2>1, <3>2
      <4>. QED  BY <1>1, <3>2, <3>3, <4>1
    <3>5. Shown(f, U) = f[m] /\ Shown(g, U) = g[m]
      BY <2>1, <3>2, <3>4, ShownIs
    <3>. QED  BY <3>2, <3>3, <3>4, <3>5 DEF g
  <2>. QED  BY <2>2, <2>3
<1>. QED  BY <1>2, <1>3

\* What versions S show at version w of them after a write of x for key k to h.
LEMMA WrittenAt ==
  ASSUME NEW n, NEW S, Ids(n, S), NEW w \in S, NEW kv, NEW h, NEW k \in Key, NEW x,
         NEW kv2, kv2 = MapInsert(kv, k, MapInsert(Layers(kv, k), h, x))
  PROVE  \/ At(kv2, S, w) = At(kv, S, w) /\ ~(h \in S /\ w = h)
         \/ At(kv2, S, w) = [At(kv, S, w) EXCEPT ![k] = x] /\ h \in S /\ h <= w
<1> DEFINE U == UpTo(S, w)
           f == Layers(kv, k)
<1>0. n \in Nat /\ S \in SUBSET (0 .. n)
  BY DEF Ids
<1>1. U \in SUBSET (0 .. n) /\ w \in Int /\ (h \in U <=> h \in S /\ h <= w)
      /\ \A v \in U : v <= w
  <2>1. w \in 0 .. n /\ U \subseteq S
    BY <1>0 DEF UpTo
  <2>2. (h \in U <=> h \in S /\ h <= w) /\ \A v \in U : v <= w
    BY DEF UpTo
  <2>3. w \in Int
    BY <1>0, <2>1
  <2>. HIDE DEF U
  <2>4. U \in SUBSET (0 .. n)
    BY <1>0, <2>1
  <2>. QED  BY <2>2, <2>3, <2>4
<1>2. Layers(kv2, k) = MapInsert(f, h, x) /\ \A j : j # k => Layers(kv2, j) = Layers(kv, j)
  BY DEF Layers, MapInsert
<1>3. /\ At(kv, S, w) = [j \in Key |-> Shown(Layers(kv, j), U)]
      /\ At(kv2, S, w) = [j \in Key |-> Shown(Layers(kv2, j), U)]
  BY DEF At
<1>. HIDE DEF U, f
<1>4. \A j \in Key \ {k} : Shown(Layers(kv2, j), U) = Shown(Layers(kv, j), U)
  BY <1>2
<1>5. CASE Shown(MapInsert(f, h, x), U) = Shown(f, U) /\ ~(h \in U /\ \A v \in U : v <= h)
  <2>1. \A j \in Key : Shown(Layers(kv2, j), U) = Shown(Layers(kv, j), U)
    BY <1>2, <1>4, <1>5 DEF f
  <2>2. At(kv2, S, w) = At(kv, S, w)
    BY <1>3, <2>1
  <2>3. ~(h \in S /\ w = h)
    BY <1>1, <1>5
  <2>. QED  BY <2>2, <2>3
<1>6. CASE Shown(MapInsert(f, h, x), U) = x /\ h \in U
  <2>1. At(kv2, S, w) = [At(kv, S, w) EXCEPT ![k] = x]
    BY <1>2, <1>3, <1>4, <1>6 DEF f
  <2>. QED  BY <1>1, <1>6, <2>1
<1>7. \/ Shown(MapInsert(f, h, x), U) = Shown(f, U) /\ ~(h \in U /\ \A v \in U : v <= h)
      \/ Shown(MapInsert(f, h, x), U) = x /\ h \in U
  <2>1. Ids(n, U)
    BY <1>0, <1>1 DEF Ids
  <2>. QED  BY <2>1, ShownWritten
<1>. QED  BY <1>5, <1>6, <1>7

\* A write to the newest version h of a branch.
LEMMA WriteShows ==
  ASSUME NEW n, NEW kv, NEW brs, Shows(n, kv, brs), NEW b \in DOMAIN brs,
         NEW h, IsLast(h, brs[b]), NEW k \in Key, NEW x \in Values,
         NEW kv2, kv2 = MapInsert(kv, k, MapInsert(Layers(kv, k), h, x)),
         content' = ContentOf(kv2, brs)
  PROVE  Snapshots!Next
<1>1. /\ DOMAIN content = DOMAIN brs /\ DOMAIN content' = DOMAIN brs
      /\ \A c \in DOMAIN brs : DOMAIN content[c] = brs[c] /\ DOMAIN content'[c] = brs[c]
      /\ \A c \in DOMAIN brs : \A w \in brs[c] :
           content[c][w] = At(kv, brs[c], w) /\ content'[c][w] = At(kv2, brs[c], w)
  BY ContentParts DEF Shows
<1>2. n \in Nat /\ \A c \in DOMAIN brs : brs[c] \in SUBSET (0 .. n)
  BY DEF Shows
<1>3. h \in brs[b] /\ h = Snapshots!Max(brs[b])
  <2>1. Max(brs[b]) = h
    <3>1. brs[b] \in SUBSET Int /\ h \in brs[b] /\ \A v \in brs[b] : v <= h
      BY <1>2 DEF IsLast
    <3>. QED  BY <3>1, MaxIs
  <2>. QED  BY <2>1 DEF IsLast, Max, Snapshots!Max
<1>4. ASSUME NEW c \in DOMAIN brs, NEW w \in brs[c]
      PROVE  \/ /\ content'[c][w] = content[c][w]
                /\ ~(h \in brs[c] /\ h <= w /\ w = h)
             \/ /\ content'[c][w] = [content[c][w] EXCEPT ![k] = x]
                /\ h \in brs[c] /\ h <= w
  <2>1. Ids(n, brs[c])
    BY <1>2 DEF Ids
  <2>. QED  BY <1>1, <2>1, WrittenAt
<1>5. Snapshots!Write(b, k, x)
  <2>1. h \in DOMAIN content[b] /\ h = Snapshots!Max(DOMAIN content[b])
    BY <1>1, <1>3
  <2>2. ASSUME NEW c \in DOMAIN content
        PROVE  DOMAIN content'[c] = DOMAIN content[c]
    BY <1>1
  <2>3. ASSUME NEW c \in DOMAIN content, NEW w \in DOMAIN content[c]
        PROVE  \/ /\ content'[c][w] = content[c][w]
                  /\ ~(h \in DOMAIN content[c] /\ h <= w /\ w = h)
               \/ /\ content'[c][w] = [content[c][w] EXCEPT ![k] = x]
                  /\ h \in DOMAIN content[c] /\ h <= w
    <3>1. c \in DOMAIN brs /\ DOMAIN content[c] = brs[c] /\ w \in brs[c]
      BY <1>1
    <3>. QED  BY <1>4, <3>1
  <2>. QED  BY <1>1, <2>1, <2>2, <2>3 DEF Snapshots!Write, Snapshots!Branches, Snapshots!Versions
<1>6. b \in Snapshots!Branches
  BY <1>1 DEF Snapshots!Branches
<1>. QED  BY <1>5, <1>6 DEF Snapshots!Next, Values

\* The versions of a branch, and a new version on top, over unchanged layers that
\* hold nothing of the new one.
Fresh(v, kv, brs) ==
    /\ v \in Nat
    /\ \A b \in DOMAIN brs : \A w \in brs[b] : w < v
    /\ \A k \in Key : v \notin DOMAIN Layers(kv, k)

\* What the versions T of a line of versions S show.
Line(kv, S, T) == [w \in T |-> At(kv, S, w)]

\* Initial part S of a branch, with new version v on top, shows what S showed, and
\* at v what it ended with.
LEMMA OnTopShows ==
  ASSUME NEW n, NEW kv, NEW brs, Shows(n, kv, brs), NEW b \in DOMAIN brs,
         NEW S, Initial(S, brs[b]), NEW v, Fresh(v, kv, brs)
  PROVE  Line(kv, S \cup {v}, S \cup {v}) =
           MapInsert(Line(kv, brs[b], S), v, Snapshots!End(b, S))
<1>1. n \in Nat /\ v \in Nat /\ v \notin S /\ S \in SUBSET (0 .. n) /\ \A w \in S : w < v /\ w \in Int
  BY DEF Initial, Shows, Fresh
<1>2. \A w \in S : At(kv, S \cup {v}, w) = At(kv, brs[b], w)
  <2>1. \A w \in S : UpTo(S \cup {v}, w) = UpTo(S, w)
    BY <1>1 DEF UpTo
  <2>. QED  BY <2>1, InitialUpTo DEF At
<1>3. At(kv, S \cup {v}, v) = Snapshots!End(b, S)
  <2>1. UpTo(S \cup {v}, v) = S \cup {v}
    <3>1. \A w \in S \cup {v} : w <= v
      <4>1. v <= v
        BY <1>1
      <4>2. \A w \in S : w <= v
        BY <1>1
      <4>. QED  BY <4>1, <4>2
    <3>. QED  BY <3>1 DEF UpTo
  <2>2. ASSUME NEW k \in Key
        PROVE  Shown(Layers(kv, k), S \cup {v}) = Shown(Layers(kv, k), S)
    <3>1. DOMAIN Layers(kv, k) \cap (S \cup {v}) = DOMAIN Layers(kv, k) \cap S
      BY DEF Fresh
    <3>. QED  BY <3>1 DEF Shown
  <2>. QED  BY <2>1, <2>2, EndIs DEF At, Holds
<1>. QED  BY <1>1, <1>2, <1>3 DEF MapInsert, Line
-----------------------------------------------------------------------------
\* A new version on top of a branch.
LEMMA CreateVersionShows ==
  ASSUME NEW n, NEW kv, NEW brs, Shows(n, kv, brs), NEW b \in DOMAIN brs,
         NEW v, Fresh(v, kv, brs),
         NEW brs2, brs2 = MapInsert(brs, b, brs[b] \cup {v}),
         content' = ContentOf(kv, brs2)
  PROVE  Snapshots!Rearrange
<1>1. /\ DOMAIN brs2 = DOMAIN brs /\ brs2[b] = brs[b] \cup {v}
      /\ \A c \in DOMAIN brs \ {b} : brs2[c] = brs[c]
  BY DEF MapInsert
<1>2. /\ DOMAIN content = DOMAIN brs /\ DOMAIN content' = DOMAIN brs
      /\ \A c \in DOMAIN brs : DOMAIN content[c] = brs[c]
      /\ DOMAIN content'[b] = brs[b] \cup {v}
  BY <1>1 DEF ContentOf, Shows
<1>3. v \notin brs[b] /\ \A c \in DOMAIN brs : \A w \in brs[c] : w < v
  <2>1. v \in Nat /\ \A c \in DOMAIN brs : \A w \in brs[c] : w < v
    BY DEF Fresh
  <2>2. ~(v < v)
    BY <2>1
  <2>. QED  BY <2>1, <2>2
<1>4. content'[b] = MapInsert(content[b], v, Snapshots!End(b, brs[b]))
  <2>1. content'[b] = Line(kv, brs[b] \cup {v}, brs[b] \cup {v})
    BY <1>1 DEF ContentOf, Line
  <2>2. content[b] = Line(kv, brs[b], brs[b])
    BY DEF ContentOf, Shows, Line
  <2>3. Initial(brs[b], brs[b])
    BY DEF Initial
  <2>4. Line(kv, brs[b] \cup {v}, brs[b] \cup {v}) =
          MapInsert(Line(kv, brs[b], brs[b]), v, Snapshots!End(b, brs[b]))
    BY <2>3, OnTopShows
  <2>. QED  BY <2>1, <2>2, <2>4
<1>5. content' = [content EXCEPT ![b] = MapInsert(@, v, Snapshots!End(b, brs[b]))]
  <2>1. \A c \in DOMAIN brs \ {b} : content'[c] = content[c]
    BY <1>1 DEF ContentOf, Shows
  <2>2. content = [c \in DOMAIN brs |-> content[c]] /\ content' = [c \in DOMAIN brs |-> content'[c]]
    BY <1>1 DEF ContentOf, Shows
  <2>. QED  BY <1>2, <1>4, <2>1, <2>2
<1>6. Snapshots!CreateVersion(b, v)
  <2>1. Snapshots!Newer(v)
    BY <1>2, <1>3 DEF Snapshots!Newer, Snapshots!AllVersions, Snapshots!Versions, Snapshots!Branches
  <2>2. DOMAIN content[b] = brs[b]
    BY <1>2
  <2>. QED  BY <1>5, <2>1, <2>2 DEF Snapshots!CreateVersion, Snapshots!Versions, Snapshots!MapInsert, MapInsert
<1>7. b \in Snapshots!Kept /\ v \in Snapshots!After(b) \ Snapshots!Versions(b)
  BY <1>2, <1>3 DEF Snapshots!Kept, Snapshots!After, Snapshots!Versions, Snapshots!Branches
<1>. QED  BY <1>6, <1>7 DEF Snapshots!Rearrange

\* A new branch m, from an initial part S of branch b, perhaps with a new version
\* on top, and without the branches `gone`.
LEMMA CreateBranchShows ==
  ASSUME NEW n, NEW kv, NEW brs, Shows(n, kv, brs),
         NEW gone, gone = {} \/ \E r \in DOMAIN brs : gone = {r},
         NEW b \in DOMAIN brs \ gone, NEW m, m \notin DOMAIN brs,
         NEW S, Initial(S, brs[b]),
         NEW S2, S2 = S \/ \E v : Fresh(v, kv, brs) /\ S2 = S \cup {v},
         NEW brs2, brs2 = MapInsert(MapRemove(brs, gone), m, S2),
         content' = ContentOf(kv, brs2)
  PROVE  Snapshots!Rearrange
<1>1. /\ DOMAIN brs2 = (DOMAIN brs \ gone) \cup {m} /\ brs2[m] = S2
      /\ \A c \in DOMAIN brs \ gone : brs2[c] = brs[c]
  BY DEF MapInsert, MapRemove, Restrict
<1>2. /\ DOMAIN content = DOMAIN brs /\ DOMAIN content' = DOMAIN brs2
      /\ \A c \in DOMAIN brs : DOMAIN content[c] = brs[c]
      /\ DOMAIN content'[m] = S2
  BY <1>1 DEF ContentOf, Shows
<1>3. \A X : content'[m] = X =>
        content' = Snapshots!MapInsert(Snapshots!Without(gone), m, X)
  <2>1. \A c \in DOMAIN brs \ gone : content'[c] = content[c]
    BY <1>1 DEF ContentOf, Shows
  <2>2. content' = [c \in DOMAIN brs2 |-> content'[c]]
    BY <1>1 DEF ContentOf, Shows
  <2>3. /\ DOMAIN Snapshots!Without(gone) = DOMAIN brs \ gone
        /\ \A c \in DOMAIN brs \ gone : Snapshots!Without(gone)[c] = content[c]
    BY <1>2 DEF Snapshots!Without, Snapshots!Branches, Snapshots!Restrict
  <2>. QED  BY <1>1, <2>1, <2>2, <2>3 DEF Snapshots!MapInsert
<1>4. Snapshots!Restrict(content[b], S) = Line(kv, brs[b], S)
  BY DEF Line, ContentOf, Shows, Restrict, Snapshots!Restrict, Initial
<1>5. Snapshots!CreateBranch(m, b, S, gone)
  <2>1. CASE S2 = S
    <3>1. \A w \in S : At(kv, S, w) = At(kv, brs[b], w)
      BY InitialUpTo DEF At
    <3>2. content'[m] = Line(kv, brs[b], S)
      BY <1>1, <2>1, <3>1 DEF ContentOf, Line
    <3>3. content' = Snapshots!MapInsert(Snapshots!Without(gone), m, Snapshots!Restrict(content[b], S))
      BY <1>3, <1>4, <3>2
    <3>. QED  BY <1>2, <3>3 DEF Snapshots!CreateBranch, Snapshots!Branches
  <2>2. ASSUME NEW v, Fresh(v, kv, brs), S2 = S \cup {v}
        PROVE  Snapshots!CreateBranch(m, b, S, gone)
    <3>1. content'[m] = Line(kv, S \cup {v}, S \cup {v})
      BY <1>1, <2>2 DEF ContentOf, Line
    <3>2. Line(kv, S \cup {v}, S \cup {v}) =
            MapInsert(Line(kv, brs[b], S), v, Snapshots!End(b, S))
      <4>1. b \in DOMAIN brs
        OBVIOUS
      <4>. QED  BY <2>2, <4>1, OnTopShows
    <3>3. content'[m] = Snapshots!MapInsert(Snapshots!Restrict(content[b], S), v, Snapshots!End(b, S))
      BY <1>4, <3>1, <3>2 DEF Snapshots!MapInsert, MapInsert
    <3>4. content' = Snapshots!MapInsert(Snapshots!Without(gone), m,
                       Snapshots!MapInsert(Snapshots!Restrict(content[b], S), v, Snapshots!End(b, S)))
      BY <1>3, <3>3
    <3>5. Snapshots!Newer(v)
      BY <1>2, <2>2 DEF Fresh, Snapshots!Newer, Snapshots!AllVersions, Snapshots!Versions, Snapshots!Branches
    <3>6. v \in DOMAIN content'[m]
      BY <1>2, <2>2
    <3>. QED  BY <1>2, <3>4, <3>5, <3>6 DEF Snapshots!CreateBranch, Snapshots!Branches
  <2>. QED  BY <2>1, <2>2
<1>6. S \in Snapshots!Parts(b)
  BY PartsAre
<1>7. /\ m \in DOMAIN content' \ Snapshots!Branches /\ b \in Snapshots!Branches
      /\ gone \in {{}} \cup {{r} : r \in Snapshots!Branches}
  BY <1>1, <1>2 DEF Snapshots!Branches
<1>. QED  BY <1>5, <1>6, <1>7 DEF Snapshots!Rearrange

\* The target of a merge, an initial part of branch b, becomes b.
LEMMA MergeShows ==
  ASSUME NEW n, NEW kv, NEW brs, Shows(n, kv, brs), NEW b \in DOMAIN brs,
         NEW t \in DOMAIN brs, Initial(brs[t], brs[b]),
         NEW brs2, brs2 = [brs EXCEPT ![t] = brs[b]], DOMAIN brs2 = DOMAIN brs,
         content' = ContentOf(kv, brs2)
  PROVE  Snapshots!Rearrange
<1>1. /\ DOMAIN content = DOMAIN brs /\ DOMAIN content' = DOMAIN brs
      /\ \A c \in DOMAIN brs : DOMAIN content[c] = brs[c]
  BY DEF ContentOf, Shows
<1>2. content' = [content EXCEPT ![t] = content[b]]
  <2>1. \A c \in DOMAIN brs : content'[c] = IF c = t THEN content[b] ELSE content[c]
    BY DEF ContentOf, Shows
  <2>2. content' = [c \in DOMAIN brs |-> content'[c]] /\ content = [c \in DOMAIN brs |-> content[c]]
    BY DEF ContentOf, Shows
  <2>. QED  BY <2>1, <2>2
<1>3. Snapshots!Merge(b, t) /\ b \in Snapshots!Kept /\ t \in Snapshots!Kept
  <2>1. Snapshots!Versions(t) \in Snapshots!Parts(b)
    BY <1>1, PartsAre DEF Snapshots!Versions
  <2>. QED  BY <1>1, <1>2, <2>1 DEF Snapshots!Merge, Snapshots!Kept, Snapshots!Branches
<1>. QED  BY <1>3 DEF Snapshots!Rearrange
-----------------------------------------------------------------------------
\* Over layers kv and kv2 every part of the versions S shows the same.
SameParts(kv, kv2, S) ==
    \A k \in Key, U \in SUBSET S : Shown(Layers(kv2, k), U) = Shown(Layers(kv, k), U)

\* Branches that vanish, others whose content stays; no step of a reader when
\* all stay.
LEMMA RemoveShows ==
  ASSUME NEW n, NEW kv, NEW brs, Shows(n, kv, brs),
         NEW brs2, DOMAIN brs2 \subseteq DOMAIN brs, \A b \in DOMAIN brs2 : brs2[b] = brs[b],
         NEW kv2, \A b \in DOMAIN brs2 : SameParts(kv, kv2, brs[b]),
         content' = ContentOf(kv2, brs2)
  PROVE  Snapshots!Rearrange
<1>1. ASSUME NEW b \in DOMAIN brs2
      PROVE  content'[b] = content[b]
  <2>1. \A v : UpTo(brs[b], v) \in SUBSET brs[b]
    BY DEF UpTo
  <2>2. \A v : At(kv2, brs[b], v) = At(kv, brs[b], v)
    BY <2>1 DEF At, SameParts
  <2>. QED  BY <2>2 DEF ContentOf, Shows
<1>2. /\ DOMAIN content = DOMAIN brs /\ DOMAIN content' = DOMAIN brs2
      /\ content' = [b \in DOMAIN brs2 |-> content'[b]]
  BY DEF ContentOf, Shows
<1>3. content' = Snapshots!Restrict(content, DOMAIN brs2)
  BY <1>1, <1>2 DEF Snapshots!Restrict
<1>4. DOMAIN content \ (DOMAIN content \ (DOMAIN content \cap DOMAIN content')) = DOMAIN brs2
  BY <1>2
<1>5. Snapshots!RemoveBranches(Snapshots!Branches \ Snapshots!Kept)
  BY <1>3, <1>4 DEF Snapshots!RemoveBranches, Snapshots!Without, Snapshots!Branches, Snapshots!Kept
<1>. QED  BY <1>5 DEF Snapshots!Rearrange

\* The versions of a branch are integers.
LEMMA AreIntegers ==
  ASSUME NEW n \in Nat, NEW U \in SUBSET (0 .. n)
  PROVE  U \in SUBSET Int /\ \A w \in U : w \in Int
  OBVIOUS

\* g is f without the value of version v.
Reverted(v, f, g) == DOMAIN g = DOMAIN f \ {v} /\ \A w \in DOMAIN g : g[w] = f[w]

\* The versions of U before v.
Below(U, v) == {w \in U : w < v}

\* Without the value of version v, if there was one, versions U show what they
\* showed, or what the versions before v show.
LEMMA ShownReverted ==
  ASSUME NEW n, NEW U, Ids(n, U), NEW v \in Int, NEW f, NEW g, Reverted(v, f, g)
  PROVE  \/ Shown(g, U \ {v}) = Shown(f, U)
         \/ v \in U /\ Shown(g, U \ {v}) = Shown(f, Below(U, v))
<1> DEFINE W      == U \ {v}
           before == Below(U, v)
<1>0. n \in Nat /\ U \in SUBSET (0 .. n) /\ U \in SUBSET Int /\ \A w \in U : w \in Int
  BY AreIntegers DEF Ids
<1>1. CASE v \notin DOMAIN f \cap U
  <2>1. SameValues(f, U, g, W)
    BY <1>1 DEF SameValues, Reverted
  <2>. QED  BY <2>1, SameShows
<1>2. CASE v \in DOMAIN f \cap U /\ \E w \in DOMAIN f \cap U : v < w
  <2>1. n \in Nat /\ DOMAIN f \cap U \in SUBSET (0 .. n) /\ DOMAIN f \cap U # {}
    BY <1>0, <1>2
  <2>2. PICK m \in DOMAIN f \cap U : \A w \in DOMAIN f \cap U : w <= m
    BY <2>1, MaxInSet
  <2>3. m # v
    <3>1. PICK w \in DOMAIN f \cap U : v < w
      BY <1>2
    <3>2. w \in Int /\ m \in Int /\ w <= m
      BY <1>0, <2>2
    <3>. QED  BY <3>1, <3>2
  <2>4. m \in DOMAIN g \cap W /\ g[m] = f[m]
        /\ \A w \in DOMAIN g \cap W : w <= m
    BY <2>2, <2>3 DEF Reverted
  <2>5. Shown(f, U) = f[m]
    BY <1>0, <2>2, ShownIs
  <2>6. Shown(g, W) = g[m]
    <3>1. W \in SUBSET Int
      BY <1>0
    <3>. QED  BY <2>4, <3>1, ShownIs
  <2>. QED  BY <2>4, <2>5, <2>6
<1>3. CASE v \in DOMAIN f \cap U /\ ~\E w \in DOMAIN f \cap U : v < w
  <2>1. ASSUME NEW w \in DOMAIN f
        PROVE  w \in W <=> w \in before
    <3>1. w \in U => w \in Int
      BY <1>0
    <3>2. w \in U => ~(v < w)
      BY <1>3
    <3>. QED  BY <3>1, <3>2 DEF Below
  <2>2. SameValues(f, before, g, W)
    BY <2>1 DEF SameValues, Reverted
  <2>3. Ids(n, before)
    BY <1>0 DEF Ids, Below
  <2>. HIDE DEF before, W
  <2>4. Shown(f, before) = Shown(g, W)
    BY <2>2, <2>3, SameShows
  <2>. QED  BY <1>3, <2>4 DEF before, W
<1>. QED  BY <1>1, <1>2, <1>3

\* Version v vanishes from all branches, and its values from the layers.
LEMMA RevertShows ==
  ASSUME NEW n, NEW kv, NEW brs, Shows(n, kv, brs), NEW v \in Int,
         NEW c \in DOMAIN brs, v \in brs[c],
         NEW kv2, \A k \in Key : Reverted(v, Layers(kv, k), Layers(kv2, k)),
         NEW brs2, brs2 = [b \in DOMAIN brs |-> brs[b] \ {v}],
         content' = ContentOf(kv2, brs2)
  PROVE  Snapshots!Next
<1>1. /\ DOMAIN content = DOMAIN brs /\ DOMAIN content' = DOMAIN brs
      /\ \A b \in DOMAIN brs : DOMAIN content[b] = brs[b] /\ DOMAIN content'[b] = brs[b] \ {v}
      /\ \A b \in DOMAIN brs : \A w \in brs[b] \ {v} :
           content[b][w] = At(kv, brs[b], w) /\ content'[b][w] = At(kv2, brs[b] \ {v}, w)
  BY DEF ContentOf, Shows
<1>2. n \in Nat /\ \A b \in DOMAIN brs : brs[b] \in SUBSET (0 .. n)
  BY DEF Shows
<1>3. ASSUME NEW b \in DOMAIN brs, NEW w \in brs[b] \ {v}, NEW k \in Key
      PROVE  \/ content'[b][w][k] = content[b][w][k]
             \/ /\ v \in brs[b] /\ v < w
                /\ content'[b][w][k] = Snapshots!End(b, UpTo(brs[b], v - 1))[k]
  <2> DEFINE U == UpTo(brs[b], w)
             f == Layers(kv, k)
             g == Layers(kv2, k)
  <2>1. U \in SUBSET (0 .. n) /\ w \in Int /\ w # v
    BY <1>2 DEF UpTo
  <2>2. UpTo(brs[b] \ {v}, w) = U \ {v}
    BY DEF UpTo
  <2>3. content[b][w][k] = Shown(f, U) /\ content'[b][w][k] = Shown(g, U \ {v})
    <3>1. content[b][w] = At(kv, brs[b], w) /\ content'[b][w] = At(kv2, brs[b] \ {v}, w)
      BY <1>1
    <3>2. content[b][w][k] = Shown(f, U)
      BY <3>1 DEF At
    <3>3. content'[b][w][k] = Shown(g, UpTo(brs[b] \ {v}, w))
      BY <3>1 DEF At
    <3>. HIDE DEF U, f, g
    <3>. QED  BY <2>2, <3>2, <3>3
  <2>4. \/ Shown(g, U \ {v}) = Shown(f, U)
        \/ v \in U /\ Shown(g, U \ {v}) = Shown(f, Below(U, v))
    <3>1. Ids(n, U) /\ Reverted(v, f, g)
      BY <1>2, <2>1 DEF Ids
    <3>. HIDE DEF U, f, g
    <3>. QED  BY <2>1, <3>1, ShownReverted
  <2>5. CASE v \in U /\ Shown(g, U \ {v}) = Shown(f, Below(U, v))
    <3>1. v \in brs[b] /\ v < w
      BY <2>1, <2>5 DEF UpTo
    <3>2. \A x \in brs[b] : x \in Int
      BY <1>2
    <3>3. Below(U, v) = UpTo(brs[b], v - 1)
      BY <2>1, <3>1, <3>2 DEF UpTo, Below
    <3>4. Initial(UpTo(brs[b], v - 1), brs[b])
      BY <3>2 DEF Initial, UpTo
    <3>5. Snapshots!End(b, UpTo(brs[b], v - 1)) = Holds(kv, UpTo(brs[b], v - 1))
      BY <3>4, EndIs
    <3>6. Snapshots!End(b, UpTo(brs[b], v - 1))[k] = Shown(f, UpTo(brs[b], v - 1))
      BY <3>5 DEF Holds
    <3>. QED  BY <2>3, <2>5, <3>1, <3>3, <3>6
  <2>. QED  BY <2>3, <2>4, <2>5
<1>4. Snapshots!Revert(v)
  <2>1. \A b \in DOMAIN content : DOMAIN content[b] = brs[b] /\ b \in DOMAIN brs
    BY <1>1
  <2>2. ASSUME NEW b \in DOMAIN content, NEW w \in DOMAIN content[b] \ {v}, NEW k \in Key
        PROVE  \/ content'[b][w][k] = content[b][w][k]
               \/ /\ {v, w} \subseteq DOMAIN content[b] /\ v < w
                  /\ content'[b][w][k] = Snapshots!End(b, UpTo(DOMAIN content[b], v - 1))[k]
    BY <1>3, <2>1
  <2>3. \A b \in DOMAIN content : DOMAIN content'[b] = DOMAIN content[b] \ {v}
    BY <1>1
  <2>4. DOMAIN content' = DOMAIN content
    BY <1>1
  <2>. QED  BY <2>2, <2>3, <2>4
            DEF Snapshots!Revert, Snapshots!Branches, Snapshots!Versions, Snapshots!UpTo, UpTo
<1>5. v \in Snapshots!AllVersions \ UNION {Snapshots!After(b) : b \in DOMAIN content'}
  <2>1. v \in Snapshots!AllVersions
    BY <1>1 DEF Snapshots!AllVersions, Snapshots!Versions, Snapshots!Branches
  <2>2. \A b \in DOMAIN content' : v \notin Snapshots!After(b)
    BY <1>1 DEF Snapshots!After
  <2>. QED  BY <2>1, <2>2
<1>. QED  BY <1>4, <1>5 DEF Snapshots!Next
-----------------------------------------------------------------------------
\* When versions M are merged into `base`, the initial parts of versions T that
\* have all of them, and those that have none, show over the layers kv2 what they
\* showed over kv.
Merges(kv, kv2, T, base, M) ==
    \A k \in Key, U \in SUBSET T : Initial(U, T) =>
       /\ {base} \cup M \subseteq U =>
            Shown(Layers(kv2, k), U \ M) = Shown(Layers(kv, k), U)
       /\ ({base} \cup M) \cap U = {} =>
            Shown(Layers(kv2, k), U) = Shown(Layers(kv, k), U)

\* The versions of a branch up to one of them are an initial part.
LEMMA UpToInitial ==
  ASSUME NEW n, NEW T, Ids(n, T), NEW v \in Int
  PROVE  Initial(UpTo(T, v), T) /\ UpTo(T, v) \in SUBSET T
<1>1. \A w \in T : w \in Int
  BY AreIntegers DEF Ids
<1>. QED  BY <1>1 DEF Initial, UpTo

\* On a branch where M comes next after `base`, each version that stays shows what
\* it showed, and `base` what the newest of M showed.
LEMMA MergedLine ==
  ASSUME NEW n, NEW T, Ids(n, T), NEW base, NEW M, Follow(T, base, M), M \subseteq T,
         NEW kv, NEW kv2, Merges(kv, kv2, T, base, M),
         NEW h \in M, \A m \in M : m <= h, NEW v \in T \ M
  PROVE  At(kv2, T \ M, v) = At(kv, T, IF v = base THEN h ELSE v)
<1>1. /\ \A w \in T : w \in Int
      /\ base \in T /\ base \notin M
      /\ \A m \in M : base < m
      /\ \A m \in M, w \in T \ M : w <= base \/ m < w
      /\ v \in Int /\ h \in Int /\ h \in T /\ base \in Int
  BY AreIntegers DEF Ids, Follow
<1>2. CASE v = base
  <2> DEFINE U == UpTo(T, h)
  <2>1. {base} \cup M \subseteq U
    BY <1>1 DEF UpTo
  <2>2. U \ M = UpTo(T \ M, base)
    <3>1. ASSUME NEW w \in T \ M
          PROVE  w <= h <=> w <= base
      <4>1. w \in Int /\ base < h /\ (w <= base \/ h < w)
        BY <1>1
      <4>. QED  BY <1>1, <4>1
    <3>. QED  BY <3>1 DEF UpTo
  <2>3. Initial(U, T) /\ U \in SUBSET T
    BY <1>1, UpToInitial
  <2>. HIDE DEF U
  <2>4. \A k \in Key : Shown(Layers(kv2, k), U \ M) = Shown(Layers(kv, k), U)
    BY <2>1, <2>3 DEF Merges
  <2>. QED  BY <1>2, <2>2, <2>4 DEF At, U
<1>3. CASE base < v
  <2> DEFINE U == UpTo(T, v)
  <2>1. {base} \cup M \subseteq U
    <3>1. \A m \in M : m \in T /\ m \in Int /\ m < v
      <4>1. \A m \in M : m \in T /\ m \in Int /\ (v <= base \/ m < v)
        BY <1>1
      <4>. QED  BY <1>1, <1>3, <4>1
    <3>. QED  BY <1>1, <1>3, <3>1 DEF UpTo
  <2>2. U \ M = UpTo(T \ M, v)
    BY DEF UpTo
  <2>3. Initial(U, T) /\ U \in SUBSET T
    BY <1>1, UpToInitial
  <2>. HIDE DEF U
  <2>4. \A k \in Key : Shown(Layers(kv2, k), U \ M) = Shown(Layers(kv, k), U)
    BY <2>1, <2>3 DEF Merges
  <2>5. v # base
    BY <1>1, <1>3
  <2>. QED  BY <2>2, <2>4, <2>5 DEF At, U
<1>4. CASE v < base
  <2> DEFINE U == UpTo(T, v)
  <2>1. \A m \in {base} \cup M : ~(m <= v)
    <3>1. \A m \in M : m \in Int /\ base < m
      BY <1>1
    <3>. QED  BY <1>1, <1>4, <3>1
  <2>2. ({base} \cup M) \cap U = {} /\ U = UpTo(T \ M, v)
    BY <2>1 DEF UpTo
  <2>3. Initial(U, T) /\ U \in SUBSET T
    BY <1>1, UpToInitial
  <2>. HIDE DEF U
  <2>4. \A k \in Key : Shown(Layers(kv2, k), U) = Shown(Layers(kv, k), U)
    BY <2>2, <2>3 DEF Merges
  <2>5. v # base
    BY <1>1, <1>4
  <2>. QED  BY <2>2, <2>4, <2>5 DEF At, U
<1>. QED  BY <1>1, <1>2, <1>3, <1>4

\* On a branch that has nothing of what is merged, every version shows what it
\* showed.
LEMMA OtherLine ==
  ASSUME NEW n, NEW T, Ids(n, T), NEW base, NEW M, ({base} \cup M) \cap T = {},
         NEW kv, NEW kv2, Merges(kv, kv2, T, base, M), NEW v \in T
  PROVE  At(kv2, T, v) = At(kv, T, v)
<1> DEFINE U == UpTo(T, v)
<1>1. Initial(U, T) /\ U \in SUBSET T
  BY UpToInitial, AreIntegers DEF Ids
<1>2. ({base} \cup M) \cap U = {}
  BY DEF UpTo
<1>. HIDE DEF U
<1>3. \A k \in Key : Shown(Layers(kv2, k), U) = Shown(Layers(kv, k), U)
  BY <1>1, <1>2 DEF Merges
<1>. QED  BY <1>3 DEF At, U

\* From layers kv and branches brs to kv2 and brs2 the versions M of the branches
\* B are merged into `base`; the other branches have none of them.
Squashes(B, base, M, kv, brs, kv2, brs2) ==
    /\ B \in SUBSET DOMAIN brs /\ B # {} /\ M # {}
    /\ \A b \in B : M \subseteq brs[b] /\ Follow(brs[b], base, M)
    /\ \A b \in DOMAIN brs \ B : ({base} \cup M) \cap brs[b] = {}
    /\ \A b \in DOMAIN brs : Merges(kv, kv2, brs[b], base, M)
    /\ DOMAIN brs2 = DOMAIN brs
    /\ \A b \in DOMAIN brs : brs2[b] = brs[b] \ M

\* Consecutive versions become one.
LEMMA SquashShows ==
  ASSUME NEW n, NEW kv, NEW brs, Shows(n, kv, brs), NEW kv2, NEW brs2,
         NEW B, NEW base, NEW M, Squashes(B, base, M, kv, brs, kv2, brs2),
         content' = ContentOf(kv2, brs2)
  PROVE  Snapshots!Rearrange
<1>. USE DEF Squashes
<1>c. PICK c \in B : TRUE
  OBVIOUS
<1>0. \A b \in DOMAIN brs : Ids(n, brs[b]) /\ \A v \in brs[b] : v \in Int
  BY AreIntegers DEF Shows, Ids
<1>1. PICK h \in M : \A m \in M : m <= h
  <2>1. n \in Nat /\ M \in SUBSET (0 .. n)
    BY DEF Shows
  <2>. QED  BY <2>1, MaxInSet
<1>2. Snapshots!Max(M) = h
  <2>1. M \in SUBSET Int
    BY <1>0
  <2>2. Max(M) = h
    BY <1>1, <2>1, MaxIs
  <2>. QED  BY <2>2 DEF Max, Snapshots!Max
<1>3. /\ DOMAIN content = DOMAIN brs /\ DOMAIN content' = DOMAIN brs
      /\ \A b \in DOMAIN brs : DOMAIN content[b] = brs[b] /\ DOMAIN content'[b] = brs[b] \ M
  BY DEF ContentOf, Shows
<1>4. ASSUME NEW b \in B
      PROVE  {v \in brs[b] : base <= v /\ v <= h} = {base} \cup M
  <2>1. /\ \A w \in brs[b] : w \in Int
        /\ base \in brs[b] /\ h \in brs[b] /\ M \subseteq brs[b]
        /\ \A m \in M : base < m
        /\ \A w \in brs[b] \ M : w <= base \/ h < w
    BY <1>0 DEF Follow
  <2>2. ASSUME NEW v \in brs[b], base <= v, v <= h
        PROVE  v \in {base} \cup M
    <3>. SUFFICES ASSUME v \notin M
                  PROVE  v = base
      OBVIOUS
    <3>1. v \in Int /\ base \in Int /\ h \in Int /\ (v <= base \/ h < v)
      BY <2>1
    <3>. QED  BY <2>2, <3>1
  <2>3. ASSUME NEW v \in {base} \cup M
        PROVE  v \in brs[b] /\ base <= v /\ v <= h
    <3>1. v \in brs[b] /\ v \in Int /\ base \in Int /\ h \in Int /\ base < h
      BY <2>1
    <3>2. CASE v = base
      BY <3>1, <3>2
    <3>3. CASE v \in M
      <4>1. base < v /\ v <= h
        BY <1>1, <2>1, <3>3
      <4>. QED  BY <3>1, <4>1
    <3>. QED  BY <3>2, <3>3
  <2>. QED  BY <2>2, <2>3
<1>5. ASSUME NEW b \in DOMAIN brs
      PROVE  content'[b] =
               IF b \notin B THEN content[b]
               ELSE [v \in brs[b] \ M |-> content[b][IF v = base THEN h ELSE v]]
  <2>1. content'[b] = [v \in brs[b] \ M |-> At(kv2, brs[b] \ M, v)]
        /\ content[b] = [v \in brs[b] |-> At(kv, brs[b], v)]
    BY DEF ContentOf, Shows
  <2>2. CASE b \notin B
    <3>1. ({base} \cup M) \cap brs[b] = {} /\ brs[b] \ M = brs[b]
      BY <2>2
    <3>2. \A v \in brs[b] : At(kv2, brs[b], v) = At(kv, brs[b], v)
      BY <1>0, <3>1, OtherLine
    <3>. QED  BY <2>1, <2>2, <3>1, <3>2
  <2>3. CASE b \in B
    <3>1. M \subseteq brs[b] /\ Follow(brs[b], base, M) /\ h \in brs[b]
      BY <2>3
    <3>2. \A v \in brs[b] \ M : At(kv2, brs[b] \ M, v) = At(kv, brs[b], IF v = base THEN h ELSE v)
      BY <1>0, <1>1, <3>1, MergedLine
    <3>3. \A v \in brs[b] \ M :
             At(kv2, brs[b] \ M, v) = content[b][IF v = base THEN h ELSE v]
      <4>. SUFFICES ASSUME NEW v \in brs[b] \ M
                    PROVE  At(kv2, brs[b] \ M, v) = content[b][IF v = base THEN h ELSE v]
        OBVIOUS
      <4>1. (IF v = base THEN h ELSE v) \in brs[b]
        BY <3>1
      <4>. QED  BY <2>1, <3>2, <4>1
    <3>4. content'[b] = [v \in brs[b] \ M |-> content[b][IF v = base THEN h ELSE v]]
      <4>. HIDE <2>3
      <4>. QED  BY <2>1, <3>3
    <3>. QED  BY <2>3, <3>4
  <2>. QED  BY <2>2, <2>3
<1>6. Snapshots!Gone(c) = M
  BY <1>3 DEF Snapshots!Gone, Snapshots!Versions, Snapshots!After
<1>7. Snapshots!Squash(B, base, M)
  <2>1. \A b \in B : {v \in DOMAIN content[b] : base <= v /\ v <= Snapshots!Max(M)} = {base} \cup M
    BY <1>2, <1>3, <1>4
  <2>2. \A b \in DOMAIN content \ B : DOMAIN content[b] \cap ({base} \cup M) = {}
    BY <1>3
  <2>3. content' = [b \in DOMAIN content |->
                      IF b \notin B THEN content[b]
                      ELSE [v \in DOMAIN content[b] \ M |->
                              content[b][IF v = base THEN Snapshots!Max(M) ELSE v]]]
    <3>1. content' = [b \in DOMAIN brs |-> content'[b]]
      BY DEF ContentOf
    <3>2. ASSUME NEW b \in DOMAIN content
          PROVE  content'[b] =
                   IF b \notin B THEN content[b]
                   ELSE [v \in DOMAIN content[b] \ M |->
                           content[b][IF v = base THEN Snapshots!Max(M) ELSE v]]
      <4>1. b \in DOMAIN brs /\ DOMAIN content[b] = brs[b]
        BY <1>3
      <4>. QED  BY <1>2, <1>5, <4>1
    <3>. QED  BY <1>3, <3>1, <3>2
  <2>. QED  BY <2>1, <2>2, <2>3 DEF Snapshots!Squash, Snapshots!Branches, Snapshots!Versions
<1>8. B \in SUBSET Snapshots!Kept /\ base \in Snapshots!Versions(c)
  BY <1>3 DEF Snapshots!Kept, Snapshots!Branches, Snapshots!Versions, Follow
<1>. QED  BY <1>6, <1>7, <1>8 DEF Snapshots!Rearrange
-----------------------------------------------------------------------------
(* Each operation is a step of the snapshots.                              *)

\* The state shows its branches over its layers.
LEMMA NowShows ==
  ASSUME TypeOK
  PROVE  Shows(next_ver_id, layered_kv, br_to_its_vers)
<1>1. \A b \in DOMAIN br_to_its_vers : br_to_its_vers[b] \in SUBSET (0 .. next_ver_id)
  BY DEF TypeOK, IsMap, VerIds
<1>. QED  BY <1>1, ContentIs DEF Shows, TypeOK

\* Layers that stay show what they showed.
LEMMA StaySame ==
  ASSUME NEW kv, NEW S
  PROVE  SameParts(kv, kv, S)
  BY DEF SameParts

\* Branches vanish and the layers stay.
LEMMA RemoveRefines ==
  ASSUME TypeOK, NEW S, RemoveBranches(S), UNCHANGED layered_kv
  PROVE  Snapshots!Rearrange
<1>1. /\ DOMAIN br_to_its_vers' \subseteq DOMAIN br_to_its_vers
      /\ \A b \in DOMAIN br_to_its_vers' : br_to_its_vers'[b] = br_to_its_vers[b]
  BY DEF RemoveBranches, MapRemove, Restrict
<1>2. content' = ContentOf(layered_kv, br_to_its_vers')
  BY ContentIsNext
<1>. QED  BY <1>1, <1>2, NowShows, StaySame, RemoveShows

\* Branches vanish, and the values of the versions that are on none.
LEMMA PurgeRefines ==
  ASSUME TypeOK, ChangeSetExact,
         NEW brs, DOMAIN brs \subseteq DOMAIN br_to_its_vers,
         \A b \in DOMAIN brs : brs[b] = br_to_its_vers[b],
         br_to_its_vers' = brs, layered_kv' = PurgedKv(Orphans(brs))
  PROVE  Snapshots!Rearrange
<1> DEFINE O == Orphans(brs)
<1>1. ASSUME NEW b \in DOMAIN brs, NEW k \in Key, NEW U \in SUBSET brs[b]
      PROVE  Shown(Layers(PurgedKv(O), k), U) = Shown(Layers(layered_kv, k), U)
  <2>1. O \in SUBSET DOMAIN ver_to_change_set /\ U \cap O = {}
    BY NoOrphans DEF Orphans
  <2>2. next_ver_id \in Nat /\ U \in SUBSET (0 .. next_ver_id)
    BY NowShows DEF Shows
  <2>. QED  BY <2>1, <2>2, PurgeShows
<1>2. \A b \in DOMAIN brs : SameParts(layered_kv, PurgedKv(O), br_to_its_vers[b])
  BY <1>1 DEF SameParts
<1>3. content' = ContentOf(PurgedKv(O), brs)
  BY ContentIsNext
<1>. HIDE DEF O
<1>. QED  BY <1>2, <1>3, NowShows, RemoveShows

\* A branch goes back.
LEMMA SetVersRefines ==
  ASSUME TypeOK, NEW b, NEW S, SetVers(b, S), Initial(S, Vers(b))
  PROVE  Snapshots!Rearrange
<1>1. /\ b \in DOMAIN br_to_its_vers /\ Vers(b) = br_to_its_vers[b]
      /\ DOMAIN br_to_its_vers' = DOMAIN br_to_its_vers /\ br_to_its_vers'[b] = S
      /\ \A c \in DOMAIN br_to_its_vers \ {b} : br_to_its_vers'[c] = br_to_its_vers[c]
  BY DEF SetVers, Vers, TypeOK, IsMap
<1>2. content' = ContentOf(layered_kv, br_to_its_vers')
  BY ContentIsNext DEF SetVers, data
<1>. QED  BY <1>1, <1>2, NowShows, GoBackStep

\* Inserting and removing write.
LEMMA WriteRefines ==
  ASSUME TypeOK, WriteStep
  PROVE  Snapshots!Next
<1>0. PICK b \in Branches, k \in Key, x \in Values : \E h \in Vers(b) : IsLast(h, Vers(b)) /\ Write(k, x, h)
  BY DEF WriteStep, Insert, Remove, Values
<1>1. PICK h \in Vers(b) : IsLast(h, Vers(b)) /\ Write(k, x, h)
  BY <1>0
<1>2. b \in DOMAIN br_to_its_vers /\ IsLast(h, br_to_its_vers[b])
  BY <1>1 DEF Vers
<1>3. /\ layered_kv' = MapInsert(layered_kv, k, MapInsert(Layers(layered_kv, k), h, x))
      /\ content' = ContentOf(layered_kv', br_to_its_vers)
  BY <1>1, ContentIsNext, KeyVersAreLayers DEF Write
<1>. QED  BY <1>2, <1>3, NowShows, WriteShows

\* The next version id is new to all branches and layers.
LEMMA NextIsFresh ==
  ASSUME TypeOK
  PROVE  Fresh(next_ver_id, layered_kv, br_to_its_vers)
<1>1. next_ver_id \in Nat /\ \A b \in DOMAIN br_to_its_vers :
         \A w \in br_to_its_vers[b] : w < next_ver_id
  BY DEF TypeOK, IsMap, VerIds
<1>2. \A k \in DOMAIN layered_kv : \A v \in DOMAIN layered_kv[k] : v \in Int /\ v < next_ver_id
  BY DEF TypeOK, IsLayers, IsMap, VerIds
<1>3. \A k \in DOMAIN layered_kv : next_ver_id \notin DOMAIN layered_kv[k]
  <2>1. ~(next_ver_id < next_ver_id)
    BY <1>1
  <2>. QED  BY <1>2, <2>1
<1>4. DOMAIN EmptyMap = {}
  BY DEF EmptyMap
<1>. QED  BY <1>1, <1>3, <1>4 DEF Fresh, Layers

\* Creating a version.
LEMMA VersionCreateRefines ==
  ASSUME TypeOK, NEW b, NEW n, VersionCreate(b, n)
  PROVE  Snapshots!Rearrange
<1>1. /\ b \in DOMAIN br_to_its_vers
      /\ br_to_its_vers' = MapInsert(br_to_its_vers, b, br_to_its_vers[b] \cup {next_ver_id})
  BY DEF VersionCreate, AddVersion
<1>2. content' = ContentOf(layered_kv, br_to_its_vers')
  BY ContentIsNext DEF VersionCreate
<1>. QED  BY <1>1, <1>2, NowShows, NextIsFresh, CreateVersionShows

\* Creating a branch.
LEMMA BranchCreateRefines ==
  ASSUME TypeOK, NamesConsistent, NEW n, NEW b, NEW base \in Bases(b), NEW name, NEW force,
         BranchCreate(n, b, base, name, force)
  PROVE  Snapshots!Rearrange
<1> DEFINE gone == Replaced(n, force)
           brs  == MapRemove(br_to_its_vers, gone)
           S    == UNION {UpTo(brs[b], v) : v \in base}
<1>1. /\ b \in DOMAIN brs
      /\ AddVersion(MapInsert(brs, next_br_id, S), next_br_id, name)
      /\ content' = ContentOf(layered_kv, br_to_its_vers')
  BY ContentIsNext DEF BranchCreate
<1>2. gone = {} \/ \E r \in DOMAIN br_to_its_vers : gone = {r}
  <2>1. \A m \in DOMAIN br_name_to_br_id : br_name_to_br_id[m] \in DOMAIN br_to_its_vers
    BY DEF NamesConsistent, Range
  <2>. QED  BY <2>1 DEF Replaced
<1>3. b \in DOMAIN br_to_its_vers \ gone /\ brs[b] = br_to_its_vers[b]
      /\ Vers(b) = br_to_its_vers[b]
  BY <1>1 DEF MapRemove, Restrict, Vers
<1>4. next_br_id \notin DOMAIN br_to_its_vers
  <2>1. next_br_id \notin BrIds
    BY DEF TypeOK, BrIds
  <2>. QED  BY <2>1 DEF TypeOK, IsMap
<1>5. Initial(S, br_to_its_vers[b])
  <2>1. CASE base = {}
    BY <2>1 DEF Initial
  <2>2. CASE \E v \in br_to_its_vers[b] : base = {v}
    <3>1. PICK v \in br_to_its_vers[b] : base = {v}
      BY <2>2
    <3>2. S = UpTo(br_to_its_vers[b], v)
      BY <1>3, <3>1
    <3>3. v \in Int /\ Ids(next_ver_id, br_to_its_vers[b])
      BY <1>3, NowShows, AreIntegers DEF Shows, Ids
    <3>. QED  BY <3>2, <3>3, UpToInitial
  <2>. QED  BY <1>3, <2>1, <2>2 DEF Bases
<1>. HIDE DEF gone, S
<1>6. PICK S2 : /\ S2 = S \/ S2 = S \cup {next_ver_id}
                /\ br_to_its_vers' = MapInsert(brs, next_br_id, S2)
  <2> DEFINE all == MapInsert(brs, next_br_id, S)
  <2>1. \/ br_to_its_vers' = all
        \/ br_to_its_vers' = MapInsert(all, next_br_id, all[next_br_id] \cup {next_ver_id})
    BY <1>1 DEF AddVersion
  <2>2. all[next_br_id] = S
    BY DEF MapInsert
  <2>3. \A X : MapInsert(all, next_br_id, X) = MapInsert(brs, next_br_id, X)
    BY DEF MapInsert
  <2>. HIDE DEF all
  <2>4. CASE br_to_its_vers' = all
    BY <2>4 DEF all
  <2>5. CASE br_to_its_vers' = MapInsert(all, next_br_id, all[next_br_id] \cup {next_ver_id})
    BY <2>2, <2>3, <2>5
  <2>. QED  BY <2>1, <2>4, <2>5
<1>7. S2 = S \/ \E v : Fresh(v, layered_kv, br_to_its_vers) /\ S2 = S \cup {v}
  BY <1>6, NextIsFresh
<1>. QED  BY <1>1, <1>2, <1>3, <1>4, <1>5, <1>6, <1>7, NowShows, CreateBranchShows
-----------------------------------------------------------------------------
\* Reverting a version, also one that is on no branch.
LEMMA RevertRefines ==
  ASSUME TypeOK, ChangeSetExact, NEW v, VersionRevert(v)
  PROVE  Snapshots!Next
<1>1. /\ v \in DOMAIN ver_to_change_set
      /\ layered_kv' = [k \in DOMAIN layered_kv |->
                           IF k \in ver_to_change_set[v]
                           THEN MapRemove(layered_kv[k], {v}) ELSE layered_kv[k]]
      /\ br_to_its_vers' = [b \in DOMAIN br_to_its_vers |-> br_to_its_vers[b] \ {v}]
  BY DEF VersionRevert
<1>2. v \in Int
  BY <1>1 DEF TypeOK, IsMap, VerIds
<1>3. content' = ContentOf(layered_kv', br_to_its_vers')
  BY ContentIsNext
<1>4. ASSUME NEW k \in Key
      PROVE  Reverted(v, Layers(layered_kv, k), Layers(layered_kv', k))
  <2>1. CASE k \in DOMAIN layered_kv /\ k \in ver_to_change_set[v]
    <3>1. Layers(layered_kv', k) = MapRemove(layered_kv[k], {v})
      BY <1>1, <2>1 DEF Layers
    <3>. QED  BY <2>1, <3>1 DEF Reverted, MapRemove, Restrict, Layers
  <2>2. CASE k \in DOMAIN layered_kv /\ k \notin ver_to_change_set[v]
    <3>1. v \notin DOMAIN layered_kv[k]
      BY <1>1, <2>2 DEF ChangeSetExact
    <3>2. Layers(layered_kv', k) = layered_kv[k]
      BY <1>1, <2>2 DEF Layers
    <3>. QED  BY <2>2, <3>1, <3>2 DEF Reverted, Layers
  <2>3. CASE k \notin DOMAIN layered_kv
    <3>1. Layers(layered_kv', k) = EmptyMap /\ Layers(layered_kv, k) = EmptyMap
      BY <1>1, <2>3 DEF Layers
    <3>. QED  BY <3>1 DEF Reverted, EmptyMap
  <2>. QED  BY <2>1, <2>2, <2>3
<1>5. CASE \E c \in DOMAIN br_to_its_vers : v \in br_to_its_vers[c]
  <2>1. PICK c \in DOMAIN br_to_its_vers : v \in br_to_its_vers[c]
    BY <1>5
  <2>. QED  BY <1>1, <1>2, <1>3, <1>4, <2>1, NowShows, RevertShows
<1>6. CASE \A c \in DOMAIN br_to_its_vers : v \notin br_to_its_vers[c]
  <2>1. /\ DOMAIN br_to_its_vers' = DOMAIN br_to_its_vers
        /\ \A b \in DOMAIN br_to_its_vers' : br_to_its_vers'[b] = br_to_its_vers[b]
    BY <1>1, <1>6
  <2>2. ASSUME NEW b \in DOMAIN br_to_its_vers'
        PROVE  SameParts(layered_kv, layered_kv', br_to_its_vers[b])
    <3>. SUFFICES ASSUME NEW k \in Key, NEW U \in SUBSET br_to_its_vers[b]
                  PROVE  Shown(Layers(layered_kv', k), U) = Shown(Layers(layered_kv, k), U)
      BY DEF SameParts
    <3>1. v \notin U
      BY <1>6, <2>1
    <3>2. SameValues(Layers(layered_kv, k), U, Layers(layered_kv', k), U)
      BY <1>4, <3>1 DEF Reverted, SameValues
    <3>3. Ids(next_ver_id, U)
      BY <2>1, NowShows DEF Shows, Ids
    <3>. QED  BY <3>2, <3>3, SameShows
  <2>. QED  BY <1>3, <2>1, <2>2, NowShows, RemoveShows DEF Snapshots!Next
<1>. QED  BY <1>5, <1>6

\* Popping and truncating.
LEMMA BackRefines ==
  ASSUME TypeOK, NEW b,
         \/ VersionPop(b) \/ BranchTruncate(b)
         \/ \E v \in KnownVersions : BranchTruncateTo(b, v)
  PROVE  Snapshots!Rearrange
<1>0. Ids(next_ver_id, Vers(b)) /\ \A v \in Vers(b) : v \in Int
  BY VersNumbers DEF Ids
<1>1. CASE VersionPop(b)
  <2>1. PICK h \in Vers(b) : IsLast(h, Vers(b)) /\ SetVers(b, Vers(b) \ {h})
    BY <1>1 DEF VersionPop
  <2>2. Initial(Vers(b) \ {h}, Vers(b))
    <3>1. \A v \in Vers(b) \ {h}, w \in Vers(b) : w <= v => w # h
      <4>1. \A v \in Vers(b) \ {h} : v <= h /\ v # h /\ v \in Int /\ h \in Int
        BY <1>0, <2>1 DEF IsLast
      <4>2. \A v \in Vers(b) \ {h} : ~(h <= v)
        BY <4>1
      <4>. QED  BY <4>2
    <3>. QED  BY <3>1 DEF Initial
  <2>. QED  BY <2>1, <2>2, SetVersRefines
<1>2. CASE BranchTruncate(b)
  <2>1. Initial({}, Vers(b))
    BY DEF Initial
  <2>. QED  BY <1>2, <2>1, SetVersRefines DEF BranchTruncate
<1>3. ASSUME NEW v \in KnownVersions, BranchTruncateTo(b, v)
      PROVE  Snapshots!Rearrange
  <2>1. v \in Int
    BY DEF KnownVersions, Range, TypeOK, IsMap, VerIds
  <2>2. Initial(UpTo(Vers(b), v), Vers(b))
    BY <1>0, <2>1, UpToInitial
  <2>. QED  BY <1>3, <2>2, SetVersRefines DEF BranchTruncateTo
<1>. QED  BY <1>1, <1>2, <1>3

\* A safe merge.
LEMMA MergeRefines ==
  ASSUME TypeOK, SharedHistory, NEW b, NEW t, BranchMergeTo(b, t)
  PROVE  Snapshots!Rearrange
<1>1. SetVers(t, Vers(b)) /\ Vers(t) \subseteq Vers(b)
  BY SafeMerge
<1>2. /\ b \in DOMAIN br_to_its_vers /\ t \in DOMAIN br_to_its_vers
      /\ Vers(b) = br_to_its_vers[b] /\ Vers(t) = br_to_its_vers[t]
      /\ br_to_its_vers' = [br_to_its_vers EXCEPT ![t] = br_to_its_vers[b]]
      /\ UNCHANGED layered_kv
  BY <1>1 DEF BranchMergeTo, BranchMergeToForce, SetVers, Vers, data
<1>3. Initial(br_to_its_vers[t], br_to_its_vers[b])
  <2>1. ASSUME NEW v \in Vers(t), NEW w \in Vers(b), w <= v
        PROVE  w \in Vers(t)
    <3>1. UpTo(Vers(b), v) = UpTo(Vers(t), v)
      BY <1>1, <1>2 DEF SharedHistory
    <3>. QED  BY <2>1, <3>1 DEF UpTo
  <2>. QED  BY <1>1, <1>2, <2>1 DEF Initial
<1>4. content' = ContentOf(layered_kv, br_to_its_vers')
  BY <1>2, ContentIsNext
<1>. QED  BY <1>2, <1>3, <1>4, NowShows, MergeShows

\* Of an initial part that has `base`, M still comes next after it.
LEMMA FollowPart ==
  ASSUME NEW T, NEW base, NEW M, Follow(T, base, M), NEW U \in SUBSET T, base \in U
  PROVE  Follow(U, base, M)
  BY DEF Follow

\* A rebase.
LEMMA RebaseRefines ==
  ASSUME TypeOK, ChangeSetExact, NEW b, NEW base, RebaseDuty(b, base), VersionRebase(b, base)
  PROVE  Snapshots!Rearrange
<1> DEFINE M == Newer(b, base)
<1>1. /\ b \in DOMAIN br_to_its_vers
      /\ M \subseteq Vers(b) /\ Follow(Vers(b), base, M)
      /\ \A c \in DOMAIN br_to_its_vers \ {b} : M \cap Vers(c) = {} /\ base \notin Vers(c)
      /\ Vers(b)' = Vers(b) \ M
      /\ \A c \in DOMAIN br_to_its_vers \ {b} : Vers(c)' = Vers(c)
      /\ DOMAIN br_to_its_vers' = DOMAIN br_to_its_vers
  BY RebasePlace
<1>2. \A c \in DOMAIN br_to_its_vers : Vers(c) = br_to_its_vers[c] /\ Vers(c)' = br_to_its_vers'[c]
  BY <1>1 DEF Vers
<1>3. \A k : Layers(layered_kv', k) =
               MergeInto(Layers(layered_kv, k), M \cap DOMAIN Layers(layered_kv, k), base)
  BY RebaseValues, KeyVersAreLayers
<1>4. content' = ContentOf(layered_kv', br_to_its_vers')
  BY ContentIsNext
<1>. HIDE DEF M
<1>5. \A c \in DOMAIN br_to_its_vers : br_to_its_vers'[c] = br_to_its_vers[c] \ M
  BY <1>1, <1>2
<1>6. CASE M = {}
  <2>1. \A k : Layers(layered_kv', k) = Layers(layered_kv, k)
    BY <1>3, <1>6 DEF MergeInto
  <2>2. \A c \in DOMAIN br_to_its_vers :
          SameParts(layered_kv, layered_kv', br_to_its_vers[c]) /\ br_to_its_vers'[c] = br_to_its_vers[c]
    BY <1>5, <1>6, <2>1 DEF SameParts
  <2>. QED  BY <1>1, <1>4, <2>2, NowShows, RemoveShows
<1>7. CASE M # {}
  <2>1. ASSUME NEW c \in DOMAIN br_to_its_vers
        PROVE  Merges(layered_kv, layered_kv', br_to_its_vers[c], base, M)
    <3> DEFINE T == br_to_its_vers[c]
    <3>0. next_ver_id \in Nat /\ T \in SUBSET (0 .. next_ver_id)
      BY NowShows DEF Shows
    <3>1. Follow(T, base, M) \/ base \notin T
      BY <1>1, <1>2
    <3>. HIDE DEF T
    <3>2. ASSUME NEW k \in Key, NEW U \in SUBSET T, {base} \cup M \subseteq U
          PROVE  Shown(Layers(layered_kv', k), U \ M) = Shown(Layers(layered_kv, k), U)
      <4>1. Follow(U, base, M)
        BY <3>1, <3>2, FollowPart
      <4> DEFINE f    == Layers(layered_kv, k)
                 from == M \cap DOMAIN f
      <4>2. Taken(from, M, f, U) /\ Ids(next_ver_id, U)
        BY <3>0, <3>2 DEF Taken, Ids
      <4>3. Layers(layered_kv', k) = MergeInto(f, from, base)
        BY <1>3
      <4>. HIDE DEF f, from
      <4>4. Shown(MergeInto(f, from, base), U \ M) = Shown(f, U)
        BY <4>1, <4>2, ShownMoved
      <4>. QED  BY <4>3, <4>4 DEF f
    <3>3. ASSUME NEW k \in Key, NEW U \in SUBSET T, ({base} \cup M) \cap U = {}
          PROVE  Shown(Layers(layered_kv', k), U) = Shown(Layers(layered_kv, k), U)
      <4> DEFINE f    == Layers(layered_kv, k)
                 from == M \cap DOMAIN f
      <4>1. from \cap U = {} /\ base \notin U /\ U \in SUBSET (0 .. next_ver_id)
        BY <3>0, <3>3
      <4>2. Layers(layered_kv', k) = MergeInto(f, from, base)
        BY <1>3
      <4>. HIDE DEF f, from
      <4>3. Shown(MergeInto(f, from, base), U) = Shown(f, U)
        BY <3>0, <4>1, ShownElsewhere
      <4>. QED  BY <4>2, <4>3 DEF f
    <3>. QED  BY <3>2, <3>3 DEF Merges, T
  <2>2. /\ {b} \in SUBSET DOMAIN br_to_its_vers /\ b \in {b}
        /\ \A c \in {b} : M \subseteq br_to_its_vers[c] /\ Follow(br_to_its_vers[c], base, M)
        /\ \A c \in DOMAIN br_to_its_vers \ {b} : ({base} \cup M) \cap br_to_its_vers[c] = {}
    BY <1>1, <1>2
  <2>3. Squashes({b}, base, M, layered_kv, br_to_its_vers, layered_kv', br_to_its_vers')
    BY <1>1, <1>5, <1>7, <2>1, <2>2 DEF Squashes
  <2>. QED  BY <1>4, <2>3, NowShows, SquashShows
<1>. QED  BY <1>6, <1>7
-----------------------------------------------------------------------------
\* A prune that merges versions.
LEMMA PruneRefines ==
  ASSUME TypeOK, HaveChangeSets, ChangeSetExact, NEW n \in Nat,
         NEW M, M = Mergeable((1 + n) % (USIZE_MAX + 1)), M # {},
         NEW base, base = Min(SharedVers), PruneInto(M, base)
  PROVE  Snapshots!Rearrange
<1> DEFINE B == {b \in DOMAIN br_to_its_vers : br_to_its_vers[b] # {}}
<1>1. \A b \in DOMAIN br_to_its_vers : Vers(b) = br_to_its_vers[b]
  BY DEF Vers
<1>2. ASSUME NEW b \in B
      PROVE  /\ M \in SUBSET SharedVers /\ base \in SharedVers \ M
             /\ M \subseteq br_to_its_vers[b]
             /\ \A v \in br_to_its_vers[b] : base <= v
             /\ Follow(br_to_its_vers[b], base, M)
  <2>1. Vers(b) # {} /\ Vers(b) = br_to_its_vers[b]
    BY <1>1
  <2>. QED  BY <2>1, PrunePlace
<1>3. B # {}
  <2>1. M \subseteq SharedVers /\ SharedVers \subseteq AllVers(br_to_its_vers)
    BY SharedVersType DEF Mergeable
  <2>2. PICK v : v \in AllVers(br_to_its_vers)
    BY <2>1
  <2>. QED  BY <2>2 DEF AllVers, Range
<1>4. /\ DOMAIN br_to_its_vers' = DOMAIN br_to_its_vers
      /\ \A b \in DOMAIN br_to_its_vers : br_to_its_vers'[b] = br_to_its_vers[b] \ M
  BY DEF PruneInto
<1>5. ASSUME NEW b \in DOMAIN br_to_its_vers
      PROVE  Merges(layered_kv, layered_kv', br_to_its_vers[b], base, M)
  <2> DEFINE T == br_to_its_vers[b]
  <2>1. CASE T = {}
    <3>1. ASSUME NEW k \in Key, NEW U \in SUBSET T
          PROVE  ~({base} \cup M \subseteq U)
                 /\ Shown(Layers(layered_kv', k), U) = Shown(Layers(layered_kv, k), U)
      <4>1. U = {}
        BY <2>1
      <4>. QED  BY <4>1 DEF Shown
    <3>. QED  BY <3>1 DEF Merges
  <2>2. CASE T # {}
    <3>1. /\ M \in SUBSET SharedVers /\ base \in SharedVers \ M
          /\ \A v \in T : base <= v
          /\ Follow(T, base, M)
      BY <1>2, <2>2
    <3>2. next_ver_id \in Nat /\ T \in SUBSET (0 .. next_ver_id)
      BY NowShows DEF Shows
    <3>3. T \cap Orphans(br_to_its_vers) = {}
      BY NoOrphans
    <3>. HIDE DEF T
    <3>4. ASSUME NEW k \in Key, NEW U \in SUBSET T, {base} \cup M \subseteq U
          PROVE  Shown(Layers(layered_kv', k), U \ M) = Shown(Layers(layered_kv, k), U)
      <4>1. Follow(U, base, M)
        BY <3>1, <3>4, FollowPart
      <4>2. /\ U \in SUBSET (0 .. next_ver_id) /\ U \cap Orphans(br_to_its_vers) = {}
            /\ M \subseteq U /\ \A v \in U : base <= v
        BY <3>1, <3>2, <3>3, <3>4
      <4>3. Lowest(next_ver_id, U, base, M)
        BY <3>2, <4>1, <4>2 DEF Lowest, Ids
      <4>. QED  BY <3>1, <4>2, <4>3, PruneShows
    <3>5. ASSUME NEW k \in Key, NEW U \in SUBSET T, Initial(U, T), ({base} \cup M) \cap U = {}
          PROVE  Shown(Layers(layered_kv', k), U) = Shown(Layers(layered_kv, k), U)
      <4>1. base \in T
        BY <3>1 DEF Follow
      <4>2. U = {}
        BY <3>1, <3>5, <4>1 DEF Initial
      <4>. QED  BY <4>2 DEF Shown
    <3>. QED  BY <3>4, <3>5 DEF Merges, T
  <2>. QED  BY <2>1, <2>2
<1>6. content' = ContentOf(layered_kv', br_to_its_vers')
  BY ContentIsNext
<1>7. \A b \in DOMAIN br_to_its_vers \ B : ({base} \cup M) \cap br_to_its_vers[b] = {}
  OBVIOUS
<1>8. B \in SUBSET DOMAIN br_to_its_vers
  OBVIOUS
<1>. HIDE DEF B
<1>9. Squashes(B, base, M, layered_kv, br_to_its_vers, layered_kv', br_to_its_vers')
  BY <1>2, <1>3, <1>4, <1>5, <1>7, <1>8 DEF Squashes
<1>. QED  BY <1>6, <1>9, NowShows, SquashShows

\* Clean-up, keep_only, prune and rebase.
LEMMA CompactRefines ==
  ASSUME TypeOK, HaveChangeSets, ChangeSetExact, CompactStep
  PROVE  Snapshots!Rearrange
<1>1. ASSUME CleanUp
      PROVE  Snapshots!Rearrange
  BY <1>1, PurgeRefines DEF CleanUp, Purge
<1>2. ASSUME NEW keep, BranchKeepOnly(keep)
      PROVE  Snapshots!Rearrange
  <2> DEFINE brs == MapRemove(br_to_its_vers, DOMAIN br_id_to_br_name \ keep)
  <2>1. br_to_its_vers' = brs /\ layered_kv' = PurgedKv(Orphans(brs))
    BY <1>2 DEF BranchKeepOnly, RemoveBranches, Purge
  <2>2. DOMAIN brs \subseteq DOMAIN br_to_its_vers /\ \A b \in DOMAIN brs : brs[b] = br_to_its_vers[b]
    BY DEF MapRemove, Restrict
  <2>. HIDE DEF brs
  <2>. QED  BY <2>1, <2>2, PurgeRefines
<1>3. ASSUME NEW n \in 0 .. USIZE_MAX, Prune(n)
      PROVE  Snapshots!Rearrange
  <2> DEFINE M == Mergeable((1 + n) % (USIZE_MAX + 1))
             base == Min(SharedVers)
  <2>1. CASE M = {}
    BY <1>1, <1>3, <2>1 DEF Prune
  <2>2. CASE M # {}
    <3>1. PruneInto(M, base)
      BY <1>3, <2>2 DEF Prune
    <3>2. n \in Nat /\ M = Mergeable((1 + n) % (USIZE_MAX + 1)) /\ base = Min(SharedVers)
      BY NumberAssumption
    <3>. HIDE DEF M, base
    <3>. QED  BY <2>2, <3>1, <3>2, PruneRefines
  <2>. QED  BY <2>1, <2>2
<1>. QED  BY <1>1, <1>2, <1>3, RebaseRefines DEF CompactStep

\* Removing a branch.
LEMMA BranchRemoveRefines ==
  ASSUME TypeOK, NEW b, BranchRemove(b)
  PROVE  Snapshots!Rearrange
  BY RemoveRefines DEF BranchRemove, data

\* Clearing.
LEMMA ClearRefines ==
  ASSUME Clear
  PROVE  Snapshots!Rearrange
<1>1. Snapshots!Init'
  BY DEF Clear, Snapshots!Init, content, INITIAL_BRANCH_ID, MapInsert, EmptyMap,
         Snapshots!MapInsert, Snapshots!EmptyMap
<1>. QED  BY <1>1 DEF Snapshots!Rearrange

\* Taking versions off branches, removing branches, clearing.
LEMMA DropRefines ==
  ASSUME TypeOK, ChangeSetExact, DropStep
  PROVE  Snapshots!Next
<1>1. ASSUME NEW n, BranchCreateFails(n)
      PROVE  Snapshots!Rearrange
  BY <1>1, RemoveRefines DEF BranchCreateFails, data
<1>2. Snapshots!Rearrange => Snapshots!Next
  BY DEF Snapshots!Next
<1>. QED  BY <1>1, <1>2, BranchRemoveRefines, ClearRefines, BackRefines, RevertRefines
          DEF DropStep

\* Creating versions and branches.
LEMMA CreateRefines ==
  ASSUME TypeOK, NamesConsistent, CreateStep
  PROVE  Snapshots!Rearrange
  BY VersionCreateRefines, BranchCreateRefines DEF CreateStep

\* Every step of the store is a step of the snapshots, or none of theirs.
LEMMA NextRefines ==
  ASSUME DataInv, SharedHistory, [Next]_vars
  PROVE  [Snapshots!Next]_content
<1>. USE DEF DataInv, VersionsKnown
<1>1. CASE UNCHANGED vars \/ RenameStep \/ Restart
  <2>1. UNCHANGED <<layered_kv, br_to_its_vers>>
    BY <1>1 DEF vars, data, RenameStep, BranchSetDefault, BranchSwap, Restart
  <2>2. content' = content
    BY <2>1, ContentIs, ContentIsNext
  <2>. QED  BY <2>2
<1>2. CASE MergeStep
  <2>1. PICK b \in Branches, t \in Branches : BranchMergeTo(b, t)
    BY <1>2 DEF MergeStep
  <2>. QED  BY <2>1, MergeRefines DEF Snapshots!Next
<1>3. CASE WriteStep
  BY <1>3, WriteRefines
<1>4. CASE CreateStep
  BY <1>4, CreateRefines DEF Snapshots!Next
<1>5. CASE DropStep
  BY <1>5, DropRefines
<1>6. CASE CompactStep
  BY <1>6, CompactRefines DEF Snapshots!Next
<1>. QED  BY <1>1, <1>2, <1>3, <1>4, <1>5, <1>6 DEF Next

\* Layers, change sets, clean-up, prune, rebase and merges of version sets
\* behave to a reader like a line of full snapshots per branch.
THEOREM SnapshotsImplemented == Spec => ImplementsSnapshots
<1>1. Init => Snapshots!Init
  BY InitContent
<1>2. DataInv /\ SharedHistory /\ [Next]_vars => [Snapshots!Next]_content
  BY NextRefines
<1>. QED  BY <1>1, <1>2, DataInvariant, SpecIsUnsafe, SharedHistoryHolds, PTL
          DEF Spec, ImplementsSnapshots, Snapshots!Spec
=============================================================================
