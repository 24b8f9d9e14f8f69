------------------------------ MODULE MapxRawVs ------------------------------
(***************************************************************************)
(* The version-control engine of vsdb: a map whose content is kept per     *)
(* version, with git-like branches over the versions                       *)
(* (core/src/versioned/mapx_raw/backend.rs, with the name resolution of    *)
(* core/src/versioned/mapx_raw/mod.rs).                                    *)
(*                                                                         *)
(* A branch is a set of version ids.  A version holds only the keys that   *)
(* were written while it was the newest of its branch, so the content of   *)
(* version v of branch b is, for each key, the value of the newest version *)
(* of b that is not newer than v and has one.  Version ids are allocated   *)
(* in ascending order and shared by all branches.                          *)
(*                                                                         *)
(* One action is one call of the API.  A call that fails without a change  *)
(* of state is no step; a call that fails after one has an action of its   *)
(* own.                                                                    *)
(***************************************************************************)
EXTENDS Maps, Integers, FiniteSets, FiniteSetsExt

CONSTANTS
    Key,          \* the raw keys
    Value,        \* the raw values that are not empty
    NULL,         \* the empty value `[]`: stored, it means "deleted"; returned, "none"
    BrName,       \* the names of branches
    VerName,      \* the names of versions
    MASTER,       \* INITIAL_BRANCH_NAME
    USIZE_MAX,    \* usize::MAX, the greatest number of versions a prune can reserve
    MaxBrId,      \* bound: the greatest branch id allocated
    MaxVerId      \* bound: the greatest version id allocated

ASSUME NullAssumption   == NULL \notin Value
ASSUME MasterAssumption == MASTER \in BrName
ASSUME NumberAssumption == /\ USIZE_MAX \in Nat
                           /\ MaxBrId \in Nat
                           /\ MaxVerId \in Nat

VARIABLES
    default_branch,      \* id of the branch the unqualified operations use
    br_name_to_br_id,    \* on disk: branch name -> branch id
    ver_name_to_ver_id,  \* on disk: version name -> version id
    br_to_its_vers,      \* on disk: branch id -> the version ids on it
    layered_kv,          \* on disk: key -> version id -> value
    br_id_to_br_name,    \* in memory: branch id -> branch name
    ver_id_to_ver_name,  \* in memory: version id -> version name
    ver_to_change_set,   \* in memory: version id -> the keys it changed
    next_br_id,          \* the allocator of branch ids
    next_ver_id          \* the allocator of version ids

brNames  == <<br_name_to_br_id, br_id_to_br_name>>
verNames == <<ver_name_to_ver_id, ver_id_to_ver_name>>
data     == <<layered_kv, ver_to_change_set>>
vars     == <<default_branch, brNames, verNames, br_to_its_vers, data,
              next_br_id, next_ver_id>>

INITIAL_BRANCH_ID == 0

-----------------------------------------------------------------------------
(***************************************************************************)
(* Reading.                                                                *)
(***************************************************************************)
\* The versions of branch b; those of S that are not newer than v.
Vers(b)    == IF b \in DOMAIN br_to_its_vers THEN br_to_its_vers[b] ELSE {}
UpTo(S, v) == {w \in S : w <= v}

\* The versions on some branch of `brs`.
AllVers(brs) == UNION Range(brs)

\* h is the newest version of S: `vers.last()`.
IsLast(h, S) == h \in S /\ \A v \in S : v <= h

KeyVers(k) == IF k \in DOMAIN layered_kv THEN layered_kv[k] ELSE EmptyMap

\* get_by_branch_version: NULL stands for None.
Get(k, b, v) ==
    LET found == UpTo(DOMAIN KeyVers(k) \cap Vers(b), v)
    IN  IF found = {} THEN NULL ELSE KeyVers(k)[Max(found)]

\* get_by_branch: the read at the newest version.
GetByBranch(k, b) == IF Vers(b) = {} THEN NULL ELSE Get(k, b, Max(Vers(b)))

\* The branches an operation can be asked to work on: the default one, and
\* those a name resolves to.  The default branch may have been removed.
Branches == Range(br_name_to_br_id) \cup {default_branch}

-----------------------------------------------------------------------------
Init ==
    /\ default_branch = INITIAL_BRANCH_ID
    /\ br_name_to_br_id = MapInsert(EmptyMap, MASTER, INITIAL_BRANCH_ID)
    /\ br_id_to_br_name = MapInsert(EmptyMap, INITIAL_BRANCH_ID, MASTER)
    /\ br_to_its_vers = MapInsert(EmptyMap, INITIAL_BRANCH_ID, {})
    /\ ver_name_to_ver_id = EmptyMap
    /\ ver_id_to_ver_name = EmptyMap
    /\ layered_kv = EmptyMap
    /\ ver_to_change_set = EmptyMap
    /\ next_br_id = INITIAL_BRANCH_ID + 1
    /\ next_ver_id = 0

\* Empties the instance and creates the initial branch again; the allocators
\* are shared by the whole database and keep their values.
Clear ==
    /\ default_branch' = INITIAL_BRANCH_ID
    /\ br_name_to_br_id' = MapInsert(EmptyMap, MASTER, INITIAL_BRANCH_ID)
    /\ br_id_to_br_name' = MapInsert(EmptyMap, INITIAL_BRANCH_ID, MASTER)
    /\ br_to_its_vers' = MapInsert(EmptyMap, INITIAL_BRANCH_ID, {})
    /\ ver_name_to_ver_id' = EmptyMap
    /\ ver_id_to_ver_name' = EmptyMap
    /\ layered_kv' = EmptyMap
    /\ ver_to_change_set' = EmptyMap
    /\ UNCHANGED <<next_br_id, next_ver_id>>

\* The change sets that follow from what is on disk.
DerivedChangeSets(brs, kv) ==
    [v \in AllVers(brs) \cup (UNION {DOMAIN kv[k] : k \in DOMAIN kv}) |->
        {k \in DOMAIN kv : v \in DOMAIN kv[k]}]

\* The instance is serialized and read back by a later process: the maps in
\* memory are derived from those on disk.
Restart ==
    /\ br_id_to_br_name' = AntiFunction(br_name_to_br_id)
    /\ ver_id_to_ver_name' = AntiFunction(ver_name_to_ver_id)
    /\ ver_to_change_set' = DerivedChangeSets(br_to_its_vers, layered_kv)
    /\ UNCHANGED <<default_branch, br_name_to_br_id, ver_name_to_ver_id,
                   br_to_its_vers, layered_kv, next_br_id, next_ver_id>>

(***************************************************************************)
(* Writing: always to the newest version h of the branch.                  *)
(***************************************************************************)
\* The value is stored first; a version without change set would make the
\* call fail after that, and leave the change sets as they are.
Write(k, v, h) ==
    /\ layered_kv' = MapInsert(layered_kv, k, MapInsert(KeyVers(k), h, v))
    /\ ver_to_change_set' = [ver_to_change_set EXCEPT ![h] = @ \cup {k}]
    /\ UNCHANGED <<default_branch, brNames, verNames, br_to_its_vers,
                   next_br_id, next_ver_id>>

\* Faulty variant of Insert: into the oldest version.
InsertOldest(b, k, v) == \E h \in Vers(b) : h = Min(Vers(b)) /\ Write(k, v, h)

\* Inserting the empty value marks the key deleted, whether or not it exists.
Insert(b, k, v) == \E h \in Vers(b) : IsLast(h, Vers(b)) /\ Write(k, v, h)

\* Removing a key that does not exist changes nothing.
Remove(b, k) == \E h \in Vers(b) : /\ IsLast(h, Vers(b))
                                   /\ Get(k, b, h) # NULL
                                   /\ Write(k, NULL, h)

(***************************************************************************)
(* Versions.                                                               *)
(***************************************************************************)
\* Faulty variant of AddVersion: the id is not taken from the allocator.
AddVersionSameId(brs, b, name) ==
    \E n \in name :
      /\ n \notin DOMAIN ver_name_to_ver_id
      /\ br_to_its_vers' = MapInsert(brs, b, brs[b] \cup {next_ver_id})
      /\ ver_name_to_ver_id' = MapInsert(ver_name_to_ver_id, n, next_ver_id)
      /\ ver_id_to_ver_name' = MapInsert(ver_id_to_ver_name, next_ver_id, n)
      /\ ver_to_change_set' = MapInsert(ver_to_change_set, next_ver_id, {})
      /\ UNCHANGED next_ver_id

\* version_create_by_branch on the branches `brs`: `name` is the new version
\* as a set of at most one name, empty when no version is asked for.
AddVersion(brs, b, name) ==
    \/ /\ name = {}
       /\ br_to_its_vers' = brs
       /\ UNCHANGED <<verNames, ver_to_change_set, next_ver_id>>
    \/ \E n \in name :
         /\ n \notin DOMAIN ver_name_to_ver_id
         /\ next_ver_id <= MaxVerId
         /\ br_to_its_vers' = MapInsert(brs, b, brs[b] \cup {next_ver_id})
         /\ ver_name_to_ver_id' = MapInsert(ver_name_to_ver_id, n, next_ver_id)
         /\ ver_id_to_ver_name' = MapInsert(ver_id_to_ver_name, next_ver_id, n)
         /\ ver_to_change_set' = MapInsert(ver_to_change_set, next_ver_id, {})
         /\ next_ver_id' = next_ver_id + 1

VersionCreate(b, n) ==
    /\ b \in DOMAIN br_to_its_vers
    /\ AddVersion(br_to_its_vers, b, {n})
    /\ UNCHANGED <<default_branch, brNames, layered_kv, next_br_id>>

\* Sets the versions of branch b; nothing else changes.
SetVers(b, S) ==
    /\ b \in DOMAIN br_to_its_vers
    /\ br_to_its_vers' = [br_to_its_vers EXCEPT ![b] = S]
    /\ UNCHANGED <<default_branch, brNames, verNames, data,
                   next_br_id, next_ver_id>>

VersionPop(b) ==
    \E h \in Vers(b) : IsLast(h, Vers(b)) /\ SetVers(b, Vers(b) \ {h})

\* Faulty variants of MergeInto: the oldest value remains; a value that `to`
\* already has remains.
MergeOldest(kvers, from, to) ==
    IF from \cap DOMAIN kvers = {} THEN kvers
    ELSE MapInsert(MapRemove(kvers, from), to, kvers[Min(from \cap DOMAIN kvers)])
MergeIfAbsent(kvers, from, to) ==
    IF to \in DOMAIN kvers \/ from \cap DOMAIN kvers = {} THEN MapRemove(kvers, from)
    ELSE MapInsert(MapRemove(kvers, from), to, kvers[Max(from \cap DOMAIN kvers)])

\* The values that the versions `from` hold move to the version `to`, the
\* newest last, so that the newest remains.
MergeInto(kvers, from, to) ==
    IF from \cap DOMAIN kvers = {} THEN kvers
    ELSE MapInsert(MapRemove(kvers, from), to, kvers[Max(from \cap DOMAIN kvers)])

\* The keys that some version of S changed.
Changed(S) == UNION {ver_to_change_set[v] : v \in S}

\* Faulty variant of ForgetVersions: in the map in memory only.
ForgetIdsOnly(S) ==
    /\ ver_id_to_ver_name' = MapRemove(ver_id_to_ver_name, S)
    /\ UNCHANGED ver_name_to_ver_id

\* Names of versions S are forgotten, in both maps.
ForgetVersions(S) ==
    /\ ver_id_to_ver_name' = MapRemove(ver_id_to_ver_name, S)
    /\ ver_name_to_ver_id' =
         MapRemove(ver_name_to_ver_id, {ver_id_to_ver_name[v] : v \in S})

Newer(b, base) == {v \in Vers(b) : v > base}

\* version_rebase_by_branch: everything newer than `base` moves into it.
VersionRebase(b, base) ==
    LET newer == Newer(b, base)
    IN  /\ base \in Vers(b)
        /\ newer \subseteq DOMAIN ver_to_change_set
        /\ layered_kv' =
             [k \in DOMAIN layered_kv |->
                MergeInto(layered_kv[k],
                          {v \in newer : k \in ver_to_change_set[v]}, base)]
        /\ ver_to_change_set' =
             [v \in DOMAIN ver_to_change_set \ newer |->
                IF v = base THEN ver_to_change_set[v] \cup Changed(newer)
                            ELSE ver_to_change_set[v]]
        /\ br_to_its_vers' = [br_to_its_vers EXCEPT ![b] = @ \ newer]
        /\ ForgetVersions(newer)
        /\ UNCHANGED <<default_branch, brNames, next_br_id, next_ver_id>>

\* Faulty variant of VersionRevert: the values stay on disk.
RevertKeepsLayers(v) ==
    /\ v \in DOMAIN ver_to_change_set
    /\ ver_to_change_set' = MapRemove(ver_to_change_set, {v})
    /\ br_to_its_vers' = [b \in DOMAIN br_to_its_vers |-> br_to_its_vers[b] \ {v}]
    /\ ForgetVersions({v})
    /\ UNCHANGED <<default_branch, brNames, layered_kv, next_br_id, next_ver_id>>

\* version_revert_globally: the version and its changes vanish everywhere.  A
\* key keeps its entry even when no version holds it any more.
VersionRevert(v) ==
    /\ v \in DOMAIN ver_to_change_set
    /\ layered_kv' = [k \in DOMAIN layered_kv |->
                         IF k \in ver_to_change_set[v]
                         THEN MapRemove(layered_kv[k], {v}) ELSE layered_kv[k]]
    /\ ver_to_change_set' = MapRemove(ver_to_change_set, {v})
    /\ br_to_its_vers' = [b \in DOMAIN br_to_its_vers |-> br_to_its_vers[b] \ {v}]
    /\ ForgetVersions({v})
    /\ UNCHANGED <<default_branch, brNames, next_br_id, next_ver_id>>

(***************************************************************************)
(* Branches.                                                               *)
(***************************************************************************)
\* branch_remove of every branch of S: names, then versions.
BrNamesAfterRemoval(S) ==
    MapRemove(br_name_to_br_id, {br_id_to_br_name[b] : b \in S})

RemoveBranches(S) ==
    /\ S \subseteq DOMAIN br_to_its_vers \cap DOMAIN br_id_to_br_name
    /\ br_name_to_br_id' = BrNamesAfterRemoval(S)
    /\ br_id_to_br_name' = MapRemove(br_id_to_br_name, S)
    /\ br_to_its_vers' = MapRemove(br_to_its_vers, S)

\* The branch is not protected by being the default one.
BranchRemove(b) ==
    /\ RemoveBranches({b})
    /\ UNCHANGED <<default_branch, verNames, data, next_br_id, next_ver_id>>

\* The branches a forced creation of branch n removes first.
Replaced(n, force) ==
    IF force THEN {br_name_to_br_id[m] : m \in {n} \cap DOMAIN br_name_to_br_id}
             ELSE {}

\* The version a new branch starts from, as a set of at most one: a version of
\* the base branch, by default its newest, and none when it has no version.
Bases(b) == IF Vers(b) = {} THEN {{}} ELSE {{v} : v \in Vers(b)}

\* The six branch_create operations: branch n starts as the versions of branch
\* b up to the base version, with one more version on top when `name` has one.
BranchCreate(n, b, base, name, force) ==
    LET gone == Replaced(n, force)
        brs  == MapRemove(br_to_its_vers, gone)
    IN  /\ n \notin DOMAIN BrNamesAfterRemoval(gone)
        /\ b \in DOMAIN brs
        /\ next_br_id <= MaxBrId
        /\ br_name_to_br_id' = MapInsert(BrNamesAfterRemoval(gone), n, next_br_id)
        /\ br_id_to_br_name' =
             MapInsert(MapRemove(br_id_to_br_name, gone), next_br_id, n)
        /\ AddVersion(MapInsert(brs, next_br_id,
                                UNION {UpTo(brs[b], v) : v \in base}),
                      next_br_id, name)
        /\ next_br_id' = next_br_id + 1
        /\ UNCHANGED <<default_branch, layered_kv>>

\* A forced creation whose base turns out not to exist has already removed the
\* branch it was to replace: the base branch is that branch, or the base
\* version is not on it.
BranchCreateFails(n) ==
    LET gone == Replaced(n, TRUE)
    IN  /\ gone # {}
        /\ {b \in DOMAIN br_to_its_vers :
              b \in gone \/ ~(Range(ver_name_to_ver_id) \subseteq Vers(b))} # {}
        /\ RemoveBranches(gone)
        /\ UNCHANGED <<default_branch, verNames, data, next_br_id, next_ver_id>>

BranchTruncate(b) == SetVers(b, {})

\* Drops the versions newer than v, which need not be on the branch itself.
BranchTruncateTo(b, v) == SetVers(b, UpTo(Vers(b), v))

BranchSetDefault(b) ==
    /\ b \in DOMAIN br_id_to_br_name
    /\ default_branch' = b
    /\ UNCHANGED <<brNames, verNames, br_to_its_vers, data, next_br_id, next_ver_id>>

\* Two branches exchange their names; the default branch follows its name.
BranchSwap(m, n) ==
    LET i == br_name_to_br_id[m]
        j == br_name_to_br_id[n]
    IN  /\ {m, n} \subseteq DOMAIN br_name_to_br_id
        /\ br_name_to_br_id' = MapInsert(MapInsert(br_name_to_br_id, m, j), n, i)
        /\ br_id_to_br_name' = MapInsert(MapInsert(br_id_to_br_name, i, n), j, m)
        /\ default_branch' = CASE default_branch = i -> j
                               [] default_branch = j -> i
                               [] OTHER -> default_branch
        /\ UNCHANGED <<verNames, br_to_its_vers, data, next_br_id, next_ver_id>>

(***************************************************************************)
(* Merging branches.                                                       *)
(***************************************************************************)
\* The longest common prefix of the version sets of F, in version order.
CommonPrefix(F) ==
    {v \in UNION F : \A S, T \in F : v \in S /\ UpTo(S, v) = UpTo(T, v)}

\* Faulty variants of MergedVers: all ids from the oldest to the newest of S; the
\* version after the newest of T is missed.
MergedRange(S, T) == T \cup (IF S = {} THEN {} ELSE Min(S) .. Max(S))
MergedLate(S, T)  == T \cup {v \in S : \A u \in T : u + 1 < v}

\* The versions of the target branch (T) once the branch with versions S is
\* merged into it: if each has a version after their common prefix, the
\* versions of S from its own on are added; otherwise those newer than all
\* versions of T.
MergedVers(S, T) ==
    LET common == CommonPrefix({S, T})
    IN  IF S \ common # {} /\ T \ common # {}
        THEN T \cup (S \ common)
        ELSE T \cup {v \in S : \A u \in T : u < v}

\* branch_merge_to_force
BranchMergeToForce(b, t) ==
    /\ b \in DOMAIN br_to_its_vers
    /\ SetVers(t, MergedVers(Vers(b), Vers(t)))

\* Faulty variant of BranchMergeTo: without its check.
MergeUnchecked(b, t) == BranchMergeToForce(b, t)

\* branch_merge_to: only if the newest version of the target is on branch b.
BranchMergeTo(b, t) ==
    /\ \A h \in Vers(t) : IsLast(h, Vers(t)) => h \in Vers(b)
    /\ BranchMergeToForce(b, t)

(***************************************************************************)
(* Cleaning up and pruning.                                                *)
(***************************************************************************)
\* Faulty variant of Orphans: the other branches are not looked at.
OrphansOfDefault(brs) ==
    DOMAIN ver_to_change_set \
      (IF default_branch \in DOMAIN brs THEN brs[default_branch] ELSE {})

\* The versions that are on no branch of `brs`.
Orphans(brs) == DOMAIN ver_to_change_set \ AllVers(brs)

\* layered_kv without what the versions O changed; a key they changed goes with
\* its last value.
PurgedVers(k, O) == MapRemove(layered_kv[k], {v \in O : k \in ver_to_change_set[v]})
PurgedKv(O) ==
    [k \in {k \in DOMAIN layered_kv :
              k \in Changed(O) => DOMAIN PurgedVers(k, O) # {}} |-> PurgedVers(k, O)]

Purge(O) ==
    /\ layered_kv' = PurgedKv(O)
    /\ ver_to_change_set' = MapRemove(ver_to_change_set, O)
    /\ ForgetVersions(O)

\* version_clean_up_globally
CleanUp ==
    /\ Purge(Orphans(br_to_its_vers))
    /\ UNCHANGED <<default_branch, brNames, br_to_its_vers, next_br_id, next_ver_id>>

\* branch_keep_only: removes every other branch, then cleans up.
BranchKeepOnly(keep) ==
    LET gone == DOMAIN br_id_to_br_name \ keep
    IN  /\ RemoveBranches(gone)
        /\ Purge(Orphans(MapRemove(br_to_its_vers, gone)))
        /\ UNCHANGED <<default_branch, next_br_id, next_ver_id>>

\* The versions all branches that have any share from the oldest on.
SharedVers == CommonPrefix(Range(br_to_its_vers) \ {{}})

\* Faulty variant of Mergeable: one version too many.
MergeableOneMore(reserved) ==
    {v \in SharedVers :
        /\ reserved # 0
        /\ \E u \in SharedVers : u < v
        /\ Cardinality({w \in SharedVers : w > v}) >= reserved - 2}

\* The shared versions a prune merges: not the oldest one, and not the newest
\* reserved - 1 ones.
Mergeable(reserved) ==
    {v \in SharedVers :
        /\ reserved # 0
        /\ \E u \in SharedVers : u < v
        /\ Cardinality({w \in SharedVers : w > v}) >= reserved - 1}

\* Merges the versions `merged` into version `base`, the oldest of all
\* branches.  What is then deleted in `base` is gone for good.  The names of
\* the merged versions stay.
PruneInto(merged, base) ==
    LET O     == Orphans(br_to_its_vers)
        kv    == PurgedKv(O)
        moved == [k \in DOMAIN kv |-> {v \in merged : k \in ver_to_change_set[v]}]
        into  == [k \in DOMAIN kv |-> MergeInto(kv[k], moved[k], base)]
        dead  == {k \in DOMAIN kv : moved[k] # {} /\ into[k][base] = NULL}
        left  == [k \in DOMAIN kv |-> IF k \in dead THEN MapRemove(into[k], {base})
                                                   ELSE into[k]]
    IN  /\ br_to_its_vers' =
             [b \in DOMAIN br_to_its_vers |-> br_to_its_vers[b] \ merged]
        /\ layered_kv' = Restrict(left, {k \in DOMAIN kv :
                                           k \in dead => DOMAIN left[k] # {}})
        /\ ver_to_change_set' =
             [v \in DOMAIN ver_to_change_set \ (O \cup merged) |->
                IF v = base
                THEN (ver_to_change_set[v] \cup Changed(merged)) \ dead
                ELSE ver_to_change_set[v]]
        /\ ForgetVersions(O)
        /\ UNCHANGED <<default_branch, brNames, next_br_id, next_ver_id>>

\* prune: cleans up, then merges the oldest shared versions.  `n` versions are
\* to stay beside the oldest; the sum wraps, and with zero the call fails after
\* the cleaning.
Prune(n) ==
    LET merged == Mergeable((1 + n) % (USIZE_MAX + 1))
    IN  \/ merged = {} /\ CleanUp
        \/ merged # {} /\ PruneInto(merged, Min(SharedVers))

-----------------------------------------------------------------------------
KnownVersions == Range(ver_name_to_ver_id)

\* The duty of a caller of version_rebase: no other branch has the base version
\* or a newer one.
RebaseDuty(b, base) ==
    \A c \in DOMAIN br_to_its_vers \ {b} : \A v \in Vers(c) : v < base

\* Operations on data.
WriteStep ==
    \E b \in Branches, k \in Key :
        Remove(b, k) \/ \E v \in Value \cup {NULL} : Insert(b, k, v)

\* Operations that add to branches and versions.
CreateStep ==
    \/ \E b \in Branches, n \in VerName : VersionCreate(b, n)
    \/ \E n \in BrName, b \in Branches, name \in {{}} \cup {{m} : m \in VerName},
          force \in BOOLEAN :
          \E base \in Bases(b) : BranchCreate(n, b, base, name, force)

\* Operations that take versions off branches.
DropStep ==
    \/ \E b \in Branches : \/ VersionPop(b)
                           \/ BranchRemove(b)
                           \/ BranchTruncate(b)
                           \/ \E v \in KnownVersions : BranchTruncateTo(b, v)
    \/ \E n \in BrName : BranchCreateFails(n)
    \/ \E v \in KnownVersions : VersionRevert(v)
    \/ Clear

\* Operations that reorganise branches and versions.
MergeStep   == \E b, t \in Branches : BranchMergeTo(b, t)
RenameStep  == \/ \E b \in Branches : BranchSetDefault(b)
               \/ \E m, n \in BrName : BranchSwap(m, n)
CompactStep == \/ CleanUp
               \/ \E keep \in SUBSET Branches : BranchKeepOnly(keep)
               \/ \E n \in 0..USIZE_MAX : Prune(n)
               \/ \E b \in Branches, v \in KnownVersions :
                     RebaseDuty(b, v) /\ VersionRebase(b, v)

Next == \/ WriteStep \/ CreateStep \/ DropStep
        \/ MergeStep \/ RenameStep \/ CompactStep
        \/ Restart

Spec == Init /\ [][Next]_vars

\* With branch_merge_to_force, whose comment warns that it corrupts the data of
\* other branches: what remains true after it was used.
ForceStep  == \E b, t \in Branches : BranchMergeToForce(b, t)
UnsafeSpec == Init /\ [][Next \/ ForceStep]_vars

-----------------------------------------------------------------------------
(***************************************************************************)
(* What must be true of every reachable state.                             *)
(***************************************************************************)
BrIds  == 0 .. next_br_id - 1
VerIds == 0 .. next_ver_id - 1

\* Layers: for each key, versions of `ids` with their values.
IsLayers(kv, ids) ==
    /\ DOMAIN kv \subseteq Key
    /\ kv = [k \in DOMAIN kv |-> kv[k]]
    /\ \A k \in DOMAIN kv : IsMap(kv[k], ids, Value \cup {NULL})

TypeOK ==
    /\ next_br_id \in Nat \ {0}
    /\ next_ver_id \in Nat
    /\ default_branch \in BrIds
    /\ IsMap(br_name_to_br_id, BrName, BrIds)
    /\ IsMap(br_id_to_br_name, BrIds, BrName)
    /\ IsMap(br_to_its_vers, BrIds, SUBSET VerIds)
    /\ IsMap(ver_name_to_ver_id, VerName, VerIds)
    /\ IsMap(ver_id_to_ver_name, VerIds, VerName)
    /\ IsMap(ver_to_change_set, VerIds, SUBSET Key)
    /\ IsLayers(layered_kv, VerIds)

\* Two branches that share a version share every older version of it too: what
\* do_branch_merge_to relies on when it compares only newest versions, and
\* what makes a version mean the same content on every branch.
SharedHistory ==
    \A b, c \in DOMAIN br_to_its_vers : \A v \in Vers(b) \cap Vers(c) :
        UpTo(Vers(b), v) = UpTo(Vers(c), v)

\* The change sets in memory are exactly the keys whose layers on disk hold a
\* value of the version: clean-up, rebase, revert and prune fail half-way, or
\* leave values behind, when one of the two has what the other lacks.
ChangeSetExact ==
    /\ \A k \in DOMAIN layered_kv : DOMAIN layered_kv[k] \subseteq DOMAIN ver_to_change_set
    /\ \A v \in DOMAIN ver_to_change_set :
         ver_to_change_set[v] = {k \in DOMAIN layered_kv : v \in DOMAIN layered_kv[k]}

\* The maps from ids to names are the inverses of those from names to ids, and
\* a branch has a name exactly while it has a set of versions.
NamesConsistent ==
    /\ DOMAIN br_id_to_br_name = DOMAIN br_to_its_vers
    /\ DOMAIN br_id_to_br_name = Range(br_name_to_br_id)
    /\ \A n \in DOMAIN br_name_to_br_id : br_id_to_br_name[br_name_to_br_id[n]] = n
    /\ DOMAIN ver_id_to_ver_name = Range(ver_name_to_ver_id)
    /\ \A n \in DOMAIN ver_name_to_ver_id : ver_id_to_ver_name[ver_name_to_ver_id[n]] = n

\* Every version on a branch has a change set, and every version with a change
\* set a name: the lookups that version_list, version_list_globally and
\* branch_is_empty unwrap.
HaveChangeSets == AllVers(br_to_its_vers) \subseteq DOMAIN ver_to_change_set
HaveNames      == DOMAIN ver_to_change_set \subseteq DOMAIN ver_id_to_ver_name
VersionsKnown  == HaveChangeSets /\ HaveNames

(***************************************************************************)
(* What a step may never do.                                               *)
(***************************************************************************)
\* A version that is on no branch never comes back to one, which is what lets
\* clean-up and prune destroy it.
OrphansStayOrphans ==
    [][AllVers(br_to_its_vers') \subseteq AllVers(br_to_its_vers)
                                                \cup {next_ver_id}]_vars

\* Clean-up, keep_only, prune, rebase within its duty and a restart destroy and
\* move data, but the newest content of every branch that remains is as before.
CompactKeepsHeads ==
    [][(\E b \in DOMAIN br_to_its_vers \cap DOMAIN br_to_its_vers', k \in Key :
          GetByBranch(k, b)' # GetByBranch(k, b))
         => ~(CompactStep \/ Restart)]_vars

\* A prune that is to reserve n versions beside the oldest leaves as many on
\* each branch, or all that were there.
PruneReserves ==
    [][\A n \in 0..USIZE_MAX :
         (\E b \in DOMAIN br_to_its_vers \cap DOMAIN br_to_its_vers' :
            Cardinality(Vers(b)') < Min({Cardinality(Vers(b)), 1 + n}))
         => ~Prune(n)]_vars

\* A safe merge makes the target read, at every version, what the branch merged
\* into it reads, although branch_merge_to compares newest versions only.
MergeCatchesUp ==
    [][\A b, t \in Branches : BranchMergeTo(b, t) =>
         /\ Vers(t)' = Vers(b)
         /\ \A k \in Key : \A v \in Vers(b) : Get(k, t, v)' = Get(k, b, v)]_vars
=============================================================================
