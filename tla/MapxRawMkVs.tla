---------------------------- MODULE MapxRawMkVs ----------------------------
(***************************************************************************)
(* The versioned multi-key map of wrappers/src/versioned_multi_key/        *)
(* mapx_raw: MapxRawVs again, for keys that are sequences of parts, with   *)
(* the roles of disk and memory exchanged.  The change set of a version,   *)
(* keys and values, is on disk, and the layers are an index in memory that *)
(* a restart builds from the change sets.                                  *)
(*                                                                         *)
(* The code for branches and versions is the one of MapxRawVs, copied.  So *)
(* are the actions: each is the one of MapxRawVs on the keys of the change *)
(* sets, and says besides what becomes of the values in them.  Actions     *)
(* that move data otherwise are written out.                               *)
(***************************************************************************)
EXTENDS MapxRawMk, FiniteSets, FiniteSetsExt

CONSTANTS
    Key,          \* keys: sequences of key_size parts
    key_size,     \* the number of parts of a key
    KeyPrefix,    \* shorter sequences of parts, given to remove many keys
    Value, NULL, BrName, VerName, MASTER, USIZE_MAX,   \* see MapxRawVs
    MaxBrId, MaxVerId                                  \* bounds, see MapxRawVs

ASSUME KeySizeAssumption == /\ key_size \in Nat \ {0}
                            /\ \A k \in Key : k \in Seq(Range(k)) /\ Len(k) = key_size
                            /\ \A p \in KeyPrefix : p \in Seq(Range(p)) /\ Len(p) < key_size
ASSUME NumberAssumption == USIZE_MAX \in Nat

VARIABLES
    default_branch, br_name_to_br_id, ver_name_to_ver_id, br_to_its_vers,
    br_id_to_br_name, ver_id_to_ver_name, next_br_id, next_ver_id,
    ver_to_change_set,   \* on disk: version id -> tree of the keys it changed, with values
    layered_kv           \* in memory: key -> version id -> value

names == <<br_name_to_br_id, br_id_to_br_name, ver_name_to_ver_id, ver_id_to_ver_name>>
vars  == <<default_branch, names, br_to_its_vers, ver_to_change_set, layered_kv,
           next_br_id, next_ver_id>>

\* The keys of each change set.
ChangedKeys(v) == MkKeys(ver_to_change_set[v], key_size)
changed        == [v \in DOMAIN ver_to_change_set |-> ChangedKeys(v)]

Vs == INSTANCE MapxRawVs WITH ver_to_change_set <- changed

\* The value of key k in the change set of version v.
ChangedTo(v, k) == CHOOSE x \in MkGet(ver_to_change_set[v], k) : TRUE

-----------------------------------------------------------------------------
(***************************************************************************)
(* Reading.                                                                *)
(***************************************************************************)
\* get_by_branch_version, get_by_branch
Get(k, b, v)      == Vs!Get(k, b, v)
GetByBranch(k, b) == Vs!GetByBranch(k, b)

\* iter_op_with_key_prefix_by_branch_version on one key: the newest value that
\* is not a deletion mark; marks are passed over.
Iterated(k, b, v) ==
    LET found == {w \in Vs!UpTo(DOMAIN Vs!KeyVers(k) \cap Vs!Vers(b), v) :
                    layered_kv[k][w] # NULL}
    IN  IF found = {} THEN NULL ELSE layered_kv[k][Max(found)]

-----------------------------------------------------------------------------
Init == ver_to_change_set = EmptyMap /\ Vs!Init

Clear == ver_to_change_set' = EmptyMap /\ Vs!Clear

\* The instance is read back by a later process, and the maps in memory are
\* derived from those on disk.
Restart ==
    /\ br_id_to_br_name' = AntiFunction(br_name_to_br_id)
    /\ ver_id_to_ver_name' = AntiFunction(ver_name_to_ver_id)
    /\ layered_kv' =
         [k \in UNION Range(changed) |->
            [v \in {v \in DOMAIN changed : k \in changed[v]} |-> ChangedTo(v, k)]]
    /\ UNCHANGED <<default_branch, br_name_to_br_id, ver_name_to_ver_id, br_to_its_vers,
                   ver_to_change_set, next_br_id, next_ver_id>>

(***************************************************************************)
(* Writing.                                                                *)
(***************************************************************************)
\* Faulty variant of ChangeTo: the values are kept in memory only.
ChangeNot(cs, new) == cs

\* The change set with the values `new`.
ChangeTo(cs, new) == MkInsert(cs, new)

\* write_by_branch_version: the change set on disk, then the index.
Write(k, x, h) ==
    /\ ver_to_change_set' = [ver_to_change_set EXCEPT ![h] = ChangeTo(@, [key \in {k} |-> x])]
    /\ layered_kv' = MapInsert(layered_kv, k, MapInsert(Vs!KeyVers(k), h, x))
    /\ UNCHANGED <<default_branch, names, br_to_its_vers, next_br_id, next_ver_id>>

Newest(b) == {h \in Vs!Vers(b) : Vs!IsLast(h, Vs!Vers(b))}

Insert(b, k, x) == \E h \in Newest(b) : Write(k, x, h)
Remove(b, k)    == \E h \in Newest(b) : Get(k, b, h) # NULL /\ Write(k, NULL, h)

\* Faulty variants of Marked: the mark goes to the version after; keys the version
\* has not changed are marked whatever their prefix.
MarkedNext(prefix, h) ==
    [k \in DOMAIN layered_kv |->
        IF StartsWith(k, prefix) THEN MapInsert(layered_kv[k], h + 1, NULL) ELSE layered_kv[k]]
MarkedUnfiltered(prefix, h) ==
    [k \in DOMAIN layered_kv |->
        IF StartsWith(k, prefix) \/ h \notin DOMAIN layered_kv[k]
        THEN MapInsert(layered_kv[k], h, NULL) ELSE layered_kv[k]]

\* The index with every key under the prefix marked deleted in version h.
Marked(prefix, h) ==
    [k \in DOMAIN layered_kv |->
        IF StartsWith(k, prefix) THEN MapInsert(layered_kv[k], h, NULL) ELSE layered_kv[k]]

\* A key that is too short stands for all keys it is a prefix of, and inserting
\* it removes them as well.  In the change set on disk, only keys that are in
\* it already are marked.
BatchRemove(b, prefix) ==
    \E h \in Newest(b) :
        /\ UNCHANGED <<default_branch, names, br_to_its_vers, next_br_id, next_ver_id>>
        /\ ver_to_change_set' =
             [ver_to_change_set EXCEPT ![h] =
                ChangeTo(@, [k \in MkKeysUnder(@, key_size, prefix) |-> NULL])]
        /\ layered_kv' = Marked(prefix, h)

(***************************************************************************)
(* Versions.                                                               *)
(***************************************************************************)
\* Every version that is created starts with an empty change set.
ChangeSetOfNew ==
    ver_to_change_set' \in {ver_to_change_set,
                            MapInsert(ver_to_change_set, next_ver_id, EmptyMap)}

VersionCreate(b, n) == ChangeSetOfNew /\ Vs!VersionCreate(b, n)
VersionPop(b)       == UNCHANGED ver_to_change_set /\ Vs!VersionPop(b)

\* Faulty variant of Dead: keys that any of the versions deleted.
DeadOnce(merged) == {k \in UNION {changed[v] : v \in merged} :
                       \E v \in merged : k \in changed[v] /\ ChangedTo(v, k) = NULL}

\* The value that versions S give key k together; the keys they leave deleted.
LastValue(S, k) == ChangedTo(Max({v \in S : k \in changed[v]}), k)
Dead(merged)    == {k \in UNION {changed[v] : v \in merged} : LastValue(merged, k) = NULL}

\* Faulty variant of Joined: the oldest value of a key remains.
JoinedOldest(from, base) ==
    MkInsert(ver_to_change_set[base],
             [k \in UNION {changed[v] : v \in from} \ changed[base] |->
                ChangedTo(Min({v \in from : k \in changed[v]}), k)])

\* The change set of `base` with those of the versions `from` put on it, the
\* newest last.
Joined(from, base) ==
    MkInsert(ver_to_change_set[base],
             [k \in UNION {changed[v] : v \in from} |-> LastValue(from, k)])

VersionRebase(b, base) ==
    LET newer == Vs!Newer(b, base)
    IN  /\ base \in Vs!Vers(b)
        /\ ver_to_change_set' =
             MapInsert(MapRemove(ver_to_change_set, newer), base, Joined(newer, base))
        /\ Vs!VersionRebase(b, base)

Forget(S) == ver_to_change_set' = MapRemove(ver_to_change_set, S)

VersionRevert(v) == Forget({v}) /\ Vs!VersionRevert(v)
CleanUp          == Forget(Vs!Orphans(br_to_its_vers)) /\ Vs!CleanUp

(***************************************************************************)
(* Branches.                                                               *)
(***************************************************************************)
BranchRemove(b) == UNCHANGED ver_to_change_set /\ Vs!BranchRemove(b)

BranchKeepOnly(keep) ==
    /\ Forget(Vs!Orphans(MapRemove(br_to_its_vers, DOMAIN br_id_to_br_name \ keep)))
    /\ Vs!BranchKeepOnly(keep)

BranchCreate(n, b, base, name, force) ==
    ChangeSetOfNew /\ Vs!BranchCreate(n, b, base, name, force)
BranchCreateFails(n)   == UNCHANGED ver_to_change_set /\ Vs!BranchCreateFails(n)

BranchTruncate(b)      == UNCHANGED ver_to_change_set /\ Vs!BranchTruncate(b)
BranchTruncateTo(b, v) == UNCHANGED ver_to_change_set /\ Vs!BranchTruncateTo(b, v)
BranchMergeTo(b, t)      == UNCHANGED ver_to_change_set /\ Vs!BranchMergeTo(b, t)
BranchMergeToForce(b, t) == UNCHANGED ver_to_change_set /\ Vs!BranchMergeToForce(b, t)
BranchSetDefault(b)    == UNCHANGED ver_to_change_set /\ Vs!BranchSetDefault(b)
BranchSwap(m, n)       == UNCHANGED ver_to_change_set /\ Vs!BranchSwap(m, n)

\* What do_prune does to the index.  Unlike MapxRawVs, it copies the values of
\* the merged versions: the index keeps them until the next restart.
PruneInto(merged, base) ==
    LET O     == Vs!Orphans(br_to_its_vers)
        kv    == Vs!PurgedKv(O)
        keys  == UNION {changed[v] : v \in merged}
        dead  == Dead(merged)
        into  == [k \in DOMAIN kv |-> IF k \in keys
                                       THEN MapInsert(kv[k], base, LastValue(merged, k))
                                       ELSE kv[k]]
    IN  /\ layered_kv' = [k \in DOMAIN kv |-> IF k \in dead THEN MapRemove(into[k], {base})
                                                            ELSE into[k]]
        /\ ver_to_change_set' =
             MapInsert(MapRemove(ver_to_change_set, O \cup merged), base,
                       MkRemove(Joined(merged, base), dead))
        /\ br_to_its_vers' =
             [b \in DOMAIN br_to_its_vers |-> br_to_its_vers[b] \ merged]
        /\ Vs!ForgetVersions(O)
        /\ UNCHANGED <<default_branch, br_name_to_br_id, br_id_to_br_name,
                       next_br_id, next_ver_id>>

Prune(n) ==
    LET merged == Vs!Mergeable((1 + n) % (USIZE_MAX + 1))
    IN  \/ merged = {} /\ CleanUp
        \/ merged # {} /\ PruneInto(merged, Min(Vs!SharedVers))

-----------------------------------------------------------------------------
(***************************************************************************)
(* The calls, by name (versioned_multi_key/mapx_raw/mod.rs).               *)
(***************************************************************************)
WriteStep ==
    \E b \in Vs!Branches :
        \/ \E k \in Key : Remove(b, k) \/ \E x \in Value \cup {NULL} : Insert(b, k, x)
        \/ \E p \in KeyPrefix : BatchRemove(b, p)

CreateStep ==
    \/ \E b \in Vs!Branches, n \in VerName : VersionCreate(b, n)
    \/ \E n \in BrName, b \in Vs!Branches, name \in {{}} \cup {{m} : m \in VerName},
          force \in BOOLEAN :
          \E base \in Vs!Bases(b) : BranchCreate(n, b, base, name, force)

DropStep ==
    \/ \E b \in Vs!Branches : \/ VersionPop(b)
                              \/ BranchRemove(b)
                              \/ BranchTruncate(b)
                              \/ \E v \in Vs!KnownVersions : BranchTruncateTo(b, v)
    \/ \E n \in BrName : BranchCreateFails(n)
    \/ \E v \in Vs!KnownVersions : VersionRevert(v)
    \/ Clear

MergeStep ==
    \E b, t \in Vs!Branches : BranchMergeTo(b, t) \/ BranchMergeToForce(b, t)

RenameStep == \/ \E b \in Vs!Branches : BranchSetDefault(b)
              \/ \E m, n \in BrName : BranchSwap(m, n)

CompactStep == \/ CleanUp
               \/ \E keep \in SUBSET Vs!Branches : BranchKeepOnly(keep)
               \/ \E n \in 0 .. USIZE_MAX : Prune(n)
               \/ \E b \in Vs!Branches, v \in Vs!KnownVersions :
                     Vs!RebaseDuty(b, v) /\ VersionRebase(b, v)

Next == \/ WriteStep \/ CreateStep \/ DropStep
        \/ MergeStep \/ RenameStep \/ CompactStep
        \/ Restart

Spec == Init /\ [][Next]_vars

-----------------------------------------------------------------------------
(***************************************************************************)
(* What must be true of every reachable state.                             *)
(***************************************************************************)
\* The values of the index are values, its versions were allocated, and change
\* sets are trees over the keys.
TypeOK ==
    /\ Vs!IsLayers(layered_kv, Vs!VerIds)
    /\ DOMAIN ver_to_change_set \subseteq Vs!VerIds
    /\ \A v \in DOMAIN changed : changed[v] \subseteq Key

\* Every value of a change set is in the index, as the assertion "&vv == v" in
\* rebase and prune demands; without it these, clean-up and revert fail
\* half-way through.
ChangesInLayers ==
    \A v \in DOMAIN changed : \A k \in changed[v] :
        /\ k \in DOMAIN layered_kv
        /\ v \in DOMAIN layered_kv[k]
        /\ layered_kv[k][v] = ChangedTo(v, k)

\* What the index holds of a version on a branch beyond its change set is a
\* deletion mark: no value is in memory only, so none is lost at a restart.
OnlyMarksInMemory ==
    \A k \in DOMAIN layered_kv :
        \A v \in DOMAIN layered_kv[k] \cap Vs!AllVers(br_to_its_vers) :
            k \in changed[v] \/ layered_kv[k][v] = NULL

\* The maps of names agree, so that the assertion in branch_exists and the
\* unwrapped lookups of version_list and branch_is_empty succeed.
NamesKnown == Vs!NamesConsistent /\ Vs!VersionsKnown

(***************************************************************************)
(* What a step may never do.                                               *)
(***************************************************************************)
\* A restart, clean-up, prune, or rebase within its duty never changes or loses
\* a value that a branch reads at its newest version.  (It may bring back keys
\* that were removed by prefix, whose marks are in memory only.)
ReorganiseKeepsValues ==
    [][(\E b \in DOMAIN br_to_its_vers \cap DOMAIN br_to_its_vers', k \in Key :
          GetByBranch(k, b) \notin {NULL, GetByBranch(k, b)'})
         => ~(CompactStep \/ Restart)]_vars

\* After the removal of a prefix the branch reads none of the keys under it at
\* its newest version, and reads the others, and its history, as before.
PrefixRemovalHides ==
    [][\A b \in Vs!Branches, p \in KeyPrefix : BatchRemove(b, p) =>
         \A k \in Key : \A v \in Vs!Vers(b) :
            Get(k, b, v)' = IF StartsWith(k, p) /\ v \in Newest(b) THEN NULL
                            ELSE Get(k, b, v)]_vars

\* "If you assign an empty value to a key, the key will be treated as
\* 'deleted'": iteration yields what get finds, and no deleted key.
IterationSkipsDeleted ==
    \A b \in DOMAIN br_to_its_vers, k \in Key : \A v \in Vs!Vers(b) :
        Iterated(k, b, v) = Get(k, b, v)
=============================================================================
