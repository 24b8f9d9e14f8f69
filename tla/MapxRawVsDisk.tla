---------------------------- MODULE MapxRawVsDisk ----------------------------
(***************************************************************************)
(* The versioned map on disk: the writes that each operation of MapxRawVs  *)
(* makes, in their order (core/src/versioned/mapx_raw/backend.rs), and the *)
(* end of the process between any two of them.                             *)
(*                                                                         *)
(* One thread has a map for itself, so that nothing happens between the    *)
(* writes of an operation but that the process ends.  An operation is      *)
(* therefore one step still, or it is cut short after some of its writes:  *)
(* what is in memory is lost, and the next process derives it from what is *)
(* on disk.  (MapxEngine takes a write of a row and of a length apart.)    *)
(***************************************************************************)
EXTENDS MapxRawVs, Sequences

Seqs == INSTANCE SequencesExt

VARIABLE cut   \* the operation the last step has cut short, and its branch

diskVars == <<vars, cut>>

\* No operation was cut short.
Whole == [op |-> "none", branch |-> {}]

-----------------------------------------------------------------------------
(***************************************************************************)
(* The maps on disk; a path leads to a row, or to a row of the map it holds. *)
(***************************************************************************)
Disk == [br_names  |-> br_name_to_br_id,
         ver_names |-> ver_name_to_ver_id,
         branches  |-> [b \in DOMAIN br_to_its_vers |-> [v \in br_to_its_vers[b] |-> {}]],
         layers    |-> layered_kv,
         ids       |-> [br |-> next_br_id, ver |-> next_ver_id]]

Put(path, x) == [path |-> path, value |-> {x}]
Del(path)    == [path |-> path, value |-> {}]

Stored(m, row, value) ==
    IF value = {} THEN MapRemove(m, {row})
    ELSE MapInsert(m, row, CHOOSE x \in value : TRUE)

Apply(disk, w) ==
    IF Len(w.path) = 2 THEN [disk EXCEPT ![w.path[1]] = Stored(@, w.path[2], w.value)]
    ELSE [disk EXCEPT ![w.path[1]][w.path[2]] = Stored(@, w.path[3], w.value)]

After(writes) == Seqs!FoldLeft(Apply, Disk, writes)

\* In the order of the rows, which for ids is that of numbers.
Ascending(S) == Seqs!SetToSortSeq(S, LAMBDA a, b : a < b)

-----------------------------------------------------------------------------
(***************************************************************************)
(* The writes of each operation.                                           *)
(***************************************************************************)
\* A key that is new gets a row with an empty map before the value.
WriteRows(k, x, h) ==
    (IF k \in DOMAIN layered_kv THEN <<>> ELSE <<Put(<<"layers", k>>, EmptyMap)>>)
      \o <<Put(<<"layers", k, h>>, x)>>

NewVersion(b, n) ==
    <<Put(<<"ids", "ver">>, next_ver_id + 1),
      Put(<<"branches", b, next_ver_id>>, {}),
      Put(<<"ver_names", n>>, next_ver_id)>>

NewBranch(n, b, base) ==
    <<Put(<<"ids", "br">>, next_br_id + 1),
      Put(<<"br_names", n>>, next_br_id),
      Put(<<"branches", next_br_id>>,
          [v \in UNION {UpTo(Vers(b), v) : v \in base} |-> {}])>>

TakeOff(b, s) == [i \in DOMAIN s |-> Del(<<"branches", b, s[i]>>)]
PutOn(b, s)   == [i \in DOMAIN s |-> Put(<<"branches", b, s[i]>>, {})]

\* Faulty variant of TruncatedTo: the oldest version goes first.
TruncatedToUp(b, v) == TakeOff(b, Ascending(Vers(b) \ UpTo(Vers(b), v)))

\* branch_truncate clears the branch from the oldest version on;
\* branch_truncate_to goes down from the newest.
Truncated(b)      == TakeOff(b, Ascending(Vers(b)))
TruncatedTo(b, v) == TakeOff(b, Seqs!Reverse(Ascending(Vers(b) \ UpTo(Vers(b), v))))

Removed(b) == Truncated(b) \o <<Del(<<"br_names", br_id_to_br_name[b]>>),
                                Del(<<"branches", b>>)>>

\* Faulty variant of Merged: source and target are exchanged.
MergedBack(b, t) == PutOn(b, Ascending(MergedVers(Vers(t), Vers(b)) \ Vers(b)))

Merged(b, t) == PutOn(t, Ascending(MergedVers(Vers(b), Vers(t)) \ Vers(t)))

Swapped(m, n) == <<Put(<<"br_names", m>>, br_name_to_br_id[n]),
                   Put(<<"br_names", n>>, br_name_to_br_id[m])>>

\* The keys a version changed, in some order.
KeysOf(v) == Seqs!SetToSeq(ver_to_change_set[v])

\* Faulty variant of Forgotten: the name stays on disk.
ForgottenNot(v) == <<>>

Forgotten(v) == <<Del(<<"ver_names", ver_id_to_ver_name[v]>>)>>

\* A value leaves its version before it is in the other.
Moved(v, base) ==
    Seqs!FlattenSeq([i \in DOMAIN KeysOf(v) |->
        LET k == KeysOf(v)[i]
        IN  <<Del(<<"layers", k, v>>), Put(<<"layers", k, base>>, layered_kv[k][v])>>])

\* Faulty variant of Rebased: the name of a version goes before it is off the branch.
RebasedNameFirst(b, base) ==
    LET s == Ascending(Newer(b, base))
    IN  Seqs!FlattenSeq([i \in DOMAIN s |->
            Moved(s[i], base) \o Forgotten(s[i]) \o TakeOff(b, <<s[i]>>)])

Rebased(b, base) ==
    LET s == Ascending(Newer(b, base))
    IN  Seqs!FlattenSeq([i \in DOMAIN s |->
            Moved(s[i], base) \o TakeOff(b, <<s[i]>>) \o Forgotten(s[i])])

Reverted(v) ==
    LET on == Ascending({b \in DOMAIN br_to_its_vers : v \in Vers(b)})
    IN  [i \in DOMAIN KeysOf(v) |-> Del(<<"layers", KeysOf(v)[i], v>>)]
          \o [i \in DOMAIN on |-> Del(<<"branches", on[i], v>>)]
          \o Forgotten(v)

\* The values of each orphan, with the row of a key whose last they are; then
\* the names.
CleanedUp ==
    LET O == Orphans(br_to_its_vers)
        s == Ascending(O)
        Purged(v) == Seqs!FlattenSeq([i \in DOMAIN KeysOf(v) |->
            LET k == KeysOf(v)[i]
            IN  <<Del(<<"layers", k, v>>)>>
                  \o (IF DOMAIN layered_kv[k] \subseteq UpTo(O, v)
                      THEN <<Del(<<"layers", k>>)>> ELSE <<>>)])
    IN  Seqs!FlattenSeq([i \in DOMAIN s |-> Purged(s[i])])
          \o Seqs!FlattenSeq([i \in DOMAIN s |-> Forgotten(s[i])])

\* What a prune does once it has cleaned up: versions leave all branches, one
\* branch after the other; then their values move, and what is deleted goes.
Pruned(merged, base) ==
    LET brs   == Ascending({b \in DOMAIN br_to_its_vers : Vers(b) # {}})
        s     == Ascending(merged)
        Last(k) == Max({v \in merged : k \in ver_to_change_set[v]})
        dead  == {k \in Changed(merged) : layered_kv[k][Last(k)] = NULL}
        gone  == Seqs!SetToSeq(dead)
        bare  == Seqs!SetToSeq({k \in dead : DOMAIN layered_kv[k] \subseteq merged \cup {base}})
    IN  Seqs!FlattenSeq([i \in DOMAIN brs |-> TakeOff(brs[i], s)])
          \o Seqs!FlattenSeq([i \in DOMAIN s |-> Moved(s[i], base)])
          \o [i \in DOMAIN gone |-> Del(<<"layers", gone[i], base>>)]
          \o [i \in DOMAIN bare |-> Del(<<"layers", bare[i]>>)]

-----------------------------------------------------------------------------
(***************************************************************************)
(* The process ends when some of the writes of operation `op`, on the      *)
(* branches in `branch`, are made, and the map is read back.               *)
(***************************************************************************)
CutShort(op, branch, writes) ==
    /\ \E n \in 1 .. Len(writes) - 1 :
         LET disk == After(SubSeq(writes, 1, n))
         IN  /\ br_name_to_br_id' = disk.br_names
             /\ ver_name_to_ver_id' = disk.ver_names
             /\ br_to_its_vers' = [b \in DOMAIN disk.branches |-> DOMAIN disk.branches[b]]
             /\ layered_kv' = disk.layers
             /\ next_br_id' = disk.ids.br
             /\ next_ver_id' = disk.ids.ver
    /\ br_id_to_br_name' = AntiFunction(br_name_to_br_id')
    /\ ver_id_to_ver_name' = AntiFunction(ver_name_to_ver_id')
    /\ ver_to_change_set' = DerivedChangeSets(br_to_its_vers', layered_kv')
    /\ UNCHANGED default_branch
    /\ cut' = [op |-> op, branch |-> branch]

CutWrite ==
    \E b \in Branches, k \in Key, x \in Value : \E h \in Vers(b) :
        IsLast(h, Vers(b)) /\ CutShort("insert", {b}, WriteRows(k, x, h))

CutCreate ==
    \/ \E b \in Branches, n \in VerName :
         /\ b \in DOMAIN br_to_its_vers /\ n \notin DOMAIN ver_name_to_ver_id
         /\ next_ver_id <= MaxVerId
         /\ CutShort("version_create", {b}, NewVersion(b, n))
    \/ \E n \in BrName, b \in Branches : \E base \in Bases(b) :
         /\ b \in DOMAIN br_to_its_vers /\ n \notin DOMAIN br_name_to_br_id
         /\ next_br_id <= MaxBrId
         /\ CutShort("branch_create", {}, NewBranch(n, b, base))

\* A forced creation and keep_only are removals of branches and a creation or a
\* clean-up, and cut short as these are.
CutDrop ==
    \/ \E b \in Branches \cap DOMAIN br_to_its_vers :
         \/ CutShort("branch_truncate", {b}, Truncated(b))
         \/ CutShort("branch_remove", {b}, Removed(b))
         \/ \E v \in KnownVersions : CutShort("branch_truncate_to", {b}, TruncatedTo(b, v))
    \/ \E v \in DOMAIN ver_to_change_set : CutShort("version_revert", {}, Reverted(v))

CutMerge ==
    \E b, t \in Branches \cap DOMAIN br_to_its_vers :
        /\ \A h \in Vers(t) : IsLast(h, Vers(t)) => h \in Vers(b)
        /\ CutShort("branch_merge_to", {t}, Merged(b, t))

CutRename ==
    \E m, n \in DOMAIN br_name_to_br_id : m # n /\ CutShort("branch_swap", {}, Swapped(m, n))

\* Whatever a prune reserves; its clean-up is cut short as any other is.
CutCompact ==
    \/ CutShort("clean_up", {}, CleanedUp)
    \/ /\ Orphans(br_to_its_vers) = {}
       /\ \E n \in 0 .. USIZE_MAX :
            LET merged == Mergeable((1 + n) % (USIZE_MAX + 1))
            IN  merged # {} /\ CutShort("prune", {}, Pruned(merged, Min(SharedVers)))
    \/ \E b \in Branches \cap DOMAIN br_to_its_vers : \E v \in Vers(b) :
         RebaseDuty(b, v) /\ CutShort("version_rebase", {b}, Rebased(b, v))

DiskInit == Init /\ cut = Whole
DiskNext == \/ (Next \/ ForceStep) /\ cut' = Whole
            \/ CutWrite \/ CutCreate \/ CutDrop \/ CutMerge \/ CutRename \/ CutCompact
DiskSpec == DiskInit /\ [][DiskNext]_diskVars

-----------------------------------------------------------------------------
\* When an operation is cut short that neither creates, removes nor renames,
\* the maps the next process derives agree again: no later operation fails
\* half-way or unwraps a name that is not there.
RestartRecovers ==
    [][cut'.op \notin {"version_create", "branch_create", "branch_remove", "branch_swap"}
         => (NamesConsistent /\ VersionsKnown)']_diskVars

\* Of operations that move no values and do not empty a branch, what is left is
\* whole: every version on a branch was on one before and reads there as it
\* did, but for the one being created.
WholeVersions ==
    [][SharedHistory /\ cut'.op \in {"insert", "version_create", "branch_create",
                                     "branch_truncate_to", "branch_merge_to",
                                     "branch_swap", "clean_up"}
         => \A b \in DOMAIN br_to_its_vers' : \A v \in Vers(b)' \ {next_ver_id} :
              \E c \in DOMAIN br_to_its_vers :
                 v \in Vers(c) /\ \A k \in Key : Get(k, b, v)' = Get(k, c, v)]_diskVars

\* An operation on one branch that is cut short leaves every version of every
\* other branch as it was, a rebase within its duty included.
CutStaysLocal ==
    [][cut'.branch # {} =>
         \A c \in DOMAIN br_to_its_vers \ cut'.branch :
            /\ Vers(c)' = Vers(c)
            /\ \A k \in Key : \A v \in Vers(c) : Get(k, c, v)' = Get(k, c, v)]_diskVars

\* All the writes of an operation together do on disk what the operation does:
\* of those that give or take versions of branches, and of those that purge.
WritesMakeTheStep ==
    [][cut' = Whole =>
         LET changed == {b \in DOMAIN br_to_its_vers :
                           b \notin DOMAIN br_to_its_vers' \/ Vers(b)' # Vers(b)}
             named   == DOMAIN ver_name_to_ver_id' \ DOMAIN ver_name_to_ver_id
             purged  == DOMAIN ver_id_to_ver_name \ DOMAIN ver_id_to_ver_name'
         IN  /\ \A b \in changed :
                  IF b \notin DOMAIN br_to_its_vers'
                  THEN BranchRemove(b) => Disk' = After(Removed(b))
                  ELSE /\ named \cup purged = {} =>
                            /\ BranchTruncate(b) => Disk' = After(Truncated(b))
                            /\ \A v \in KnownVersions :
                                 BranchTruncateTo(b, v) => Disk' = After(TruncatedTo(b, v))
                            /\ \A s \in Branches :
                                 BranchMergeTo(s, b) => Disk' = After(Merged(s, b))
                       /\ \A n \in named : VersionCreate(b, n) => Disk' = After(NewVersion(b, n))
                       /\ purged # {} => \A v \in Vers(b) :
                            VersionRebase(b, v) => Disk' = After(Rebased(b, v))
             /\ \A v \in purged : VersionRevert(v) => Disk' = After(Reverted(v))
             /\ purged # {} => (CleanUp => Disk' = After(CleanedUp))
             /\ changed # {} /\ purged = {} /\ Orphans(br_to_its_vers) = {} =>
                  \A n \in 0 .. USIZE_MAX :
                    LET merged == Mergeable((1 + n) % (USIZE_MAX + 1))
                    IN  merged # {} /\ Prune(n)
                          => Disk' = After(Pruned(merged, Min(SharedVers)))]_diskVars
=============================================================================
