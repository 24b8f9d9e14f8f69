-------------------------------- MODULE VecxVs --------------------------------
(***************************************************************************)
(* The versioned vector (wrappers/src/versioned/vecx/mod.rs): a versioned  *)
(* map from indices to values.  Its length is not kept: it is the number   *)
(* of keys that a scan of the DEFAULT branch yields, also in the           *)
(* operations that name a branch.                                          *)
(***************************************************************************)
EXTENDS MapxRawVs

\* Key bounds the length.
ASSUME IndexAssumption == IsFiniteSet(Key) /\ Key = 0 .. Cardinality(Key) - 1

\* The indices that have a value in version v of branch b.
Indices(b, v) == {k \in Key : Get(k, b, v) # NULL}

\* len_by_branch
LenByBranch(b) == Cardinality({k \in Key : GetByBranch(k, b) # NULL})

\* len, and the length all operations use
VecLen == LenByBranch(default_branch)

(***************************************************************************)
(* Operations on a branch; those that name none are on the default branch. *)
(***************************************************************************)
PushByBranch(b, x) == Insert(b, VecLen, x)
PopByBranch(b)     == VecLen > 0 /\ Remove(b, VecLen - 1)

\* Faulty variant of UpdateByBranch: the index is not compared with the length.
UpdateAnywhere(b, i, x) == Insert(b, i, x)

\* update_by_branch; also the write of a mutable reference that is dropped
UpdateByBranch(b, i, x) == i < VecLen /\ Insert(b, i, x)

VecOp(b) ==
    \/ \E x \in Value : \/ VecLen \in Key /\ PushByBranch(b, x)
                        \/ \E i \in Key : UpdateByBranch(b, i, x)
    \/ PopByBranch(b)

\* What a caller must see to, beside RebaseDuty: to write a branch only when
\* its newest version is its own (what branch_create_without_new_version asks
\* for), and only when it is as long as the default branch.
OwnDuty(b)    == \A h \in Vers(b) : IsLast(h, Vers(b)) =>
                    \A c \in DOMAIN br_to_its_vers \ {b} : h \notin Vers(c)
LengthDuty(b) == LenByBranch(b) = VecLen

WriteVec(b) == OwnDuty(b) /\ LengthDuty(b) /\ VecOp(b)

\* Operations that take versions off branches, but version_revert_globally,
\* which takes the changes of a version away from below newer ones.
DropVec ==
    \/ \E b \in Branches : \/ VersionPop(b)
                           \/ BranchRemove(b)
                           \/ BranchTruncate(b)
                           \/ \E v \in KnownVersions : BranchTruncateTo(b, v)
    \/ \E n \in BrName : BranchCreateFails(n)
    \/ Clear

VecNext == \/ \E b \in Branches : WriteVec(b)
           \/ CreateStep \/ DropVec \/ MergeStep \/ RenameStep \/ CompactStep
           \/ Restart

VecSpec == Init /\ [][VecNext]_vars

-----------------------------------------------------------------------------
\* In every version of every branch the indices in use are those from zero to
\* the length, so that no push overwrites an element, and last, whose result
\* is unwrapped, finds one.
Dense == \A b \in DOMAIN br_to_its_vers : \A v \in Vers(b) :
            Indices(b, v) = 0 .. Cardinality(Indices(b, v)) - 1

\* "Historical data version should be immutable": an operation on a vector
\* changes the newest version of the branch it is asked for, and nothing that
\* any other version of any branch reads.
HistoryKept ==
    [][\A b \in Branches : WriteVec(b) =>
         \A c \in DOMAIN br_to_its_vers : \A v \in Vers(c) :
            (c = b /\ IsLast(v, Vers(b))) \/ \A k \in Key : Get(k, c, v)' = Get(k, c, v)]_vars
=============================================================================
