----------------------------- MODULE MCMapxRawVs -----------------------------
(***************************************************************************)
(* Instances of MapxRawVs for TLC.                                         *)
(***************************************************************************)
EXTENDS MapxRawVsSnapshots, TLC

\* Names of versions and values are interchangeable, and so are the names of
\* branches other than the initial one.
Symmetry == Permutations(VerName) \cup Permutations(Value)
              \cup Permutations(BrName \ {MASTER})

\* A bound: the last branch id and the last version id are not both given.
FewIds == next_br_id + next_ver_id <= MaxBrId + MaxVerId + 1
=============================================================================
