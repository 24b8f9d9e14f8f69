------------------------------ MODULE MCVecxVs ------------------------------
(***************************************************************************)
(* Instances of VecxVs for TLC.                                            *)
(***************************************************************************)
EXTENDS VecxVs, TLC

Symmetry == Permutations(VerName)
=============================================================================
