-------------------------------- MODULE MCVecx --------------------------------
(***************************************************************************)
(* Instances of Vecx for TLC.                                              *)
(***************************************************************************)
EXTENDS Vecx, TLC

Symmetry == Permutations(Value)
=============================================================================
