---------------------------- MODULE MCMapxRawMkVs ----------------------------
(***************************************************************************)
(* Instances of MapxRawMkVs for TLC.                                       *)
(***************************************************************************)
EXTENDS MapxRawMkVs, TLC

\* A key of two parts, and prefixes that cover it and one that does not.
MCKey       == {<<1, 1>>}
MCKeyPrefix == {<<>>, <<1>>, <<2>>}

Symmetry == Permutations(VerName)
=============================================================================
