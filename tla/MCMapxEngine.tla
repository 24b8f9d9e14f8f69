---------------------------- MODULE MCMapxEngine ----------------------------
(***************************************************************************)
(* Instances of MapxEngine for TLC.                                        *)
(***************************************************************************)
EXTENDS MapxEngine, TLC

\* Threads are interchangeable.
Symmetry == Permutations(Thread)
=============================================================================
