--------------------------- MODULE MCMapxRawVsDisk ---------------------------
(***************************************************************************)
(* Instances of MapxRawVsDisk for TLC.                                     *)
(***************************************************************************)
EXTENDS MapxRawVsDisk, TLC

Symmetry == Permutations(VerName) \cup Permutations(BrName \ {MASTER})

\* What follows a state is explored if the maps agree in it: then the steps of
\* MapxRawVs are what the code does.
Recovered == NamesConsistent /\ VersionsKnown
=============================================================================
