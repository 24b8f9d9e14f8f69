----------------------------- MODULE MCVsDerive -----------------------------
(***************************************************************************)
(* Instances of VsDerive for TLC.                                          *)
(***************************************************************************)
EXTENDS VsDerive, TLC

\* A field outside vsdb, a versioned one and an option.
MCKinds == <<"nope", "versioned", "none">>

Symmetry == Permutations(VerName)

\* What follows a state in which the fields have come apart is not explored:
\* the properties are about fields that agree.
InStep == Agree(fields)
=============================================================================
