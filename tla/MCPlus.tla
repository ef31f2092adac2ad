------------------------------- MODULE MCPlus -------------------------------
(***************************************************************************)
(* Instances of Plus for TLC.                                              *)
(***************************************************************************)
EXTENDS Plus, TLC

\* keys and identifiers are only compared for equality
KeySymmetry == Permutations(Keys)
=============================================================================
