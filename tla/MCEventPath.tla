----------------------------- MODULE MCEventPath -----------------------------
(***************************************************************************)
(* EventPath with sources that are alike.                                  *)
(***************************************************************************)
EXTENDS EventPath, TLC

Symmetry == Permutations(Src)
=============================================================================
