----------------------------- MODULE MCWritePath -----------------------------
(* WritePath for TLC: interchangeable workers. *)
EXTENDS WritePath, TLC

Symmetry == Permutations(Workers)
=============================================================================
