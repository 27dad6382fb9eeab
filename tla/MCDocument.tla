------------------------------ MODULE MCDocument ------------------------------
(* Document for TLC: interchangeable workers. *)
EXTENDS Document, TLC

Symmetry == Permutations(Workers)
=============================================================================
