---------------------------- MODULE MCManagerOrder ----------------------------
(* ManagerOrder for TLC: interchangeable clients and Arcs. *)
EXTENDS ManagerOrder, TLC

Symmetry == Permutations(Clients) \cup Permutations(DocRefs)
=============================================================================
