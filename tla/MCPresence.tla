------------------------------ MODULE MCPresence ------------------------------
(* Presence for TLC: interchangeable connections, documents and data. *)
EXTENDS Presence, TLC

Symmetry == Permutations(Clients) \cup Permutations(Keys) \cup Permutations(Datas)
=============================================================================
