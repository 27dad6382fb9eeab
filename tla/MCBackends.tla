------------------------------ MODULE MCBackends ------------------------------
(* Backends for TLC: ids with a character that LIKE takes for a wildcard and  *)
(* with capitals, and a pattern with an escape, which PostgreSQL alone takes  *)
(* for `a_*`.                                                                 *)
EXTENDS Backends, TLC

CONSTANTS r1, r2

MCIds == {<<"a", "_">>, <<"A", "b">>}
MCPatterns == {<<"*">>, <<"a", "_", "*">>, <<"*", "b">>, <<"a", Backslash, "_", "*">>}
MCRows == {r1, r2}
MCLower == [c \in {"a", "A", "b", "_", "*", Backslash} |-> IF c = "A" THEN "a" ELSE c]
MCRowSize == (r1 :> 1) @@ (r2 :> 2)

Symmetry == Permutations(Callers)
=============================================================================
