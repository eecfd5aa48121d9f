----------------------------- MODULE MCMeiliSync -----------------------------
(* Two syncs and a search over two articles.                                *)
EXTENDS MeiliSync, TLC

CONSTANTS a1, a2, s1, s2, q1

Symmetry == Permutations({a1, a2}) \cup Permutations({s1, s2})
=============================================================================
