----------------------------- MODULE MCPresence -----------------------------
(* Two connections of one user and one of another.                         *)
EXTENDS Presence, TLC

CONSTANTS c1, c2, c3, u1, u2

MCUserOf == c1 :> u1 @@ c2 :> u1 @@ c3 :> u2
SameUser == c1 :> u1 @@ c2 :> u1
Symmetry == Permutations({c1, c2})
=============================================================================
