----------------------------- MODULE MCComments -----------------------------
(* Three requests of two users, on two topics, and a reading; the third    *)
(* comment on a topic does not fit on its first page.                      *)
EXTENDS Comments, TLC

CONSTANTS r1, r2, r3, g1, u1, u2, t1, t2

Symmetry == Permutations({r1, r2, r3}) \cup Permutations({u1, u2})
            \cup Permutations({t1, t2})
=============================================================================
