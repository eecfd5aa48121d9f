---------------------------- MODULE MCStatsPage ----------------------------
(* Three visits of one address and one of another, an export and two pages; *)
(* a window of three latencies.                                             *)
EXTENDS StatsPage, TLC

CONSTANTS a1, ann, bob, v1, v2, v3, v4, e1, p1, p2

About   == v1 :> a1 @@ v2 :> a1 @@ v3 :> a1 @@ v4 :> a1 @@ e1 :> a1
From    == v1 :> ann @@ v2 :> ann @@ v3 :> ann @@ v4 :> bob
Lasting == v1 :> 3 @@ v2 :> 3 @@ v3 :> 3 @@ v4 :> 2 @@ e1 :> 2 @@ p1 :> 2 @@ p2 :> 2
Together == {{v1, v2, v3}, {v1, v4}, {v1, v2, e1}, {v1, e1, p1, p2}}
Symmetry == Permutations(Pages)
=============================================================================
