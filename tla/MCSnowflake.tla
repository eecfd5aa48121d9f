---------------------------- MODULE MCSnowflake ----------------------------
(* Two generators; two callers share the first.  Two steps a millisecond.  *)
EXTENDS Snowflake, TLC

CONSTANTS n1, n2, c1, c2, c3

MCNodeNumber == n1 :> 0 @@ n2 :> 1
MCNodeOf == c1 :> n1 @@ c2 :> n1 @@ c3 :> n2

\* GenerateID: one call, one generator, always with the same number.
RowsNodeNumber == n1 :> 1 @@ n2 :> 1
RowsNodeOf == c1 :> n1 @@ c2 :> n2
MCIds == 0..100
=============================================================================
