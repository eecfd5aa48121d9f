---------------------------- MODULE SnowflakeId ----------------------------
(* The layout of an id of common/snowflake.go: time, node and step in one  *)
(* 64-bit word.  The shifts are written as products: NodeCount stands for  *)
(* 1 << NodeBits and StepCount for 1 << StepBits.                          *)
EXTENDS Integers

CONSTANTS NodeCount, StepCount

ASSUME LayoutAssumption ==
  /\ NodeCount \in Nat \ {0}
  /\ StepCount \in Nat \ {0}

\* Mutant: the node number is shifted by one bit too few.
PackNarrow(t, n, s) == (t * NodeCount + n) * (StepCount \div 2) + s

Pack(t, n, s) == (t * NodeCount + n) * StepCount + s

\* (step + 1) & stepMask
\* Mutant: the mask is forgotten.
NextStepUnmasked(s) == s + 1

NextStep(s) == (s + 1) % StepCount
=============================================================================
