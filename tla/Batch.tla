-------------------------------- MODULE Batch --------------------------------
(* What a batch request promises: every article is tried once, and the      *)
(* answer counts them all.                                                   *)
EXTENDS Naturals, FiniteSets

CONSTANT Jobs
VARIABLES outcome, answer

Pending == "pending"
NoAnswer == [total |-> 0, success |-> 0, failure |-> 0, sent |-> FALSE]
Having(o) == {j \in Jobs : outcome[j] = o}

Init ==
  /\ outcome = [j \in Jobs |-> Pending]
  /\ answer = NoAnswer

Finish ==
  /\ \E j \in Having(Pending), o \in {"ok", "failed"} : outcome' = [outcome EXCEPT ![j] = o]
  /\ UNCHANGED answer

Answer ==
  /\ Having(Pending) = {} /\ ~answer.sent
  /\ answer' = [total |-> Cardinality(Jobs), success |-> Cardinality(Having("ok")),
                failure |-> Cardinality(Having("failed")), sent |-> TRUE]
  /\ UNCHANGED outcome

vars == <<outcome, answer>>
Spec == Init /\ [][Finish \/ Answer]_vars /\ WF_vars(Finish) /\ WF_vars(Answer)
=============================================================================
