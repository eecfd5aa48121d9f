------------------------------ MODULE IdSource ------------------------------
(* What an id generator promises: no id is ever handed out twice.          *)
EXTENDS Naturals, Sequences

CONSTANT Ids
VARIABLE given   \* the ids handed out, in order

Used == {given[i] : i \in DOMAIN given}

Init == given = << >>
Give == \E id \in Ids \ Used : given' = Append(given, id)
Spec == Init /\ [][Give]_given
=============================================================================
