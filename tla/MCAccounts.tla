----------------------------- MODULE MCAccounts -----------------------------
(* Two callbacks, a local login and a logout. An account that gives up its *)
(* address and its rights, and another one with that address or without    *)
(* it; registrations with the address, one of them with the other          *)
(* account's external id and with rights.                                  *)
EXTENDS Accounts, TLC

CONSTANTS n1, n2, c1, c2, l1, o1, ann, bob, m1, x, y

Known ==
  {[ext |-> ann, email |-> m1, name |-> x, admin |-> TRUE],
   [ext |-> ann, email |-> Empty, name |-> x, admin |-> FALSE],
   [ext |-> bob, email |-> m1, name |-> y, admin |-> FALSE],
   [ext |-> bob, email |-> Empty, name |-> y, admin |-> FALSE]}
Forms ==
  {[ext |-> Empty, email |-> m1, name |-> y, admin |-> FALSE],
   [ext |-> bob, email |-> m1, name |-> x, admin |-> TRUE]}
Symmetry == Permutations({n1, n2}) \cup Permutations({c1, c2})
=============================================================================
