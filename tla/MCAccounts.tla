------------------------------ MODULE MCAccounts ------------------------------
(* An administrator, and two sign-ups with one address.                       *)
EXTENDS Accounts, TLC

CONSTANTS root, ann, anna, r1, r2

MCEmailOf == [a \in Accounts |-> IF a = root THEN "root@" ELSE "ann@"]

MCSeedPassword == [secret |-> "s", strong |-> FALSE]

Symmetry == Permutations(Requests) \cup Permutations({ann, anna})
=============================================================================
