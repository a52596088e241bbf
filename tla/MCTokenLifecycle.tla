--------------------------- MODULE MCTokenLifecycle --------------------------
(* One account, two calls in flight; pairs are alike, and so are calls.      *)
EXTENDS TokenLifecycle, TLC

Symmetry == {p @@ q : p \in Permutations(Pairs), q \in Permutations(Calls)}
=============================================================================
