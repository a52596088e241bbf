---------------------------- MODULE MCListCache ------------------------------
(* Pages, browses and writes are each alike.                                 *)
EXTENDS ListCache, TLC

Symmetry ==
    {p @@ q @@ r : p \in Permutations(Pages), q \in Permutations(Browses),
                   r \in Permutations(Writes)}
=============================================================================
