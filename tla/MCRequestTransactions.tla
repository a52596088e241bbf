------------------------ MODULE MCRequestTransactions ------------------------
(* Olga lists a loaf, and in some runs a soup; two people each ask for one   *)
(* item: both for the loaf, or one for each when there are two.              *)
EXTENDS RequestTransactions, TLC

CONSTANTS olga, rita, sam, loaf, soup, d1, d2, s1, s2

MCOwner == [i \in Items |-> olga]
MCItemOf == [d \in Donations |-> IF d = d2 /\ soup \in Items THEN soup ELSE loaf]
MCRecipientOf == [d \in Donations |-> IF d = d2 THEN sam ELSE rita]

\* The sessions are alike, and so are the requests for one loaf, which differ
\* in nothing but the name of the person who makes them.
SessionSymmetry == Permutations(Sessions)

Symmetry == {p @@ q : p \in Permutations(Sessions), q \in Permutations(Donations)}
=============================================================================
