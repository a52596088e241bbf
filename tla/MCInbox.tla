------------------------------- MODULE MCInbox -------------------------------
(* Two notifications for one person, whose requests come from several tabs.   *)
EXTENDS Inbox, TLC

CONSTANTS n1, n2, r1, r2, r3, rita

MCAddresseeOf == [n \in Notes |-> rita]

Symmetry == Permutations(Requests)
=============================================================================
