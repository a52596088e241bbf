----------------------------- MODULE InboxPromise -----------------------------
(***************************************************************************)
(* What the notification inbox promises: a notification arrives once, is   *)
(* unread until its addressee marks it, alone or with others, and once     *)
(* dismissed is gone. Nothing becomes unread again, nothing comes back, and *)
(* one step concerns one person.                                           *)
(***************************************************************************)
CONSTANTS Notes, AddresseeOf

VARIABLE box      \* box[n]: what the addressee of n has of it

InboxState == {"absent", "unread", "read", "gone"}

Init == box = [n \in Notes |-> "absent"]

Receive(n) ==
    /\ box[n] = "absent"
    /\ box' = [box EXCEPT ![n] = "unread"]

\* mark_read, or mark_all_read of what one person has not read.
Read(S) ==
    /\ \A n \in S : box[n] = "unread"
    /\ \A n, m \in S : AddresseeOf[n] = AddresseeOf[m]
    /\ box' = [n \in Notes |-> IF n \in S THEN "read" ELSE box[n]]

Dismiss(n) ==
    /\ box[n] \in {"unread", "read"}
    /\ box' = [box EXCEPT ![n] = "gone"]

Next ==
    \/ \E n \in Notes : Receive(n) \/ Dismiss(n)
    \/ \E S \in SUBSET Notes : Read(S)

Spec == Init /\ [][Next]_box
=============================================================================
