------------------------- MODULE FoodSharing_proofs -------------------------
(***************************************************************************)
(* The serial donation flow, for any number of users, items and donations. *)
(*                                                                         *)
(* SoleClaim is not inductive: that a request finds no open donation of an *)
(* AVAILABLE item is ClaimsMatchItems, and that releasing an item leaves   *)
(* no other open donation behind is SoleClaim again, so the two are proved *)
(* together, with HandoverRecorded.                                        *)
(***************************************************************************)
EXTENDS FoodSharing, TLAPS

-----------------------------------------------------------------------------
(* Types *)

\* Every row stays a row: each handler writes a status of its enumeration and
\* an expiry date the schema accepts.
THEOREM TypeCorrect == Spec => []TypeOK
<1>1. Init => TypeOK
  BY DomainAssumption DEF Init, TypeOK, Time, ItemRow, ItemStatus, Unlisted, DonationStatus
<1>2. TypeOK /\ [Next]_vars => TypeOK'
  <2> SUFFICES ASSUME TypeOK, [Next]_vars PROVE TypeOK'
    OBVIOUS
  <2> USE DEF TypeOK
  <2>1. CASE ItemStep
    <3>1. ASSUME ExpireStaleItems PROVE TypeOK'
      BY <3>1 DEF ExpireStaleItems, ItemRow, ItemStatus
    <3>2. ASSUME NEW i \in Items, NEW e \in Time, CreateItem(i, e) PROVE TypeOK'
      BY <3>2 DEF CreateItem, ItemRow, ItemStatus
    <3>3. ASSUME NEW a \in Users, NEW i \in Items, CancelItem(a, i) PROVE TypeOK'
      BY <3>3 DEF CancelItem, SetStatus, ItemRow, ItemStatus
    <3>4. ASSUME NEW a \in Users, NEW i \in Items, SoftDelete(a, i) PROVE TypeOK'
      BY <3>4 DEF SoftDelete, ItemRow
    <3>5. ASSUME NEW a \in Users, NEW i \in Items, NEW e \in Time, UpdateItem(a, i, e)
          PROVE TypeOK'
      BY <3>5 DEF UpdateItem, ItemRow
    <3> QED
      BY <2>1, <3>1, <3>2, <3>3, <3>4, <3>5 DEF ItemStep
  <2>2. CASE DonationStep
    <3> SUFFICES ASSUME NEW d \in Donations,
                        RequestDonation(d) \/ \E a \in Users : \/ Accept(a, d) \/ Decline(a, d)
                                                               \/ Complete(a, d) \/ Cancel(a, d)
                 PROVE TypeOK'
      BY <2>2 DEF DonationStep
    <3>0. ItemOf[d] \in Items
      BY DomainAssumption
    <3>a. ASSUME NEW s \in ItemStatus, SetStatus(ItemOf[d], s)
          PROVE item' \in [Items -> ItemRow]
      BY <3>0, <3>a DEF SetStatus, ItemRow
    <3>b. ASSUME NEW s \in DonationStatus, NEW t \in NoticeType, Advance(d, s, t)
          PROVE /\ donation' \in [Donations -> DonationStatus]
                /\ notices' \subseteq Notice
                /\ now' \in Time
      BY <3>b DEF Advance, NoticeOf, Notice
    <3>1. CASE RequestDonation(d)
      <4>1. item' \in [Items -> ItemRow]
        BY <3>1, <3>a DEF RequestDonation, ItemStatus
      <4> QED
        BY <3>1, <4>1 DEF RequestDonation, DonationStatus, NoticeOf, Notice, NoticeType
    <3>2. ASSUME NEW a \in Users, Accept(a, d) PROVE TypeOK'
      BY <3>2, <3>b DEF Accept, DonationStatus, NoticeType
    <3>3. ASSUME NEW a \in Users, Decline(a, d) PROVE TypeOK'
      BY <3>3, <3>a, <3>b DEF Decline, Release, ReleaseTarget, ItemStatus, DonationStatus, NoticeType
    <3>4. ASSUME NEW a \in Users, Cancel(a, d) PROVE TypeOK'
      BY <3>4, <3>a, <3>b DEF Cancel, Release, ReleaseTarget, ItemStatus, DonationStatus, NoticeType
    <3>5. ASSUME NEW a \in Users, Complete(a, d) PROVE TypeOK'
      BY <3>5, <3>a, <3>b DEF Complete, ItemStatus, DonationStatus, NoticeType
    <3> QED
      BY <3>1, <3>2, <3>3, <3>4, <3>5
  <2>3. CASE Tick
    BY <2>3, DomainAssumption DEF Tick, Time
  <2>4. CASE UNCHANGED vars
    BY <2>4 DEF vars
  <2> QED
    BY <2>1, <2>2, <2>3, <2>4 DEF Next
<1> QED
  BY <1>1, <1>2, PTL DEF Spec

-----------------------------------------------------------------------------
(* The effect of each kind of step *)

\* What the owner of a listing and the sweep may do to items, all at once.
ListingMoves ==
    { <<"UNLISTED", "AVAILABLE">>, <<"AVAILABLE", "CANCELLED">>,
      <<"AVAILABLE", "EXPIRED">>, <<"RESERVED", "EXPIRED">> }

ListingStep ==
    /\ \A i \in Items : \/ item'[i].status = item[i].status
                        \/ <<item[i].status, item'[i].status>> \in ListingMoves
    /\ \A i \in Items : item[i].status # "UNLISTED" /\ item[i].deleted => item'[i].deleted
    /\ \A i \in Items : item'[i].status = "UNLISTED" => item'[i].deleted = item[i].deleted
    /\ UNCHANGED <<donation, notices>>

\* An item-service call leaves every donation alone and takes a claimed item
\* nowhere but to EXPIRED.
LEMMA ItemStepIsListingStep == TypeOK /\ ItemStep => ListingStep
<1> SUFFICES ASSUME TypeOK, ItemStep PROVE ListingStep
  OBVIOUS
<1> USE DEF TypeOK, ListingStep, ListingMoves
<1>1. ASSUME ExpireStaleItems PROVE ListingStep
  BY <1>1 DEF ExpireStaleItems, DueForSweep, Visible, ItemRow
<1>2. ASSUME NEW i \in Items, NEW e \in Time, CreateItem(i, e) PROVE ListingStep
  BY <1>2 DEF CreateItem, ItemRow
<1>3. ASSUME NEW a \in Users, NEW i \in Items, CancelItem(a, i) PROVE ListingStep
  BY <1>3 DEF CancelItem, SetStatus, ItemCan, ItemMoves, ItemRow
<1>4. ASSUME NEW a \in Users, NEW i \in Items, SoftDelete(a, i) PROVE ListingStep
  BY <1>4 DEF SoftDelete, Visible, ItemRow
<1>5. ASSUME NEW a \in Users, NEW i \in Items, NEW e \in Time, UpdateItem(a, i, e)
      PROVE ListingStep
  BY <1>5 DEF UpdateItem, Visible, ItemRow
<1> QED
  BY <1>1, <1>2, <1>3, <1>4, <1>5 DEF ItemStep

\* Donation d moves from one of "from" to "to", telling its parties "told".
Moves(d, from, to, told) ==
    /\ donation[d] \in from
    /\ donation' = [donation EXCEPT ![d] = to]
    /\ notices' = notices \cup {NoticeOf(d, told)}

\* The item of d, and no other, takes a status of "to" from the status "from".
ItemFollows(d, from, to) ==
    /\ item[ItemOf[d]].status = from
    /\ item'[ItemOf[d]].status \in to
    /\ \A i \in Items \ {ItemOf[d]} : item'[i] = item[i]
    /\ \A i \in Items : item'[i].deleted = item[i].deleted

\* What each call of the donation service does to the pair of rows.
LEMMA DonationStepEffect ==
    ASSUME TypeOK, DonationStep
    PROVE  \E d \in Donations :
              \/ /\ Moves(d, {"NONE"}, "PENDING", "REQUESTED")
                 /\ ItemFollows(d, "AVAILABLE", {"RESERVED"})
              \/ /\ Moves(d, {"PENDING"}, "ACCEPTED", "ACCEPTED")
                 /\ UNCHANGED item
              \/ /\ \E told \in {"DECLINED", "CANCELLED"} :
                       Moves(d, OpenStatuses, "CANCELLED", told)
                 /\ ItemFollows(d, "RESERVED", {"AVAILABLE", "EXPIRED"})
              \/ /\ Moves(d, {"ACCEPTED"}, "COMPLETED", "COMPLETED")
                 /\ ItemFollows(d, "RESERVED", {"DONATED"})
<1> USE DEF TypeOK
<1> PICK d \in Donations : \/ RequestDonation(d)
                           \/ \E a \in Users : \/ Accept(a, d) \/ Decline(a, d)
                                               \/ Complete(a, d) \/ Cancel(a, d)
  BY DEF DonationStep
<1>0. ItemOf[d] \in Items
  BY DomainAssumption
<1>a. ASSUME NEW s, SetStatus(ItemOf[d], s)
      PROVE /\ item'[ItemOf[d]].status = s
            /\ \A i \in Items \ {ItemOf[d]} : item'[i] = item[i]
            /\ \A i \in Items : item'[i].deleted = item[i].deleted
  BY <1>0, <1>a DEF SetStatus, ItemRow
<1>1. CASE RequestDonation(d)
  <2>1. ItemFollows(d, "AVAILABLE", {"RESERVED"})
    BY <1>1, <1>a DEF RequestDonation, ItemFollows
  <2> QED
    BY <1>1, <2>1 DEF RequestDonation, Moves
<1>2. ASSUME NEW a \in Users, Accept(a, d)
      PROVE Moves(d, {"PENDING"}, "ACCEPTED", "ACCEPTED") /\ UNCHANGED item
  BY <1>2 DEF Accept, Advance, DonationCan, DonationMoves, Moves
<1>3. ASSUME NEW a \in Users, Decline(a, d) \/ Cancel(a, d)
      PROVE /\ \E told \in {"DECLINED", "CANCELLED"} : Moves(d, OpenStatuses, "CANCELLED", told)
            /\ ItemFollows(d, "RESERVED", {"AVAILABLE", "EXPIRED"})
  <2>1. Release(ItemOf[d])
    BY <1>3 DEF Decline, Cancel
  <2>2. ItemFollows(d, "RESERVED", {"AVAILABLE", "EXPIRED"})
    BY <2>1, <1>a DEF Release, ReleaseTarget, ItemFollows
  <2> QED
    BY <1>3, <2>2 DEF Decline, Cancel, Advance, DonationCan, DonationMoves, OpenStatuses, Moves
<1>4. ASSUME NEW a \in Users, Complete(a, d)
      PROVE /\ Moves(d, {"ACCEPTED"}, "COMPLETED", "COMPLETED")
            /\ ItemFollows(d, "RESERVED", {"DONATED"})
  <2>1. item[ItemOf[d]].status = "RESERVED" /\ SetStatus(ItemOf[d], "DONATED")
    BY <1>4 DEF Complete, ItemCan, ItemMoves
  <2>2. ItemFollows(d, "RESERVED", {"DONATED"})
    BY <2>1, <1>a DEF ItemFollows
  <2> QED
    BY <1>4, <2>2 DEF Complete, Advance, DonationCan, DonationMoves, Moves
<1> QED
  BY <1>1, <1>2, <1>3, <1>4

-----------------------------------------------------------------------------
(* Claims and handovers *)

ClaimInv == TypeOK /\ SoleClaim /\ ClaimsMatchItems /\ HandoverRecorded

\* Nothing an owner or the sweep does to a listing separates it from its claim.
LEMMA ListingStepKeepsClaims == ClaimInv /\ ListingStep =>
          SoleClaim' /\ ClaimsMatchItems' /\ HandoverRecorded'
<1> SUFFICES ASSUME ClaimInv, ListingStep
             PROVE  SoleClaim' /\ ClaimsMatchItems' /\ HandoverRecorded'
  OBVIOUS
<1>0. \A d \in Donations : ItemOf[d] \in Items
  BY DomainAssumption
<1> USE DEF ClaimInv, ListingStep, ListingMoves, Open
<1>1. SoleClaim'
  BY DEF SoleClaim
<1>2. ClaimsMatchItems'
  BY <1>0 DEF ClaimsMatchItems
<1>3. HandoverRecorded'
  BY <1>0 DEF HandoverRecorded
<1> QED
  BY <1>1, <1>2, <1>3

\* Nor does any call of the donation service.
LEMMA DonationStepKeepsClaims == ClaimInv /\ DonationStep =>
          SoleClaim' /\ ClaimsMatchItems' /\ HandoverRecorded'
<1> SUFFICES ASSUME ClaimInv, DonationStep
             PROVE  SoleClaim' /\ ClaimsMatchItems' /\ HandoverRecorded'
  OBVIOUS
<1>0. \A d \in Donations : ItemOf[d] \in Items
  BY DomainAssumption
<1>d. donation \in [Donations -> DonationStatus] /\ TypeOK
  BY DEF ClaimInv, TypeOK
<1> PICK d \in Donations :
      \/ /\ Moves(d, {"NONE"}, "PENDING", "REQUESTED")
         /\ ItemFollows(d, "AVAILABLE", {"RESERVED"})
      \/ /\ Moves(d, {"PENDING"}, "ACCEPTED", "ACCEPTED")
         /\ UNCHANGED item
      \/ /\ \E told \in {"DECLINED", "CANCELLED"} : Moves(d, OpenStatuses, "CANCELLED", told)
         /\ ItemFollows(d, "RESERVED", {"AVAILABLE", "EXPIRED"})
      \/ /\ Moves(d, {"ACCEPTED"}, "COMPLETED", "COMPLETED")
         /\ ItemFollows(d, "RESERVED", {"DONATED"})
  BY <1>d, DonationStepEffect
<1> USE <1>0, <1>d DEF ClaimInv, SoleClaim, ClaimsMatchItems, HandoverRecorded,
                       Open, OpenStatuses, Moves, ItemFollows
\* The item was AVAILABLE, so by ClaimsMatchItems nobody held it.
<1>1. CASE Moves(d, {"NONE"}, "PENDING", "REQUESTED") /\ ItemFollows(d, "AVAILABLE", {"RESERVED"})
  <2>1. \A e \in Donations : ItemOf[e] = ItemOf[d] => ~Open(e) /\ donation[e] # "COMPLETED"
    BY <1>1
  <2>2. SoleClaim'
    BY <1>1, <2>1
  <2>3. ClaimsMatchItems'
    BY <1>1, <2>1
  <2>4. HandoverRecorded'
    BY <1>1, <2>1
  <2> QED
    BY <2>2, <2>3, <2>4
\* Both statuses are open ones: no claim appears or goes.
<1>2. CASE Moves(d, {"PENDING"}, "ACCEPTED", "ACCEPTED") /\ UNCHANGED item
  <2>1. \A e \in Donations : Open(e)' <=> Open(e)
    BY <1>2
  <2>2. SoleClaim' /\ ClaimsMatchItems'
    BY <1>2, <2>1
  <2>3. HandoverRecorded'
    BY <1>2
  <2> QED
    BY <2>2, <2>3
\* By SoleClaim d was the item's only claim: the item may be listed again.
<1>3. ASSUME NEW told \in {"DECLINED", "CANCELLED"}, Moves(d, OpenStatuses, "CANCELLED", told),
             ItemFollows(d, "RESERVED", {"AVAILABLE", "EXPIRED"})
      PROVE  SoleClaim' /\ ClaimsMatchItems' /\ HandoverRecorded'
  <2>1. \A e \in Donations \ {d} : ItemOf[e] = ItemOf[d] => ~Open(e)
    BY <1>3
  <2>2. SoleClaim'
    BY <1>3
  <2>3. ClaimsMatchItems'
    BY <1>3, <2>1
  <2>4. HandoverRecorded'
    BY <1>3
  <2> QED
    BY <2>2, <2>3, <2>4
\* The item was RESERVED, so no earlier donation of it had been completed.
<1>4. CASE Moves(d, {"ACCEPTED"}, "COMPLETED", "COMPLETED") /\ ItemFollows(d, "RESERVED", {"DONATED"})
  <2>1. \A e \in Donations \ {d} :
           ItemOf[e] = ItemOf[d] => ~Open(e) /\ donation[e] # "COMPLETED"
    BY <1>4
  <2>2. SoleClaim'
    BY <1>4
  <2>3. ClaimsMatchItems'
    BY <1>4, <2>1
  <2>4. HandoverRecorded'
    BY <1>4, <2>1
  <2> QED
    BY <2>2, <2>3, <2>4
<1> QED
  BY <1>1, <1>2, <1>3, <1>4

LEMMA ClaimInvariant == Spec => []ClaimInv
<1>1. Init => SoleClaim /\ ClaimsMatchItems /\ HandoverRecorded
  BY DomainAssumption DEF Init, Unlisted, SoleClaim, ClaimsMatchItems, HandoverRecorded,
                          Open, OpenStatuses
<1>2. ClaimInv /\ TypeOK' /\ [Next]_vars => ClaimInv'
  <2> SUFFICES ASSUME ClaimInv, TypeOK', [Next]_vars PROVE ClaimInv'
    OBVIOUS
  <2>1. CASE ItemStep
    BY <2>1, ItemStepIsListingStep, ListingStepKeepsClaims DEF ClaimInv
  <2>2. CASE DonationStep
    BY <2>2, DonationStepKeepsClaims DEF ClaimInv
  <2>3. CASE Tick \/ UNCHANGED vars
    BY <2>3 DEF Tick, vars, ClaimInv, SoleClaim, ClaimsMatchItems, HandoverRecorded, Open
  <2> QED
    BY <2>1, <2>2, <2>3 DEF Next
<1> QED
  BY <1>1, <1>2, TypeCorrect, PTL DEF Spec, ClaimInv

\* request_donation() on an item somebody already holds is refused: no two open
\* donations ever name one item.
THEOREM SoleClaimHolds == Spec => []SoleClaim
BY ClaimInvariant, PTL DEF ClaimInv

\* A RESERVED item has an open donation, and an open donation's item is RESERVED
\* or was expired by the sweep.
THEOREM ClaimsMatchItemsHolds == Spec => []ClaimsMatchItems
BY ClaimInvariant, PTL DEF ClaimInv

\* complete() records the handover in both tables, and once per item.
THEOREM HandoverRecordedHolds == Spec => []HandoverRecorded
BY ClaimInvariant, PTL DEF ClaimInv

-----------------------------------------------------------------------------
(* Terminal states *)

UnlistedIsNotDeleted == \A i \in Items : item[i].status = "UNLISTED" => ~item[i].deleted

TerminalKept ==
    /\ \A d \in Donations :
          donation[d] \in {"COMPLETED", "CANCELLED"} => donation'[d] = donation[d]
    /\ \A i \in Items :
          /\ item[i].status \in {"DONATED", "CANCELLED", "EXPIRED"} =>
                 item'[i].status = item[i].status
          /\ item[i].deleted => item'[i].deleted

\* The donation step's own rows move only out of states that are not terminal.
LEMMA DonationStepKeepsTerminal ==
    ASSUME TypeOK, UnlistedIsNotDeleted, DonationStep
    PROVE  TerminalKept /\ UnlistedIsNotDeleted'
<1>0. \A d \in Donations : ItemOf[d] \in Items
  BY DomainAssumption
<1>d. donation \in [Donations -> DonationStatus]
  BY DEF TypeOK
<1>1. ASSUME NEW d \in Donations, NEW from \in SUBSET {"NONE", "PENDING", "ACCEPTED"},
             NEW to, NEW told, Moves(d, from, to, told)
      PROVE  \A e \in Donations :
                donation[e] \in {"COMPLETED", "CANCELLED"} => donation'[e] = donation[e]
  BY <1>1, <1>d DEF Moves
<1>2. ASSUME NEW d \in Donations, NEW from \in {"AVAILABLE", "RESERVED"},
             NEW to \in {{"RESERVED"}, {"AVAILABLE", "EXPIRED"}, {"DONATED"}},
             ItemFollows(d, from, to)
      PROVE  /\ \A i \in Items :
                   /\ item[i].status \in {"DONATED", "CANCELLED", "EXPIRED"} =>
                          item'[i].status = item[i].status
                   /\ item[i].deleted => item'[i].deleted
             /\ UnlistedIsNotDeleted'
  BY <1>0, <1>2 DEF ItemFollows, UnlistedIsNotDeleted
<1> PICK d \in Donations :
      \/ /\ Moves(d, {"NONE"}, "PENDING", "REQUESTED")
         /\ ItemFollows(d, "AVAILABLE", {"RESERVED"})
      \/ /\ Moves(d, {"PENDING"}, "ACCEPTED", "ACCEPTED")
         /\ UNCHANGED item
      \/ /\ \E told \in {"DECLINED", "CANCELLED"} : Moves(d, OpenStatuses, "CANCELLED", told)
         /\ ItemFollows(d, "RESERVED", {"AVAILABLE", "EXPIRED"})
      \/ /\ Moves(d, {"ACCEPTED"}, "COMPLETED", "COMPLETED")
         /\ ItemFollows(d, "RESERVED", {"DONATED"})
  BY DonationStepEffect
<1>3. CASE Moves(d, {"NONE"}, "PENDING", "REQUESTED") /\ ItemFollows(d, "AVAILABLE", {"RESERVED"})
  BY <1>1, <1>2, <1>3 DEF TerminalKept
<1>4. CASE Moves(d, {"PENDING"}, "ACCEPTED", "ACCEPTED") /\ UNCHANGED item
  BY <1>1, <1>4 DEF TerminalKept, UnlistedIsNotDeleted
<1>5. CASE /\ \E told \in {"DECLINED", "CANCELLED"} : Moves(d, OpenStatuses, "CANCELLED", told)
           /\ ItemFollows(d, "RESERVED", {"AVAILABLE", "EXPIRED"})
  BY <1>1, <1>2, <1>5 DEF TerminalKept, OpenStatuses
<1>6. CASE Moves(d, {"ACCEPTED"}, "COMPLETED", "COMPLETED") /\ ItemFollows(d, "RESERVED", {"DONATED"})
  BY <1>1, <1>2, <1>6 DEF TerminalKept
<1> QED
  BY <1>3, <1>4, <1>5, <1>6

\* No step leaves a terminal status of the two state machines, and no step
\* brings back a soft-deleted row. (A key with no row yet is not a deleted row.)
THEOREM FinalIsFinalHolds == Spec => FinalIsFinal
<1>1. Init => UnlistedIsNotDeleted
  BY DEF Init, Unlisted, UnlistedIsNotDeleted
<1>2. TypeOK /\ UnlistedIsNotDeleted /\ [Next]_vars =>
          UnlistedIsNotDeleted' /\ [TerminalKept]_vars
  <2> SUFFICES ASSUME TypeOK, UnlistedIsNotDeleted, [Next]_vars
               PROVE  TerminalKept /\ UnlistedIsNotDeleted'
    OBVIOUS
  <2>1. CASE ItemStep
    BY <2>1, ItemStepIsListingStep
       DEF ListingStep, ListingMoves, TerminalKept, UnlistedIsNotDeleted
  <2>2. CASE DonationStep
    BY <2>2, DonationStepKeepsTerminal
  <2>3. CASE Tick \/ UNCHANGED vars
    BY <2>3 DEF Tick, vars, TerminalKept, UnlistedIsNotDeleted
  <2> QED
    BY <2>1, <2>2, <2>3 DEF Next
<1> QED
  BY <1>1, <1>2, TypeCorrect, PTL DEF Spec, FinalIsFinal, TerminalKept

-----------------------------------------------------------------------------
(* Notifications *)

\* The NoticesAgree of one donation, given its status and the types of its notices.
Agrees(status, told) ==
    CASE status = "NONE"      -> told = {}
      [] status = "PENDING"   -> told = {"REQUESTED"}
      [] status = "ACCEPTED"  -> told = {"REQUESTED", "ACCEPTED"}
      [] status = "COMPLETED" -> told = {"REQUESTED", "ACCEPTED", "COMPLETED"}
      [] status = "CANCELLED" ->
            \E end \in {"DECLINED", "CANCELLED"} :
                told \in {{"REQUESTED", end}, {"REQUESTED", "ACCEPTED", end}}

LEMMA AgreeByDonation == NoticesAgree <=> \A d \in Donations : Agrees(donation[d], Told(d))
BY DEF NoticesAgree, Agrees

\* Each move of the state machine appends the one notice its new status asks for.
LEMMA AgreesAdvances ==
    /\ Agrees("NONE", {})
    /\ \A t : Agrees("NONE", t) => Agrees("PENDING", t \cup {"REQUESTED"})
    /\ \A t : Agrees("PENDING", t) => Agrees("ACCEPTED", t \cup {"ACCEPTED"})
    /\ \A t : Agrees("ACCEPTED", t) => Agrees("COMPLETED", t \cup {"COMPLETED"})
    /\ \A t, end : end \in {"DECLINED", "CANCELLED"} /\ (Agrees("PENDING", t) \/ Agrees("ACCEPTED", t))
                  => Agrees("CANCELLED", t \cup {end})
<1>1. Agrees("NONE", {})
  BY DEF Agrees
<1>2. ASSUME NEW t, Agrees("NONE", t) PROVE Agrees("PENDING", t \cup {"REQUESTED"})
  BY <1>2 DEF Agrees
<1>3. ASSUME NEW t, Agrees("PENDING", t) PROVE Agrees("ACCEPTED", t \cup {"ACCEPTED"})
  BY <1>3 DEF Agrees
<1>4. ASSUME NEW t, Agrees("ACCEPTED", t) PROVE Agrees("COMPLETED", t \cup {"COMPLETED"})
  BY <1>4 DEF Agrees
<1>5. ASSUME NEW t, NEW end \in {"DECLINED", "CANCELLED"}, Agrees("PENDING", t) \/ Agrees("ACCEPTED", t)
      PROVE  Agrees("CANCELLED", t \cup {end})
  <2>1. t \cup {end} \in {{"REQUESTED", end}, {"REQUESTED", "ACCEPTED", end}}
    BY <1>5 DEF Agrees
  <2> QED
    BY <2>1 DEF Agrees
<1> QED
  BY <1>1, <1>2, <1>3, <1>4, <1>5

\* A notice is about one donation.
LEMMA MovesTells ==
    ASSUME NEW d \in Donations, NEW from, NEW to, NEW told \in NoticeType, Moves(d, from, to, told)
    PROVE  /\ Told(d)' = Told(d) \cup {told}
           /\ \A e \in Donations \ {d} : Told(e)' = Told(e)
BY DEF Moves, Told, NoticeOf

\* The notice is written in the step that writes the status, so what the parties
\* were told is at all times a history of the donation.
THEOREM NoticesAgreeHolds == Spec => []NoticesAgree
<1>1. Init => NoticesAgree
  <2> SUFFICES ASSUME Init, NEW d \in Donations PROVE Agrees(donation[d], Told(d))
    BY AgreeByDonation
  <2>1. donation[d] = "NONE" /\ Told(d) = {}
    BY DEF Init, Told
  <2> QED
    BY <2>1, AgreesAdvances
<1>2. TypeOK /\ NoticesAgree /\ [Next]_vars => NoticesAgree'
  <2> SUFFICES ASSUME TypeOK, NoticesAgree, [Next]_vars PROVE NoticesAgree'
    OBVIOUS
  <2>0. \A e \in Donations : Agrees(donation[e], Told(e))
    BY AgreeByDonation
  <2>a. NoticesAgree' <=> \A e \in Donations : Agrees(donation'[e], Told(e)')
    BY DEF NoticesAgree, Agrees
  <2>1. CASE UNCHANGED <<donation, notices>>
    BY <2>1 DEF NoticesAgree, Told
  <2>2. CASE DonationStep
    <3>1. PICK d \in Donations :
            \/ Moves(d, {"NONE"}, "PENDING", "REQUESTED")
            \/ Moves(d, {"PENDING"}, "ACCEPTED", "ACCEPTED")
            \/ \E end \in {"DECLINED", "CANCELLED"} : Moves(d, OpenStatuses, "CANCELLED", end)
            \/ Moves(d, {"ACCEPTED"}, "COMPLETED", "COMPLETED")
      BY <2>2, DonationStepEffect
    <3>2. ASSUME NEW from, NEW to, NEW told \in NoticeType, Moves(d, from, to, told),
                 Agrees(to, Told(d) \cup {told})
          PROVE  NoticesAgree'
      <4>1. Agrees(donation'[d], Told(d)')
        BY <3>2, MovesTells DEF TypeOK, Moves
      <4>2. \A e \in Donations \ {d} : donation'[e] = donation[e] /\ Told(e)' = Told(e)
        BY <3>2, MovesTells DEF TypeOK, Moves
      <4> QED
        BY <2>0, <2>a, <4>1, <4>2
    <3>3. CASE Moves(d, {"NONE"}, "PENDING", "REQUESTED")
      BY <2>0, <3>2, <3>3, AgreesAdvances DEF Moves, NoticeType
    <3>4. CASE Moves(d, {"PENDING"}, "ACCEPTED", "ACCEPTED")
      BY <2>0, <3>2, <3>4, AgreesAdvances DEF Moves, NoticeType
    <3>5. ASSUME NEW end \in {"DECLINED", "CANCELLED"}, Moves(d, OpenStatuses, "CANCELLED", end)
          PROVE  NoticesAgree'
      BY <2>0, <3>2, <3>5, AgreesAdvances DEF Moves, NoticeType, OpenStatuses
    <3>6. CASE Moves(d, {"ACCEPTED"}, "COMPLETED", "COMPLETED")
      BY <2>0, <3>2, <3>6, AgreesAdvances DEF Moves, NoticeType
    <3> QED
      BY <3>1, <3>3, <3>4, <3>5, <3>6
  <2> QED
    BY <2>1, <2>2, ItemStepIsListingStep DEF Next, Tick, vars, ListingStep
<1> QED
  BY <1>1, <1>2, TypeCorrect, PTL DEF Spec
=============================================================================
