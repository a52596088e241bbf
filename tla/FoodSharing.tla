---------------------------- MODULE FoodSharing -----------------------------
(***************************************************************************)
(* What the donation flow promises: every HTTP request is one atomic step  *)
(* on the tables food_items, donations and notifications. This is the      *)
(* behaviour of the services when requests do not overlap, and the         *)
(* abstract specification that RequestTransactions is compared with.       *)
(* A request the code rejects changes nothing, so a rejection is a step    *)
(* that is not taken.                                                      *)
(***************************************************************************)
EXTENDS FoodDomain

VARIABLES
    now,        \* utcnow()
    item,       \* item[i]: the row of food_items
    donation,   \* donation[d]: the status column of donations
    notices     \* the notification rows written so far

vars == <<now, item, donation, notices>>

TypeOK ==
    /\ now \in Time
    /\ item \in [Items -> ItemRow]
    /\ donation \in [Donations -> DonationStatus]
    /\ notices \subseteq Notice

Init ==
    /\ now = 0
    /\ item = [i \in Items |-> Unlisted]
    /\ donation = [d \in Donations |-> "NONE"]
    /\ notices = {}

Open(d) == donation[d] \in OpenStatuses

SetStatus(i, status) == item' = [item EXCEPT ![i].status = status]

-----------------------------------------------------------------------------
(* Food items *)

CreateItem(i, expires) ==
    /\ item[i].status = "UNLISTED"
    /\ expires > now
    /\ item' = [item EXCEPT ![i] =
                   [status |-> "AVAILABLE", expires |-> expires, deleted |-> FALSE]]
    /\ UNCHANGED <<now, donation, notices>>

\* PATCH: of the columns an owner may edit, only the expiry date matters here.
UpdateItem(actor, i, expires) ==
    /\ Visible(item[i])
    /\ MayManage(actor, i)
    /\ item[i].status = "AVAILABLE"
    /\ expires > now
    /\ item' = [item EXCEPT ![i].expires = expires]
    /\ UNCHANGED <<now, donation, notices>>

\* Mutant: cancel() writes the status without asking the transition table.
CancelItemUnchecked(actor, i) ==
    /\ Visible(item[i])
    /\ MayManage(actor, i)
    /\ SetStatus(i, "CANCELLED")
    /\ UNCHANGED <<now, donation, notices>>

CancelItem(actor, i) ==
    /\ Visible(item[i])
    /\ MayManage(actor, i)
    /\ ItemCan(item[i].status, "CANCELLED")
    /\ SetStatus(i, "CANCELLED")
    /\ UNCHANGED <<now, donation, notices>>

\* DELETE: no status is consulted.
SoftDelete(actor, i) ==
    /\ Visible(item[i])
    /\ MayManage(actor, i)
    /\ item' = [item EXCEPT ![i].deleted = TRUE]
    /\ UNCHANGED <<now, donation, notices>>

ExpireStaleItems ==
    /\ item' = [i \in Items |->
                   IF DueForSweep(item[i], now)
                   THEN [item[i] EXCEPT !.status = "EXPIRED"] ELSE item[i]]
    /\ UNCHANGED <<now, donation, notices>>

-----------------------------------------------------------------------------
(* Donations. Each step is the donation row, the item row and the notice. *)

HasOpenRequest(recipient, i) ==
    \E d \in Donations : RecipientOf[d] = recipient /\ ItemOf[d] = i /\ Open(d)

\* Mutant: the parties are not told that a donation ended without a handover.
AdvanceSilently(d, status, notice) ==
    /\ DonationCan(donation[d], status)
    /\ donation' = [donation EXCEPT ![d] = status]
    /\ notices' = IF status = "CANCELLED" THEN notices ELSE notices \cup {NoticeOf(d, notice)}
    /\ UNCHANGED now

Advance(d, status, notice) ==
    /\ DonationCan(donation[d], status)
    /\ donation' = [donation EXCEPT ![d] = status]
    /\ notices' = notices \cup {NoticeOf(d, notice)}
    /\ UNCHANGED now

\* Mutants: reserve() without its status check; the notice typed by the status.
RequestDonationUnchecked(d) ==
    LET i == ItemOf[d] IN
    /\ donation[d] = "NONE"
    /\ Visible(item[i])
    /\ MayRequest(d)
    /\ ~HasOpenRequest(RecipientOf[d], i)
    /\ ~IsExpired(item[i], now)
    /\ SetStatus(i, "RESERVED")
    /\ donation' = [donation EXCEPT ![d] = "PENDING"]
    /\ notices' = notices \cup {NoticeOf(d, "REQUESTED")}
    /\ UNCHANGED now

RequestDonationMistyped(d) ==
    LET i == ItemOf[d] IN
    /\ donation[d] = "NONE"
    /\ Visible(item[i])
    /\ MayRequest(d)
    /\ ~HasOpenRequest(RecipientOf[d], i)
    /\ ~IsExpired(item[i], now)
    /\ item[i].status = "AVAILABLE"
    /\ SetStatus(i, "RESERVED")
    /\ donation' = [donation EXCEPT ![d] = "PENDING"]
    /\ notices' = notices \cup {NoticeOf(d, donation'[d])}
    /\ UNCHANGED now

RequestDonation(d) ==
    LET i == ItemOf[d] IN
    /\ donation[d] = "NONE"
    /\ Visible(item[i])
    /\ MayRequest(d)
    /\ ~HasOpenRequest(RecipientOf[d], i)
    /\ ~IsExpired(item[i], now)
    /\ item[i].status = "AVAILABLE"
    /\ SetStatus(i, "RESERVED")
    /\ donation' = [donation EXCEPT ![d] = "PENDING"]
    /\ notices' = notices \cup {NoticeOf(d, "REQUESTED")}
    /\ UNCHANGED now

\* Accepting touches the donation only: the item stays as it is.
Accept(actor, d) ==
    /\ MayAnswer(actor, d)
    /\ Advance(d, "ACCEPTED", "ACCEPTED")
    /\ UNCHANGED item

\* Mutant: the item is left as it is.
ReleaseNothing(i) ==
    /\ Visible(item[i])
    /\ item[i].status = "RESERVED"
    /\ UNCHANGED item

Release(i) ==
    /\ Visible(item[i])
    /\ item[i].status = "RESERVED"
    /\ SetStatus(i, ReleaseTarget(item[i], now))

Decline(actor, d) ==
    /\ MayAnswer(actor, d)
    /\ Advance(d, "CANCELLED", "DECLINED")
    /\ Release(ItemOf[d])

Cancel(actor, d) ==
    /\ MayWithdraw(actor, d)
    /\ Advance(d, "CANCELLED", "CANCELLED")
    /\ Release(ItemOf[d])

\* Mutant: mark_donated() is never called.
CompleteDonationOnly(actor, d) ==
    /\ MayAnswer(actor, d)
    /\ Advance(d, "COMPLETED", "COMPLETED")
    /\ UNCHANGED item

Complete(actor, d) ==
    LET i == ItemOf[d] IN
    /\ MayAnswer(actor, d)
    /\ Advance(d, "COMPLETED", "COMPLETED")
    /\ Visible(item[i])
    /\ ItemCan(item[i].status, "DONATED")
    /\ SetStatus(i, "DONATED")

-----------------------------------------------------------------------------

Tick ==
    /\ now < Horizon
    /\ now' = now + 1
    /\ UNCHANGED <<item, donation, notices>>

ItemStep ==
    \/ ExpireStaleItems
    \/ \E i \in Items, e \in Time : CreateItem(i, e)
    \/ \E actor \in Users, i \in Items :
        \/ CancelItem(actor, i)
        \/ SoftDelete(actor, i)
        \/ \E e \in Time : UpdateItem(actor, i, e)

DonationStep ==
    \E d \in Donations :
        \/ RequestDonation(d)
        \/ \E actor \in Users :
            \/ Accept(actor, d)
            \/ Decline(actor, d)
            \/ Complete(actor, d)
            \/ Cancel(actor, d)

Next == Tick \/ ItemStep \/ DonationStep

Spec == Init /\ [][Next]_vars

-----------------------------------------------------------------------------
(* Safety *)

\* One loaf, one live request: no two open donations name the same item.
\* (reserve() and the status machine of FoodItem are what prevents it.)
SoleClaim ==
    \A d, e \in Donations : Open(d) /\ Open(e) /\ ItemOf[d] = ItemOf[e] => d = e

\* An item that reads RESERVED is held by an open donation, and an open
\* donation's item is RESERVED unless the sweep has expired it. So a listing
\* shown as available or withdrawn has nobody counting on it.
ClaimsMatchItems ==
    /\ \A i \in Items : item[i].status = "RESERVED" =>
           \E d \in Donations : ItemOf[d] = i /\ Open(d)
    /\ \A d \in Donations : Open(d) => item[ItemOf[d]].status \in {"RESERVED", "EXPIRED"}

\* complete() advances both rows to their terminal states together: an item is
\* DONATED exactly when a donation of it is COMPLETED, and only one ever is.
HandoverRecorded ==
    /\ \A i \in Items : item[i].status = "DONATED" =>
           \E d \in Donations : ItemOf[d] = i /\ donation[d] = "COMPLETED"
    /\ \A d \in Donations : donation[d] = "COMPLETED" => item[ItemOf[d]].status = "DONATED"
    /\ \A d, e \in Donations :
           donation[d] = "COMPLETED" /\ donation[e] = "COMPLETED" /\ ItemOf[d] = ItemOf[e] => d = e

\* The notices of each donation, as a set of types.
Told(d) == {t \in NoticeType : NoticeOf(d, t) \in notices}

\* A donation and its notification rows never disagree: what the parties were
\* told is exactly a history that leads to the donation's present status.
NoticesAgree ==
    \A d \in Donations :
        CASE donation[d] = "NONE"      -> Told(d) = {}
          [] donation[d] = "PENDING"   -> Told(d) = {"REQUESTED"}
          [] donation[d] = "ACCEPTED"  -> Told(d) = {"REQUESTED", "ACCEPTED"}
          [] donation[d] = "COMPLETED" -> Told(d) = {"REQUESTED", "ACCEPTED", "COMPLETED"}
          [] donation[d] = "CANCELLED" ->
                \E end \in {"DECLINED", "CANCELLED"} :
                    Told(d) \in {{"REQUESTED", end}, {"REQUESTED", "ACCEPTED", end}}

\* What the code calls terminal is: no step of the system takes a COMPLETED or
\* CANCELLED donation, or a DONATED, CANCELLED or EXPIRED item, anywhere else,
\* and no step brings back an item that was soft-deleted.
FinalIsFinal ==
    [][ /\ \A d \in Donations :
              donation[d] \in {"COMPLETED", "CANCELLED"} => donation'[d] = donation[d]
        /\ \A i \in Items :
              /\ item[i].status \in {"DONATED", "CANCELLED", "EXPIRED"} =>
                     item'[i].status = item[i].status
              /\ item[i].deleted => item'[i].deleted ]_vars

-----------------------------------------------------------------------------
(* A statement of the documentation the serial behaviour already refutes. *)

\* donations/README.md:99 "food_item.status -> AVAILABLE (or EXPIRED, if it went
\* off while reserved)": while a donation is open and its item not deleted, its
\* item is in the state release() takes it from.
OpenDonationCanBeReleased ==
    \A d \in Donations :
        Open(d) /\ ~item[ItemOf[d]].deleted => item[ItemOf[d]].status = "RESERVED"
=============================================================================
