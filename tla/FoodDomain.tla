----------------------------- MODULE FoodDomain -----------------------------
(***************************************************************************)
(* The data both halves of the handover share: the rows of the tables      *)
(* food_items and donations, the two state machines that govern them       *)
(* (app/modules/food_items/models.py, app/modules/donations/models.py),    *)
(* the expiry test, and who may act on what.                               *)
(*                                                                         *)
(* An item's owner and a donation's item and recipient are fixed when the  *)
(* row is inserted and no code path changes them, so they are constants    *)
(* indexed by the primary key: a key not yet inserted already names the    *)
(* row it would become.                                                    *)
(***************************************************************************)
EXTENDS Naturals

CONSTANTS
    Users,        \* accounts
    Admins,       \* the accounts whose role is ADMIN
    Items,        \* primary keys of food_items
    Donations,    \* primary keys of donations
    Owner,        \* Owner[i]: food_items.owner_id
    ItemOf,       \* ItemOf[d]: donations.food_item_id
    RecipientOf,  \* RecipientOf[d]: donations.recipient_id
    Horizon       \* the clock's last instant (bounds the model)

ASSUME DomainAssumption ==
    /\ Admins \subseteq Users
    /\ Owner \in [Items -> Users]
    /\ ItemOf \in [Donations -> Items]
    /\ RecipientOf \in [Donations -> Users]
    /\ Horizon \in Nat

Time == 0..Horizon

-----------------------------------------------------------------------------
(* Rows *)

\* FoodItemStatus, and "UNLISTED" for a key with no row yet.
ItemStatus == {"UNLISTED", "AVAILABLE", "RESERVED", "DONATED", "CANCELLED", "EXPIRED"}

ItemRow == [status : ItemStatus, expires : Time, deleted : BOOLEAN]

Unlisted == [status |-> "UNLISTED", expires |-> 0, deleted |-> FALSE]

\* DonationStatus, and "NONE" for a key with no row yet.
DonationStatus == {"NONE", "PENDING", "ACCEPTED", "COMPLETED", "CANCELLED"}

\* The event types the donation flow writes into the notifications table.
NoticeType == {"REQUESTED", "ACCEPTED", "DECLINED", "COMPLETED", "CANCELLED"}

Notice == [donation : Donations, type : NoticeType]

NoticeOf(d, type) == [donation |-> d, type |-> type]

-----------------------------------------------------------------------------
(* The state machines, as the tables of the code: pairs <<from, to>>. *)

ItemMoves ==
    { <<"AVAILABLE", "RESERVED">>, <<"AVAILABLE", "CANCELLED">>, <<"AVAILABLE", "EXPIRED">>,
      <<"RESERVED", "DONATED">>, <<"RESERVED", "AVAILABLE">>, <<"RESERVED", "EXPIRED">> }

\* Mutant: a pending request can be completed without having been accepted.
DonationMovesSkippingAccept ==
    { <<"PENDING", "ACCEPTED">>, <<"PENDING", "CANCELLED">>, <<"PENDING", "COMPLETED">>,
      <<"ACCEPTED", "COMPLETED">>, <<"ACCEPTED", "CANCELLED">> }

DonationMoves ==
    { <<"PENDING", "ACCEPTED">>, <<"PENDING", "CANCELLED">>,
      <<"ACCEPTED", "COMPLETED">>, <<"ACCEPTED", "CANCELLED">> }

ItemCan(from, to) == <<from, to>> \in ItemMoves

DonationCan(from, to) == <<from, to>> \in DonationMoves

OpenStatuses == {"PENDING", "ACCEPTED"}

-----------------------------------------------------------------------------
(* Predicates on rows *)

\* is_expired: the instant of expiry itself already counts as expired.
IsExpired(row, at) == row.expires <= at

\* What the soft-delete filter of BaseRepository lets a query see.
Visible(row) == row.status # "UNLISTED" /\ ~row.deleted

\* release() sends food that went off while reserved to EXPIRED.
ReleaseTarget(row, at) == IF IsExpired(row, at) THEN "EXPIRED" ELSE "AVAILABLE"

\* The WHERE clause of mark_expired_batch.
DueForSweep(row, at) ==
    /\ Visible(row)
    /\ IsExpired(row, at)
    /\ row.status \in {"AVAILABLE", "RESERVED"}

-----------------------------------------------------------------------------
(* Who may act. The role is read from the token's user. *)

MayManage(actor, i) == actor = Owner[i] \/ actor \in Admins

MayAnswer(actor, d) == MayManage(actor, ItemOf[d])

MayWithdraw(actor, d) == actor = RecipientOf[d] \/ actor \in Admins

\* CannotDonateToSelfError
MayRequest(d) == RecipientOf[d] # Owner[ItemOf[d]]
=============================================================================
