------------------------ MODULE RequestTransactions -------------------------
(***************************************************************************)
(* The donation flow as it runs: each HTTP request is one AsyncSession and *)
(* one PostgreSQL transaction at READ COMMITTED, and requests interleave   *)
(* between any two SQL statements.                                         *)
(*                                                                         *)
(* - A plain SELECT reads committed rows and takes no lock.                *)
(* - UPDATE and SELECT ... FOR UPDATE wait for the row's lock and hold it  *)
(*   until the transaction ends; an UPDATE changes only the columns that   *)
(*   were set, on top of the row as it is once the lock is granted.        *)
(* - A session keeps the entity it first loaded (the identity map): a      *)
(*   later SELECT ... FOR UPDATE of the same row, without                  *)
(*   populate_existing, re-evaluates its WHERE clause on the fresh row but *)
(*   leaves the attributes of the loaded entity alone. The services then   *)
(*   decide on those attributes.                                           *)
(* - get_db commits when the handler returns and rolls back when anything  *)
(*   is raised; a cancelled request or a dead process also rolls back.     *)
(*                                                                         *)
(* An INSERT is invisible to, and waited for by, nobody until the commit,  *)
(* so it is taken together with the statement before it. A call refused by *)
(* the authorization check, which looks at immutable data only, changes    *)
(* nothing and is not begun.                                               *)
(***************************************************************************)
EXTENDS FoodDomain

CONSTANTS
    Sessions,     \* requests that can be in flight at once
    Ops,          \* the operations that are called
    NoSession, NoDonation, NoItem

HandoverOps == {"accept", "decline", "complete", "cancel"}

OwnerOps == {"update", "withdraw", "remove"}

ASSUME SessionAssumption ==
    /\ Ops \subseteq HandoverOps \cup OwnerOps \cup {"request", "sweep"}
    /\ NoSession \notin Sessions
    /\ NoDonation \notin Donations
    /\ NoItem \notin Items

VARIABLES
    now,           \* utcnow()
    item,          \* item[i]: the committed row
    donation,      \* donation[d]: the committed status
    notices,       \* the committed notification rows
    session,       \* session[s]: what the request in s is doing and has read
    itemLock,      \* itemLock[i]: the session that holds the row's lock
    itemNew,       \* itemNew[i]: the row's latest version: its lock holder's, or the committed one
    donationLock,
    donationNew

database == <<item, donation, notices>>
writes == <<itemLock, itemNew, donationLock, donationNew>>
vars == <<now, database, session, writes>>

-----------------------------------------------------------------------------
(* A session: the operation and its next statement, the keys it was called *)
(* with, the entities as it loaded them, the instant it read the clock, a  *)
(* sweep's remaining rows, and the notification it has inserted.           *)

Stage == {"idle", "duplicates", "reserve", "load", "advance", "settle",
          "write", "sweep", "commit"}

Session ==
    [ op : HandoverOps \cup OwnerOps \cup {"none", "request", "sweep"},
      stage : Stage,
      d : Donations \cup {NoDonation},
      i : Items \cup {NoItem},
      sawDonation : DonationStatus,
      sawItem : ItemRow,
      at : Time,
      todo : SUBSET Items,
      notice : NoticeType \cup {"none"} ]

Idle ==
    [ op |-> "none", stage |-> "idle", d |-> NoDonation, i |-> NoItem,
      sawDonation |-> "NONE", sawItem |-> Unlisted, at |-> 0,
      todo |-> {}, notice |-> "none" ]

TypeOK ==
    /\ now \in Time
    /\ item \in [Items -> ItemRow]
    /\ donation \in [Donations -> DonationStatus]
    /\ notices \subseteq Notice
    /\ session \in [Sessions -> Session]
    /\ itemLock \in [Items -> Sessions \cup {NoSession}]
    /\ itemNew \in [Items -> ItemRow]
    /\ donationLock \in [Donations -> Sessions \cup {NoSession}]
    /\ donationNew \in [Donations -> DonationStatus]

Init ==
    /\ now = 0
    /\ item = [i \in Items |-> Unlisted]
    /\ donation = [d \in Donations |-> "NONE"]
    /\ notices = {}
    /\ session = [s \in Sessions |-> Idle]
    /\ itemLock = [i \in Items |-> NoSession]
    /\ itemNew = item
    /\ donationLock = [d \in Donations |-> NoSession]
    /\ donationNew = donation

Open(d) == donation[d] \in OpenStatuses

-----------------------------------------------------------------------------
(* Sessions and locks *)

\* The dependency injects a fresh session; the operation runs its first SELECT.
Begin(s, op, first) ==
    /\ op \in Ops
    /\ session[s] = Idle
    /\ session' = [session EXCEPT ![s] = first]
    /\ UNCHANGED <<now, database, writes>>

\* A lock is granted when it is free; its holder need not wait for itself.
Granted(lock, s) == lock \in {NoSession, s}

WriteItemRow(s, i, row) ==
    /\ Granted(itemLock[i], s)
    /\ itemLock' = [itemLock EXCEPT ![i] = s]
    /\ itemNew' = [itemNew EXCEPT ![i] = row]

WriteDonationRow(s, d, status) ==
    /\ Granted(donationLock[d], s)
    /\ donationLock' = [donationLock EXCEPT ![d] = s]
    /\ donationNew' = [donationNew EXCEPT ![d] = status]

\* Mutant: the item's lock is never given back.
CloseKeepingItemLock(s) ==
    /\ session' = [session EXCEPT ![s] = Idle]
    /\ itemNew' = [i \in Items |-> IF itemLock[i] = s THEN item'[i] ELSE itemNew[i]]
    /\ donationLock' =
           [d \in Donations |-> IF donationLock[d] = s THEN NoSession ELSE donationLock[d]]
    /\ donationNew' =
           [d \in Donations |-> IF donationLock[d] = s THEN donation'[d] ELSE donationNew[d]]
    /\ UNCHANGED itemLock

\* The session closes: its locks go, its written rows become the visible ones.
Close(s) ==
    /\ session' = [session EXCEPT ![s] = Idle]
    /\ itemLock' = [i \in Items |-> IF itemLock[i] = s THEN NoSession ELSE itemLock[i]]
    /\ donationLock' =
           [d \in Donations |-> IF donationLock[d] = s THEN NoSession ELSE donationLock[d]]
    /\ itemNew' = [i \in Items |-> IF itemLock[i] = s THEN item'[i] ELSE itemNew[i]]
    /\ donationNew' =
           [d \in Donations |-> IF donationLock[d] = s THEN donation'[d] ELSE donationNew[d]]

Commit(s) ==
    /\ session[s].stage = "commit"
    /\ item' = [i \in Items |-> IF itemLock[i] = s THEN itemNew[i] ELSE item[i]]
    /\ donation' = [d \in Donations |-> IF donationLock[d] = s THEN donationNew[d] ELSE donation[d]]
    /\ notices' = IF session[s].notice = "none" THEN notices
                  ELSE notices \cup {NoticeOf(session[s].d, session[s].notice)}
    /\ Close(s)
    /\ UNCHANGED now

\* A raised domain error, a lost connection, a cancelled request, a dead process.
Rollback(s) ==
    /\ session[s] # Idle
    /\ UNCHANGED <<now, database>>
    /\ Close(s)

-----------------------------------------------------------------------------
(* request_donation *)

BeginRequest(s, d) ==
    LET i == ItemOf[d] IN
    /\ donation[d] = "NONE"
    /\ \A t \in Sessions : session[t].d # d
    /\ Visible(item[i])
    /\ MayRequest(d)
    /\ Begin(s, "request", [Idle EXCEPT !.op = "request", !.stage = "duplicates",
                                        !.d = d, !.i = i, !.sawItem = item[i]])

HasOpenRequest(recipient, i) ==
    \E d \in Donations : RecipientOf[d] = recipient /\ ItemOf[d] = i /\ Open(d)

CheckDuplicates(s) ==
    /\ session[s].stage = "duplicates"
    /\ \/ /\ HasOpenRequest(RecipientOf[session[s].d], session[s].i)
          /\ Rollback(s)
       \/ /\ ~HasOpenRequest(RecipientOf[session[s].d], session[s].i)
          /\ session' = [session EXCEPT ![s].stage = "reserve"]
          /\ UNCHANGED <<now, database, writes>>

\* Mutant: the status alone is trusted, as if the sweep ran continuously.
MayReserveByStatus(s) ==
    /\ Visible(itemNew[session[s].i])
    /\ session[s].sawItem.status = "AVAILABLE"

MayReserve(s) ==
    /\ Visible(itemNew[session[s].i])
    /\ ~IsExpired(session[s].sawItem, now)
    /\ session[s].sawItem.status = "AVAILABLE"

Reserve(s) ==
    LET i == session[s].i IN
    /\ session[s].stage = "reserve"
    /\ Granted(itemLock[i], s)
    /\ \/ /\ MayReserve(s)
          /\ WriteItemRow(s, i, [itemNew[i] EXCEPT !.status = "RESERVED"])
          /\ WriteDonationRow(s, session[s].d, "PENDING")
          /\ session' = [session EXCEPT ![s].stage = "commit", ![s].at = now,
                                        ![s].notice = "REQUESTED"]
          /\ UNCHANGED <<now, database>>
       \/ ~MayReserve(s) /\ Rollback(s)

-----------------------------------------------------------------------------
(* accept, decline, complete, cancel *)

Target(op) ==
    CASE op = "accept" -> "ACCEPTED"
      [] op = "complete" -> "COMPLETED"
      [] OTHER -> "CANCELLED"

\* Mutants: the event named after the item's new status; accept() silent.
NoticeForItemStatus(op) == IF op = "complete" THEN "DONATED" ELSE Target(op)

NoticeForAcceptForgotten(op) ==
    CASE op = "accept" -> "none"
      [] op = "decline" -> "DECLINED"
      [] OTHER -> Target(op)

NoticeFor(op) ==
    CASE op = "decline" -> "DECLINED"
      [] OTHER -> Target(op)

BeginHandover(s, op, d) ==
    /\ donation[d] # "NONE"
    /\ Begin(s, op, [Idle EXCEPT !.op = op, !.stage = "load", !.d = d, !.i = ItemOf[d],
                                 !.sawDonation = donation[d]])

\* Mutant: cancel() alone loads the item FOR UPDATE, before the donation is written.
LoadItemLocked(s) ==
    LET i == session[s].i IN
    /\ session[s].stage = "load"
    /\ session' = [session EXCEPT ![s].stage = "advance", ![s].sawItem = item[i]]
    /\ IF session[s].op = "cancel"
       THEN WriteItemRow(s, i, itemNew[i])
       ELSE UNCHANGED <<itemLock, itemNew>>
    /\ UNCHANGED <<now, database, donationLock, donationNew>>

\* selectinload: a second SELECT, with its own snapshot and no soft-delete filter.
LoadItem(s) ==
    /\ session[s].stage = "load"
    /\ session' = [session EXCEPT ![s].stage = "advance", ![s].sawItem = item[session[s].i]]
    /\ UNCHANGED <<now, database, writes>>

\* Mutant: decline() forgets release().
AfterAdvanceNoRelease(op) == IF op \in {"accept", "decline"} THEN "commit" ELSE "settle"

AfterAdvance(op) == IF op = "accept" THEN "commit" ELSE "settle"

\* Mutant: a withdrawn or declined request is not taken for a terminal one.
MayAdvanceUnlessCompleted(s) == session[s].sawDonation # "COMPLETED"

MayAdvance(s) == DonationCan(session[s].sawDonation, Target(session[s].op))

AdvanceDonation(s) ==
    LET op == session[s].op IN
    /\ session[s].stage = "advance"
    /\ \/ /\ MayAdvance(s)
          /\ WriteDonationRow(s, session[s].d, Target(op))
          /\ session' = [session EXCEPT ![s].stage = AfterAdvance(op),
                                        ![s].notice = NoticeFor(op)]
          /\ UNCHANGED <<now, database, itemLock, itemNew>>
       \/ ~MayAdvance(s) /\ Rollback(s)

\* release() and mark_donated(): again the loaded entity decides.
MaySettle(s) ==
    /\ Visible(itemNew[session[s].i])
    /\ IF session[s].op = "complete"
       THEN ItemCan(session[s].sawItem.status, "DONATED")
       ELSE session[s].sawItem.status = "RESERVED"

\* Mutant: released food is always listed again.
SettledAlwaysAvailable(s) ==
    IF session[s].op = "complete" THEN "DONATED" ELSE "AVAILABLE"

SettledStatus(s) ==
    IF session[s].op = "complete" THEN "DONATED" ELSE ReleaseTarget(session[s].sawItem, now)

SettleItem(s) ==
    LET i == session[s].i IN
    /\ session[s].stage = "settle"
    /\ Granted(itemLock[i], s)
    /\ \/ /\ MaySettle(s)
          /\ WriteItemRow(s, i, [itemNew[i] EXCEPT !.status = SettledStatus(s)])
          /\ session' = [session EXCEPT ![s].stage = "commit", ![s].at = now]
          /\ UNCHANGED <<now, database, donationLock, donationNew>>
       \/ ~MaySettle(s) /\ Rollback(s)

-----------------------------------------------------------------------------
(* update, cancel and soft_delete of a listing: a plain read, then the UPDATE *)

EditDates(row) ==
    {e \in Time : e > now /\ e # row.expires}

BeginOwnerOp(s, op, i, changed) ==
    /\ Visible(item[i])
    /\ Begin(s, op, [Idle EXCEPT !.op = op, !.stage = "write", !.i = i, !.sawItem = changed])

BeginUpdate(s, i) ==
    \E e \in EditDates(item[i]) :
        /\ item[i].status = "AVAILABLE"
        /\ BeginOwnerOp(s, "update", i, [item[i] EXCEPT !.expires = e])

BeginWithdraw(s, i) ==
    /\ ItemCan(item[i].status, "CANCELLED")
    /\ BeginOwnerOp(s, "withdraw", i, [item[i] EXCEPT !.status = "CANCELLED"])

BeginRemove(s, i) ==
    BeginOwnerOp(s, "remove", i, [item[i] EXCEPT !.deleted = TRUE])

\* Mutant: the whole entity goes back as it was loaded and changed.
OwnerEditOfEntity(s, row) == session[s].sawItem

\* The UPDATE carries the one column the session changed.
OwnerEdit(s, row) ==
    CASE session[s].op = "update"   -> [row EXCEPT !.expires = session[s].sawItem.expires]
      [] session[s].op = "withdraw" -> [row EXCEPT !.status = "CANCELLED"]
      [] OTHER                      -> [row EXCEPT !.deleted = TRUE]

WriteOwnerEdit(s) ==
    LET i == session[s].i IN
    /\ session[s].stage = "write"
    /\ WriteItemRow(s, i, OwnerEdit(s, itemNew[i]))
    /\ session' = [session EXCEPT ![s].stage = "commit"]
    /\ UNCHANGED <<now, database, donationLock, donationNew>>

-----------------------------------------------------------------------------
(* mark_expired_batch: one UPDATE that visits the rows its snapshot found due, *)
(* in some order, and tests each again once it has the row's lock.             *)

Due(at) == {i \in Items : DueForSweep(item[i], at)}

BeginSweep(s) ==
    \E i \in Due(now) :
        Begin(s, "sweep", [Idle EXCEPT !.op = "sweep", !.stage = "sweep", !.i = i,
                                       !.at = now, !.todo = Due(now) \ {i}])

NextRow(s) ==
    IF session[s].todo = {}
    THEN session' = [session EXCEPT ![s].stage = "commit"]
    ELSE \E j \in session[s].todo :
            session' = [session EXCEPT ![s].i = j, ![s].todo = @ \ {j}]

SweepRow(s) ==
    LET i == session[s].i IN
    /\ session[s].stage = "sweep"
    /\ Granted(itemLock[i], s)
    /\ \/ /\ DueForSweep(itemNew[i], session[s].at)
          /\ WriteItemRow(s, i, [itemNew[i] EXCEPT !.status = "EXPIRED"])
       \/ /\ ~DueForSweep(itemNew[i], session[s].at)
          /\ UNCHANGED <<itemLock, itemNew>>
    /\ NextRow(s)
    /\ UNCHANGED <<now, database, donationLock, donationNew>>

-----------------------------------------------------------------------------

\* POST /food-items inserts one row, which nobody can wait for or read earlier.
CreateItem(i, expires) ==
    /\ item[i].status = "UNLISTED"
    /\ expires > now
    /\ item' = [item EXCEPT ![i] =
                   [status |-> "AVAILABLE", expires |-> expires, deleted |-> FALSE]]
    /\ itemNew' = [itemNew EXCEPT ![i] = item'[i]]
    /\ UNCHANGED <<now, donation, notices, session, itemLock, donationLock, donationNew>>

Tick ==
    /\ now < Horizon
    /\ now' = now + 1
    /\ UNCHANGED <<database, session, writes>>

Start(s) ==
    \/ BeginSweep(s)
    \/ \E i \in Items : BeginUpdate(s, i) \/ BeginWithdraw(s, i) \/ BeginRemove(s, i)
    \/ \E d \in Donations :
        \/ BeginRequest(s, d)
        \/ \E op \in HandoverOps : BeginHandover(s, op, d)

Continue(s) ==
    \/ CheckDuplicates(s)
    \/ Reserve(s)
    \/ LoadItem(s)
    \/ AdvanceDonation(s)
    \/ SettleItem(s)
    \/ WriteOwnerEdit(s)
    \/ SweepRow(s)
    \/ Commit(s)

Next ==
    \/ Tick
    \/ \E i \in Items, e \in Time : CreateItem(i, e)
    \/ \E s \in Sessions : Start(s) \/ Continue(s) \/ Rollback(s)

Spec == Init /\ [][Next]_vars

\* The event loop resumes every coroutine whose statement has returned, and
\* PostgreSQL grants a row lock to its waiters in the order they queued: a
\* request that can run again and again is not passed over forever.
Fairness == \A s \in Sessions : SF_vars(Continue(s))

FairSpec == Spec /\ Fairness

-----------------------------------------------------------------------------
(* What holds however requests interleave *)

\* decline() and cancel() release the food, in whatever order requests commit:
\* an item that reads RESERVED always has an open donation somebody can answer.
NoStrandedReservation ==
    \A i \in Items : item[i].status = "RESERVED" =>
        \E d \in Donations : ItemOf[d] = i /\ Open(d)

Told(d) == {t \in NoticeType : NoticeOf(d, t) \in notices}

\* The row of a donation and its notification rows are committed together: no
\* status is ever visible without the notices that lead to it, and a donation
\* nobody has answered has announced nothing but itself.
EveryStatusWasAnnounced ==
    \A d \in Donations :
        CASE donation[d] = "NONE"      -> Told(d) = {}
          [] donation[d] = "PENDING"   -> Told(d) = {"REQUESTED"}
          [] donation[d] = "ACCEPTED"  -> {"REQUESTED", "ACCEPTED"} \subseteq Told(d)
          [] donation[d] = "COMPLETED" -> {"REQUESTED", "ACCEPTED", "COMPLETED"} \subseteq Told(d)
          [] donation[d] = "CANCELLED" ->
                "REQUESTED" \in Told(d) /\ Told(d) \cap {"DECLINED", "CANCELLED"} # {}

\* An item reads DONATED only after a donation of it was accepted and then
\* completed, each in a transaction that committed.
DonatedWasHandedOver ==
    \A i \in Items : item[i].status = "DONATED" =>
        \E d \in Donations : ItemOf[d] = i /\ {"ACCEPTED", "COMPLETED"} \subseteq Told(d)

\* The four kinds of operation, each with the statements it goes through.
Asking(w) == w.op = "request" /\ w.stage \in {"duplicates", "reserve", "commit"}

Answering(w) ==
    /\ w.op \in HandoverOps
    /\ w.stage \in {"load", "advance", "settle", "commit"}
    /\ w.op = "accept" => w.stage # "settle"

Editing(w) == w.op \in OwnerOps /\ w.stage \in {"write", "commit"}

Sweeping(w) == w.op = "sweep" /\ w.stage \in {"sweep", "commit"}

\* A row nobody has locked has no version but the committed one. A locked row
\* exists, and its new version is what its holder, and the statement its holder
\* has reached, account for.
ItemRowHeld(i) ==
    \/ itemLock[i] = NoSession /\ itemNew[i] = item[i]
    \/ /\ itemLock[i] \in Sessions
       /\ item[i].status # "UNLISTED" /\ itemNew[i].status # "UNLISTED"
       /\ LET w == session[itemLock[i]] IN
          \/ Sweeping(w) /\ itemNew[i].status = "EXPIRED"
          \/ /\ w.stage = "commit" /\ w.i = i
             /\ \/ Asking(w) /\ itemNew[i].status = "RESERVED"
                \/ Answering(w) /\ w.op # "accept" /\ itemNew[i].status # "RESERVED"
                \/ Editing(w) /\ itemNew[i].status \in {item[i].status, "CANCELLED"}

DonationRowHeld(d) ==
    \/ donationLock[d] = NoSession /\ donationNew[d] = donation[d]
    \/ /\ donationLock[d] \in Sessions
       /\ LET w == session[donationLock[d]] IN
          /\ w.d = d /\ w.stage \in {"settle", "commit"}
          /\ \/ Asking(w) /\ donationNew[d] = "PENDING"
             \/ Answering(w) /\ donationNew[d] = Target(w.op)

\* The rows a session must have locked by the statement it has reached.
HasItsRows(s) ==
    LET w == session[s] IN
    /\ w.stage = "write" => item[w.i].status # "UNLISTED"
    /\ Answering(w) /\ w.stage \in {"settle", "commit"} => donationLock[w.d] = s
    /\ Answering(w) /\ w.stage = "commit" /\ w.op # "accept" => itemLock[w.i] = s
    /\ Asking(w) /\ w.stage = "commit" => itemLock[w.i] = s /\ donationLock[w.d] = s

\* A donation that exists is written before its item, and only the last statement
\* of a service call locks the item: the order that keeps the two rows together
\* and the services free of deadlock among themselves.
LockDiscipline ==
    /\ \A i \in Items : ItemRowHeld(i)
    /\ \A d \in Donations : DonationRowHeld(d)
    /\ \A s \in Sessions : HasItsRows(s)

AwaitsItem(s) == session[s].stage \in {"reserve", "settle", "write", "sweep"}

AwaitsDonation(s) == session[s].stage = "advance" /\ MayAdvance(s)

WaitsFor(s, t) ==
    /\ s # t
    /\ \/ AwaitsItem(s) /\ itemLock[session[s].i] = t
       \/ AwaitsDonation(s) /\ donationLock[session[s].d] = t

\* Requests that block each other in a circle always include two sweeps: the
\* services lock the donation before the item, and never a second item, so
\* only two batch UPDATEs visiting rows in different orders can deadlock.
DeadlockNeedsTwoSweeps ==
    \A C \in SUBSET Sessions :
        (C # {} /\ \A s \in C : \E t \in C : WaitsFor(s, t)) =>
            \E s, t \in C : s # t /\ session[s].op = "sweep" /\ session[t].op = "sweep"

\* Every statement writes the columns its session set and no others, so no late
\* write of a stale entity undoes an owner's: a removed listing stays removed, and
\* a date moves only by the commit of the update that moved it.
OwnerEditsSurvive ==
    [][\A i \in Items : item[i].status # "UNLISTED" =>
         /\ item[i].deleted => item'[i].deleted
         /\ item'[i].expires # item[i].expires =>
              \E s \in Sessions : /\ session[s].op = "update" /\ session[s].i = i
                                 /\ session[s].stage = "commit" /\ session'[s] = Idle]_vars

\* Every request that has begun ends, by commit or by rollback.
RequestsEnd == \A s \in Sessions : session[s] # Idle ~> session[s] = Idle

-----------------------------------------------------------------------------
(* With no overlap, the flow is FoodSharing *)

\* One request at a time, and a clock that only moves between requests.
Quiet == \A s \in Sessions : session[s] = Idle

OneAtATime ==
    /\ now' # now => Quiet
    /\ item' # item => \A s \in Sessions : session'[s] = Idle
    /\ \A s, t \in Sessions : session'[s] # Idle /\ session'[t] # Idle => s = t

SerialSpec == Init /\ [][Next /\ OneAtATime]_vars

Promise == INSTANCE FoodSharing

\* Requests that do not overlap behave as the atomic steps of FoodSharing.
Atomic == Promise!Spec

\* What the checks of s found, and the clock it read, is still so: the rows it loaded
\* are the committed ones, but for the column an owner edits.
StillTrue(s) ==
    LET w == session[s] IN
    CASE w.op = "request" ->
            /\ w.sawItem = item[w.i] /\ w.at = now
            /\ ~HasOpenRequest(RecipientOf[w.d], w.i)
      [] w.op \in HandoverOps ->
            /\ w.sawDonation = donation[w.d]
            /\ w.op # "accept" => w.sawItem = item[w.i]
            /\ w.op \in {"decline", "cancel"} => w.at = now
      [] w.op \in OwnerOps ->
            /\ w.sawItem = OwnerEdit(s, item[w.i])
            /\ w.op = "update" => w.sawItem.expires > now
            /\ w.op = "withdraw" => item[w.i].status = "AVAILABLE"
            /\ w.op = "remove" => ~item[w.i].deleted
      [] OTHER ->
            /\ w.at = now
            /\ \A i \in Due(now) : itemLock[i] = s

\* Whatever overlaps, every commit is an atomic step of FoodSharing unless something
\* its session had read has changed since: stale reads are the only way in which
\* concurrent requests do what requests one after the other would not. The locks,
\* the order of the writes and what each UPDATE carries leave no other.
OnlyStaleReadsDeviate ==
    [][\/ Promise!Next
       \/ UNCHANGED Promise!vars
       \/ \E s \in Sessions : Commit(s) /\ ~StillTrue(s)]_vars

\* A donation that has ended moves only by an answer that had loaded it while open.
EndedDonationsMoveLate ==
    \A d \in Donations :
        donation[d] \in {"COMPLETED", "CANCELLED"} /\ donation'[d] # donation[d] =>
            \E s \in Sessions : /\ Commit(s) /\ session[s].d = d
                                /\ session[s].sawDonation \in OpenStatuses

\* An item that has ended moves only by a call that had loaded it while it was listed;
\* the entity of a withdrawal is changed in place, and it begins on listed items only.
EndedItemsMoveLate ==
    \A i \in Items :
        item[i].status \in {"DONATED", "CANCELLED", "EXPIRED"} /\ item'[i].status # item[i].status =>
            \E s \in Sessions : /\ Commit(s) /\ session[s].i = i
                                /\ \/ session[s].op = "withdraw"
                                   \/ session[s].sawItem.status \in {"AVAILABLE", "RESERVED"}

\* Overlapping requests can move what has ended, though donations/models.py:47 calls it
\* terminal, but no call can that began after the end; and the sweep, whose WHERE is
\* evaluated again on each row, updates and removals never do.
EndedMovesNeedARace == [][EndedDonationsMoveLate /\ EndedItemsMoveLate]_vars

-----------------------------------------------------------------------------
(* A statement of the code's documentation that overlapping requests refute *)

\* food_items/service.py:15 "Two simultaneous requests for the last loaf cannot
\* both succeed": no two open donations name the same item.
OnlyOneRequestSucceeds ==
    \A d, e \in Donations : Open(d) /\ Open(e) /\ ItemOf[d] = ItemOf[e] => d = e
=============================================================================
