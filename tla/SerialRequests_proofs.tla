------------------------ MODULE SerialRequests_proofs -------------------------
(***************************************************************************)
(* Requests that do not overlap implement FoodSharing: SerialSpec maps,    *)
(* with the committed tables as they are, to the atomic specification.     *)
(* While one request is under way nothing else moves, so what it has read  *)
(* stays true and its commit is the atomic step of its operation.          *)
(***************************************************************************)
EXTENDS RequestTransactions_proofs

OneSession == \A s, t \in Sessions : session[s] # Idle /\ session[t] # Idle => s = t

\* What a request has read is still what the tables say, and what it has written is
\* what the atomic step writes.
AsksAtomically(w) ==
    /\ donation[w.d] = "NONE" /\ Visible(item[w.i]) /\ MayRequest(w.d)
    /\ w.sawItem = item[w.i]
    /\ w.stage # "duplicates" => ~HasOpenRequest(RecipientOf[w.d], w.i)
    /\ w.stage = "commit" =>
         /\ ~IsExpired(item[w.i], now) /\ item[w.i].status = "AVAILABLE"
         /\ w.notice = "REQUESTED"
         /\ itemNew[w.i] = [item[w.i] EXCEPT !.status = "RESERVED"]

AnswersAtomically(w) ==
    /\ w.sawDonation = donation[w.d]
    /\ w.stage # "load" /\ w.op # "accept" => w.sawItem = item[w.i]
    /\ w.stage \in {"settle", "commit"} =>
         DonationCan(donation[w.d], Target(w.op)) /\ w.notice = NoticeFor(w.op)
    /\ w.stage = "commit" /\ w.op # "accept" =>
         /\ Visible(item[w.i])
         /\ IF w.op = "complete"
            THEN /\ ItemCan(item[w.i].status, "DONATED")
                 /\ itemNew[w.i] = [item[w.i] EXCEPT !.status = "DONATED"]
            ELSE /\ item[w.i].status = "RESERVED"
                 /\ itemNew[w.i] = [item[w.i] EXCEPT !.status = ReleaseTarget(item[w.i], now)]

EditsAtomically(s, w) ==
    /\ Visible(item[w.i])
    /\ w.op = "update" => item[w.i].status = "AVAILABLE" /\ w.sawItem.expires > now
    /\ w.op = "withdraw" => ItemCan(item[w.i].status, "CANCELLED")
    /\ w.stage = "commit" =>
         /\ itemLock[w.i] = s
         /\ itemNew[w.i] = CASE w.op = "update"   -> [item[w.i] EXCEPT !.expires = w.sawItem.expires]
                             [] w.op = "withdraw" -> [item[w.i] EXCEPT !.status = "CANCELLED"]
                             [] OTHER             -> [item[w.i] EXCEPT !.deleted = TRUE]

SweepsAtomically(s, w) ==
    /\ w.at = now
    /\ w.stage = "commit" => w.todo = {}
    /\ \A i \in Items : itemLock[i] = s =>
         DueForSweep(item[i], now) /\ itemNew[i] = [item[i] EXCEPT !.status = "EXPIRED"]
    /\ \A i \in Items : DueForSweep(item[i], now) =>
         itemLock[i] = s \/ i \in w.todo \/ (w.stage = "sweep" /\ i = w.i)

Atomically(s, w) ==
    /\ Asking(w) => AsksAtomically(w)
    /\ Answering(w) => AnswersAtomically(w)
    /\ Editing(w) => EditsAtomically(s, w)
    /\ Sweeping(w) => SweepsAtomically(s, w)

SerialInv ==
    /\ LockInv
    /\ OneSession
    /\ \A s \in Sessions : Atomically(s, session[s])

-----------------------------------------------------------------------------
(* One session *)

\* While a session is under way every lock is its own.
LEMMA OwnRows ==
    ASSUME SerialInv, NEW s \in Sessions, session[s] # Idle
    PROVE  /\ \A t \in Sessions \ {s} : session[t] = Idle
           /\ \A i \in Items : \/ itemLock[i] = s
                               \/ itemLock[i] = NoSession /\ itemNew[i] = item[i]
           /\ \A d \in Donations : \/ donationLock[d] = s
                                   \/ donationLock[d] = NoSession /\ donationNew[d] = donation[d]
<1>1. \A t \in Sessions \ {s} : session[t] = Idle
  BY DEF SerialInv, OneSession
<1>2. \A t \in Sessions \ {s} : session[t].stage = "idle"
  BY <1>1, IdlePhase
<1>3. ASSUME NEW i \in Items
      PROVE  itemLock[i] = s \/ (itemLock[i] = NoSession /\ itemNew[i] = item[i])
  <2>1. ItemRowHeld(i)
    BY DEF SerialInv, LockInv, LockDiscipline
  <2> QED
    BY <1>2, <2>1 DEF ItemRowHeld, Sweeping
<1>4. ASSUME NEW d \in Donations
      PROVE  donationLock[d] = s \/ (donationLock[d] = NoSession /\ donationNew[d] = donation[d])
  <2>1. DonationRowHeld(d)
    BY DEF SerialInv, LockInv, LockDiscipline
  <2> QED
    BY <1>2, <2>1 DEF DonationRowHeld
<1> QED
  BY <1>1, <1>3, <1>4

\* An idle session has nothing to account for.
LEMMA IdleIsAtomic ==
    ASSUME NEW t \in Sessions, session'[t] = Idle
    PROVE  Atomically(t, session[t])'
BY DEF Atomically, Idle, Asking, Answering, Editing, Sweeping, HandoverOps, OwnerOps

\* Which kind of operation a session runs is told by its op.
LEMMA OneKind ==
    ASSUME NEW w
    PROVE  /\ w.op = "request" => ~Answering(w) /\ ~Editing(w) /\ ~Sweeping(w)
           /\ w.op \in HandoverOps => ~Asking(w) /\ ~Editing(w) /\ ~Sweeping(w)
           /\ w.op \in OwnerOps => ~Asking(w) /\ ~Answering(w) /\ ~Sweeping(w)
           /\ w.op = "sweep" => ~Asking(w) /\ ~Answering(w) /\ ~Editing(w)
BY DEF Asking, Answering, Editing, Sweeping, HandoverOps, OwnerOps

-----------------------------------------------------------------------------
(* The steps of a request *)

\* A session that starts is at some statement.
LEMMA StartsInAStage ==
    ASSUME NEW s \in Sessions, Start(s)
    PROVE  \E op, first : Begin(s, op, first) /\ first.stage # "idle"
<1>1. CASE BeginSweep(s)
  <2>1. PICK i \in Due(now) :
          Begin(s, "sweep", [Idle EXCEPT !.op = "sweep", !.stage = "sweep", !.i = i,
                                         !.at = now, !.todo = Due(now) \ {i}])
    BY <1>1 DEF BeginSweep
  <2>2. [Idle EXCEPT !.op = "sweep", !.stage = "sweep", !.i = i,
                     !.at = now, !.todo = Due(now) \ {i}].stage = "sweep"
    BY DEF Idle
  <2> QED
    BY <2>1, <2>2, Zenon
<1>2. ASSUME NEW i \in Items, BeginUpdate(s, i) \/ BeginWithdraw(s, i) \/ BeginRemove(s, i)
      PROVE  \E op, first : Begin(s, op, first) /\ first.stage # "idle"
  <2>1. PICK op, row : BeginOwnerOp(s, op, i, row)
    BY <1>2 DEF BeginUpdate, BeginWithdraw, BeginRemove
  <2>2. [Idle EXCEPT !.op = op, !.stage = "write", !.i = i, !.sawItem = row].stage = "write"
    BY DEF Idle
  <2>3. Begin(s, op, [Idle EXCEPT !.op = op, !.stage = "write", !.i = i, !.sawItem = row])
    BY <2>1 DEF BeginOwnerOp
  <2> QED
    BY <2>2, <2>3, Zenon
<1>3. ASSUME NEW d \in Donations, BeginRequest(s, d)
      PROVE  \E op, first : Begin(s, op, first) /\ first.stage # "idle"
  <2>1. Begin(s, "request", [Idle EXCEPT !.op = "request", !.stage = "duplicates", !.d = d,
                                         !.i = ItemOf[d], !.sawItem = item[ItemOf[d]]])
    BY <1>3 DEF BeginRequest
  <2>2. [Idle EXCEPT !.op = "request", !.stage = "duplicates", !.d = d,
                     !.i = ItemOf[d], !.sawItem = item[ItemOf[d]]].stage = "duplicates"
    BY DEF Idle
  <2> QED
    BY <2>1, <2>2, Zenon
<1>4. ASSUME NEW d \in Donations, NEW op \in HandoverOps, BeginHandover(s, op, d)
      PROVE  \E o, first : Begin(s, o, first) /\ first.stage # "idle"
  <2>1. Begin(s, op, [Idle EXCEPT !.op = op, !.stage = "load", !.d = d, !.i = ItemOf[d],
                                  !.sawDonation = donation[d]])
    BY <1>4 DEF BeginHandover
  <2>2. [Idle EXCEPT !.op = op, !.stage = "load", !.d = d, !.i = ItemOf[d],
                     !.sawDonation = donation[d]].stage = "load"
    BY DEF Idle
  <2> QED
    BY <2>1, <2>2, Zenon
<1> QED
  BY <1>1, <1>2, <1>3, <1>4 DEF Start

LEMMA StartStaysAtomic ==
    ASSUME SerialInv, NEW s \in Sessions, Start(s)
    PROVE  Atomically(s, session[s])'
<1>t. /\ TypeInv /\ LockInv /\ session \in [Sessions -> Session]
      /\ item \in [Items -> ItemRow] /\ \A d \in Donations : ItemOf[d] \in Items
  BY DomainAssumption DEF SerialInv, LockInv, TypeInv, TypeOK
<1>1. CASE BeginSweep(s)
  <2>1. PICK i \in Due(now) :
          Begin(s, "sweep", [Idle EXCEPT !.op = "sweep", !.stage = "sweep", !.i = i,
                                         !.at = now, !.todo = Due(now) \ {i}])
    BY <1>1 DEF BeginSweep
  <2>2. /\ session'[s].op = "sweep" /\ session'[s].stage = "sweep" /\ session'[s].i = i
        /\ session'[s].at = now /\ session'[s].todo = Due(now) \ {i}
        /\ session[s] = Idle /\ UNCHANGED <<now, item, itemLock>>
    BY <1>t, <2>1 DEF Begin, Idle, database, writes
  <2>3. \A j \in Items : itemLock[j] # s
    BY <1>t, <2>2, IdlePhase, HoldsNothing
  <2>4. SweepsAtomically(s, session[s])'
    BY <2>2, <2>3 DEF SweepsAtomically, Due
  <2> QED
    BY <2>2, <2>4, OneKind DEF Atomically, Asking, Answering, Editing, HandoverOps, OwnerOps
<1>2. ASSUME NEW op \in OwnerOps, NEW i \in Items, NEW row \in ItemRow, BeginOwnerOp(s, op, i, row),
             op = "update" => item[i].status = "AVAILABLE" /\ row.expires > now,
             op = "withdraw" => ItemCan(item[i].status, "CANCELLED")
      PROVE  Atomically(s, session[s])'
  <2>1. Begin(s, op, [Idle EXCEPT !.op = op, !.stage = "write", !.i = i, !.sawItem = row])
        /\ Visible(item[i])
    BY <1>2 DEF BeginOwnerOp
  <2>2. /\ session'[s].op = op /\ session'[s].stage = "write" /\ session'[s].i = i
        /\ session'[s].sawItem = row /\ UNCHANGED <<now, item>>
    BY <1>t, <2>1 DEF Begin, Idle, database, writes
  <2>3. EditsAtomically(s, session[s])'
    BY <1>2, <2>1, <2>2 DEF EditsAtomically
  <2> QED
    BY <2>2, <2>3 DEF Atomically, Asking, Answering, Sweeping, HandoverOps, OwnerOps
<1>3. ASSUME NEW i \in Items, BeginUpdate(s, i) \/ BeginWithdraw(s, i) \/ BeginRemove(s, i)
      PROVE  Atomically(s, session[s])'
  <2>0. item[i] \in ItemRow
    BY <1>t
  <2>1. CASE BeginUpdate(s, i)
    <3>1. PICK e \in EditDates(item[i]) :
             item[i].status = "AVAILABLE" /\ BeginOwnerOp(s, "update", i, [item[i] EXCEPT !.expires = e])
      BY <2>1 DEF BeginUpdate
    <3>2. e \in Time /\ e > now
      BY DEF EditDates
    <3>3. [item[i] EXCEPT !.expires = e] \in ItemRow /\ [item[i] EXCEPT !.expires = e].expires = e
      BY <2>0, <3>2 DEF ItemRow
    <3> QED
      BY <1>2, <3>1, <3>2, <3>3 DEF OwnerOps
  <2>2. CASE BeginWithdraw(s, i)
    <3>1. [item[i] EXCEPT !.status = "CANCELLED"] \in ItemRow
      BY <2>0 DEF ItemRow, ItemStatus
    <3> QED
      BY <1>2, <2>2, <3>1 DEF BeginWithdraw, OwnerOps
  <2>3. CASE BeginRemove(s, i)
    <3>1. [item[i] EXCEPT !.deleted = TRUE] \in ItemRow
      BY <2>0 DEF ItemRow
    <3> QED
      BY <1>2, <2>3, <3>1 DEF BeginRemove, OwnerOps
  <2> QED
    BY <1>3, <2>1, <2>2, <2>3
<1>4. ASSUME NEW d \in Donations, BeginRequest(s, d) PROVE Atomically(s, session[s])'
  <2>1. /\ Begin(s, "request", [Idle EXCEPT !.op = "request", !.stage = "duplicates", !.d = d,
                                            !.i = ItemOf[d], !.sawItem = item[ItemOf[d]]])
        /\ donation[d] = "NONE" /\ Visible(item[ItemOf[d]]) /\ MayRequest(d)
    BY <1>4 DEF BeginRequest
  <2>2. /\ session'[s].op = "request" /\ session'[s].stage = "duplicates" /\ session'[s].d = d
        /\ session'[s].i = ItemOf[d] /\ session'[s].sawItem = item[ItemOf[d]]
        /\ UNCHANGED <<now, item, donation>>
    BY <1>t, <2>1 DEF Begin, Idle, database, writes
  <2>3. AsksAtomically(session[s])'
    BY <2>1, <2>2 DEF AsksAtomically
  <2> QED
    BY <2>2, <2>3 DEF Atomically, Answering, Editing, Sweeping, HandoverOps, OwnerOps
<1>5. ASSUME NEW d \in Donations, NEW op \in HandoverOps, BeginHandover(s, op, d)
      PROVE  Atomically(s, session[s])'
  <2>1. Begin(s, op, [Idle EXCEPT !.op = op, !.stage = "load", !.d = d, !.i = ItemOf[d],
                                  !.sawDonation = donation[d]])
    BY <1>5 DEF BeginHandover
  <2>2. /\ session'[s].op = op /\ session'[s].stage = "load" /\ session'[s].d = d
        /\ session'[s].sawDonation = donation[d] /\ UNCHANGED donation
    BY <1>t, <2>1 DEF Begin, Idle, database, writes
  <2>3. AnswersAtomically(session[s])'
    BY <2>2 DEF AnswersAtomically
  <2> QED
    BY <2>2, <2>3 DEF Atomically, Asking, Editing, Sweeping, HandoverOps, OwnerOps
<1> QED
  BY <1>1, <1>3, <1>4, <1>5 DEF Start

LEMMA ContinueStaysAtomic ==
    ASSUME SerialInv, NEW s \in Sessions, Continue(s), ~Commit(s), ~Rollback(s)
    PROVE  Atomically(s, session[s])'
<1> DEFINE v == session[s]
           i == v.i
           d == v.d
<1>t. /\ TypeInv /\ LockInv /\ session \in [Sessions -> Session] /\ v \in Session
      /\ item \in [Items -> ItemRow] /\ itemNew \in [Items -> ItemRow]
      /\ itemLock \in [Items -> Sessions \cup {NoSession}]
      /\ Atomically(s, v)
  BY DEF SerialInv, LockInv, TypeInv, TypeOK
<1>p. UNCHANGED <<now, item, donation>>
  BY DEF Continue, CheckDuplicates, Reserve, LoadItem, AdvanceDonation, SettleItem, WriteOwnerEdit,
         SweepRow, database
<1>r. v.stage # "idle" => \A j \in Items : itemLock[j] = s \/ itemNew[j] = item[j]
  BY OwnRows, IdlePhase
<1>k. \/ Asking(v) /\ v.op = "request"
      \/ Answering(v) /\ v.op \in HandoverOps
      \/ Editing(v) /\ v.op \in OwnerOps
      \/ Sweeping(v) /\ v.op = "sweep"
      \/ v = Idle
  BY <1>t DEF TypeInv, Phases, PhaseOK, Asking, Answering, Editing, Sweeping
<1>1. CASE CheckDuplicates(s)
  <2>1. v.stage = "duplicates" /\ session' = [session EXCEPT ![s].stage = "reserve"]
        /\ ~HasOpenRequest(RecipientOf[d], i)
    BY <1>1 DEF CheckDuplicates
  <2>2. /\ session'[s].op = v.op /\ session'[s].stage = "reserve" /\ session'[s].d = d
        /\ session'[s].i = i /\ session'[s].sawItem = v.sawItem
    BY <1>t, <2>1 DEF Session
  <2>3. Asking(v) /\ v.op = "request" /\ AsksAtomically(v)
    BY <1>t, <2>1, StageTells DEF Asking, Atomically
  <2>4. AsksAtomically(session[s])'
    <3>1. donation[d] = "NONE" /\ Visible(item[i]) /\ MayRequest(d) /\ v.sawItem = item[i]
      BY <2>3 DEF AsksAtomically
    <3>2. ~HasOpenRequest(RecipientOf[session[s].d], session[s].i)'
      BY <1>p, <2>1, <2>2 DEF HasOpenRequest, Open
    <3>3. (/\ donation[session[s].d] = "NONE" /\ Visible(item[session[s].i])
           /\ MayRequest(session[s].d) /\ session[s].sawItem = item[session[s].i])'
      BY <1>p, <2>2, <3>1
    <3> QED
      BY <2>2, <3>2, <3>3 DEF AsksAtomically
  <2> QED
    BY <2>2, <2>3, <2>4 DEF Atomically, Answering, Editing, Sweeping, HandoverOps, OwnerOps
<1>2. CASE Reserve(s)
  <2>1. /\ v.stage = "reserve" /\ MayReserve(s)
        /\ session' = [session EXCEPT ![s].stage = "commit", ![s].at = now, ![s].notice = "REQUESTED"]
        /\ itemNew' = [itemNew EXCEPT ![i] = [itemNew[i] EXCEPT !.status = "RESERVED"]]
    BY <1>2 DEF Reserve, WriteItemRow
  <2>2. /\ session'[s].op = v.op /\ session'[s].stage = "commit" /\ session'[s].d = d
        /\ session'[s].i = i /\ session'[s].sawItem = v.sawItem
        /\ session'[s].notice = "REQUESTED"
    BY <1>t, <2>1 DEF Session
  <2>3. Asking(v) /\ v.op = "request" /\ AsksAtomically(v) /\ i \in Items
    BY <1>t, <2>1, StageTells DEF Asking, Atomically
  <2>4. itemNew[i] = item[i]
    BY <1>r, <1>t, <2>1, <2>3, HoldsNothing
  <2>5. itemNew'[i] = [item[i] EXCEPT !.status = "RESERVED"]
    BY <1>t, <2>1, <2>3, <2>4
  <2>6. ~IsExpired(item[i], now) /\ item[i].status = "AVAILABLE"
    BY <2>1, <2>3 DEF MayReserve, AsksAtomically
  <2>7. AsksAtomically(session[s])'
    <3>1. /\ donation[d] = "NONE" /\ Visible(item[i]) /\ MayRequest(d) /\ v.sawItem = item[i]
          /\ ~HasOpenRequest(RecipientOf[d], i)
      BY <2>1, <2>3 DEF AsksAtomically
    <3>2. ~HasOpenRequest(RecipientOf[session[s].d], session[s].i)'
      BY <1>p, <2>2, <3>1 DEF HasOpenRequest, Open
    <3>3. (/\ donation[session[s].d] = "NONE" /\ Visible(item[session[s].i])
           /\ MayRequest(session[s].d) /\ session[s].sawItem = item[session[s].i])'
      BY <1>p, <2>2, <3>1
    <3>4. (/\ ~IsExpired(item[session[s].i], now) /\ item[session[s].i].status = "AVAILABLE"
           /\ session[s].notice = "REQUESTED"
           /\ itemNew[session[s].i] = [item[session[s].i] EXCEPT !.status = "RESERVED"])'
      BY <1>p, <2>2, <2>5, <2>6
    <3> QED
      BY <3>2, <3>3, <3>4 DEF AsksAtomically
  <2> QED
    BY <2>2, <2>3, <2>7 DEF Atomically, Answering, Editing, Sweeping, HandoverOps, OwnerOps
<1>3. CASE LoadItem(s)
  <2>1. v.stage = "load"
        /\ session' = [session EXCEPT ![s].stage = "advance", ![s].sawItem = item[i]]
    BY <1>3 DEF LoadItem
  <2>2. /\ session'[s].op = v.op /\ session'[s].stage = "advance" /\ session'[s].d = d
        /\ session'[s].i = i /\ session'[s].sawItem = item[i]
        /\ session'[s].sawDonation = v.sawDonation
    BY <1>t, <2>1 DEF Session
  <2>3. Answering(v) /\ v.op \in HandoverOps /\ AnswersAtomically(v)
    BY <1>t, <2>1, StageTells DEF Answering, Atomically
  <2>4. AnswersAtomically(session[s])'
    BY <1>p, <2>2, <2>3 DEF AnswersAtomically
  <2> QED
    BY <2>2, <2>3, <2>4 DEF Atomically, Asking, Editing, Sweeping, HandoverOps, OwnerOps
<1>4. CASE AdvanceDonation(s)
  <2>1. /\ v.stage = "advance" /\ MayAdvance(s)
        /\ session' = [session EXCEPT ![s].stage = AfterAdvance(v.op), ![s].notice = NoticeFor(v.op)]
    BY <1>4 DEF AdvanceDonation
  <2>2. /\ session'[s].op = v.op /\ session'[s].stage = AfterAdvance(v.op) /\ session'[s].d = d
        /\ session'[s].i = i /\ session'[s].sawItem = v.sawItem
        /\ session'[s].sawDonation = v.sawDonation /\ session'[s].notice = NoticeFor(v.op)
    BY <1>t, <2>1 DEF Session
  <2>3. Answering(v) /\ v.op \in HandoverOps /\ AnswersAtomically(v)
    BY <1>t, <2>1, StageTells DEF Answering, Atomically
  <2>4. session'[s].stage = "commit" => v.op = "accept"
    BY <2>2 DEF AfterAdvance
  <2>5. AnswersAtomically(session[s])'
    BY <1>p, <2>1, <2>2, <2>3, <2>4 DEF AnswersAtomically, MayAdvance
  <2> QED
    BY <2>2, <2>3, <2>5 DEF Atomically, Asking, Editing, Sweeping, HandoverOps, OwnerOps
<1>5. CASE SettleItem(s)
  <2>1. /\ v.stage = "settle" /\ MaySettle(s)
        /\ session' = [session EXCEPT ![s].stage = "commit", ![s].at = now]
        /\ itemNew' = [itemNew EXCEPT ![i] = [itemNew[i] EXCEPT !.status = SettledStatus(s)]]
    BY <1>5 DEF SettleItem, WriteItemRow
  <2>2. /\ session'[s].op = v.op /\ session'[s].stage = "commit" /\ session'[s].d = d
        /\ session'[s].i = i /\ session'[s].sawItem = v.sawItem
        /\ session'[s].sawDonation = v.sawDonation /\ session'[s].notice = v.notice
    BY <1>t, <2>1 DEF Session
  <2>3. Answering(v) /\ v.op \in HandoverOps /\ AnswersAtomically(v) /\ i \in Items
    BY <1>t, <2>1, StageTells DEF Answering, Atomically
  <2>4. itemNew[i] = item[i] /\ v.sawItem = item[i]
    <3>1. itemLock[i] # s
      BY <1>t, <2>1, <2>3, SessionAssumption
         DEF LockInv, LockDiscipline, ItemRowHeld, Sweeping, HandoverOps
    <3> QED
      BY <1>r, <2>1, <2>3, <3>1 DEF Answering, AnswersAtomically
  <2>5. itemNew'[i] = [item[i] EXCEPT !.status = SettledStatus(s)]
    BY <1>t, <2>1, <2>3, <2>4
  <2>6. CASE v.op = "complete"
    <3>1. /\ Visible(item[i]) /\ ItemCan(item[i].status, "DONATED")
          /\ itemNew'[i] = [item[i] EXCEPT !.status = "DONATED"]
      BY <2>1, <2>4, <2>5, <2>6 DEF MaySettle, SettledStatus
    <3>2. AnswersAtomically(session[s])'
      BY <1>p, <2>1, <2>2, <2>3, <2>4, <2>6, <3>1 DEF AnswersAtomically
    <3> QED
      BY <2>2, <2>3, <3>2 DEF Atomically, Asking, Editing, Sweeping, HandoverOps, OwnerOps
  <2>7. CASE v.op # "complete"
    <3>1. /\ Visible(item[i]) /\ item[i].status = "RESERVED"
          /\ itemNew'[i] = [item[i] EXCEPT !.status = ReleaseTarget(item[i], now)]
      BY <2>1, <2>4, <2>5, <2>7 DEF MaySettle, SettledStatus
    <3>2. AnswersAtomically(session[s])'
      BY <1>p, <2>1, <2>2, <2>3, <2>4, <2>7, <3>1 DEF AnswersAtomically
    <3> QED
      BY <2>2, <2>3, <3>2 DEF Atomically, Asking, Editing, Sweeping, HandoverOps, OwnerOps
  <2> QED
    BY <2>6, <2>7
<1>6. CASE WriteOwnerEdit(s)
  <2>1. /\ v.stage = "write" /\ session' = [session EXCEPT ![s].stage = "commit"]
        /\ itemLock' = [itemLock EXCEPT ![i] = s]
        /\ itemNew' = [itemNew EXCEPT ![i] = OwnerEdit(s, itemNew[i])]
    BY <1>6 DEF WriteOwnerEdit, WriteItemRow
  <2>2. /\ session'[s].op = v.op /\ session'[s].stage = "commit"
        /\ session'[s].i = i /\ session'[s].sawItem = v.sawItem
    BY <1>t, <2>1 DEF Session
  <2>3. Editing(v) /\ v.op \in OwnerOps /\ EditsAtomically(s, v) /\ i \in Items
    BY <1>t, <2>1, StageTells DEF Editing, Atomically
  <2>4. itemNew[i] = item[i]
    BY <1>r, <1>t, <2>1, <2>3, HoldsNothing
  <2>5. /\ itemLock'[i] = s
        /\ itemNew'[i] = CASE v.op = "update"   -> [item[i] EXCEPT !.expires = v.sawItem.expires]
                           [] v.op = "withdraw" -> [item[i] EXCEPT !.status = "CANCELLED"]
                           [] OTHER             -> [item[i] EXCEPT !.deleted = TRUE]
    BY <1>t, <2>1, <2>3, <2>4 DEF OwnerEdit
  <2>6. EditsAtomically(s, session[s])'
    BY <1>p, <2>2, <2>3, <2>5 DEF EditsAtomically
  <2> QED
    BY <2>2, <2>3, <2>6 DEF Atomically, Asking, Answering, Sweeping, HandoverOps, OwnerOps
<1>7. CASE SweepRow(s)
  <2>1. v.stage = "sweep" /\ Granted(itemLock[i], s) /\ NextRow(s)
    BY <1>7 DEF SweepRow
  <2>2. Sweeping(v) /\ v.op = "sweep" /\ SweepsAtomically(s, v) /\ i \in Items
    BY <1>t, <2>1, StageTells DEF Sweeping, Atomically
  <2>3. /\ session'[s].op = "sweep" /\ session'[s].at = now
        /\ session'[s].stage = "commit" => session'[s].todo = {}
        /\ \A j \in v.todo : j \in session'[s].todo \/ (session'[s].stage = "sweep" /\ j = session'[s].i)
    <3>1. CASE v.todo = {}
      <4>1. session' = [session EXCEPT ![s].stage = "commit"]
        BY <2>1, <3>1 DEF NextRow
      <4> QED
        BY <1>t, <2>2, <3>1, <4>1 DEF Session, SweepsAtomically
    <3>2. CASE v.todo # {}
      <4>1. PICK j \in v.todo : session' = [session EXCEPT ![s].i = j, ![s].todo = @ \ {j}]
        BY <2>1, <3>2 DEF NextRow
      <4>2. /\ session'[s].op = v.op /\ session'[s].at = v.at /\ session'[s].stage = v.stage
            /\ session'[s].i = j /\ session'[s].todo = v.todo \ {j}
        BY <1>t, <4>1 DEF Session
      <4> QED
        BY <2>1, <2>2, <4>2 DEF SweepsAtomically
    <3> QED
      BY <3>1, <3>2
  \* The row of this statement is written, was already written, or was not due.
  <2>4. /\ \A j \in Items : itemLock'[j] = s =>
              DueForSweep(item[j], now) /\ itemNew'[j] = [item[j] EXCEPT !.status = "EXPIRED"]
        /\ \A j \in Items : itemLock[j] = s => itemLock'[j] = s
        /\ DueForSweep(item[i], now) => itemLock'[i] = s
    <3>0. /\ \A j \in Items : itemLock[j] = s =>
                DueForSweep(item[j], now) /\ itemNew[j] = [item[j] EXCEPT !.status = "EXPIRED"]
          /\ v.at = now
      BY <2>2 DEF SweepsAtomically
    <3>1. CASE itemLock[i] = s
      <4>1. itemNew[i].status = "EXPIRED"
        BY <1>t, <2>2, <3>0, <3>1 DEF ItemRow
      <4>2. UNCHANGED <<itemLock, itemNew>>
        BY <1>7, <4>1 DEF SweepRow, DueForSweep
      <4> QED
        BY <3>0, <3>1, <4>2
    <3>2. CASE itemLock[i] # s
      <4>1. itemNew[i] = item[i]
        BY <1>r, <2>1, <2>2, <3>2
      <4>2. CASE DueForSweep(item[i], now)
        <5>1. /\ itemLock' = [itemLock EXCEPT ![i] = s]
              /\ itemNew' = [itemNew EXCEPT ![i] = [item[i] EXCEPT !.status = "EXPIRED"]]
          BY <1>7, <3>0, <4>1, <4>2 DEF SweepRow, WriteItemRow
        <5> QED
          BY <1>t, <2>2, <3>0, <4>2, <5>1
      <4>3. CASE ~DueForSweep(item[i], now)
        <5>1. UNCHANGED <<itemLock, itemNew>>
          BY <1>7, <3>0, <4>1, <4>3 DEF SweepRow
        <5> QED
          BY <3>0, <4>3, <5>1
      <4> QED
        BY <4>2, <4>3
    <3> QED
      BY <3>1, <3>2
  <2>5. SweepsAtomically(s, session[s])'
    <3>1. \A j \in Items : DueForSweep(item[j], now) => itemLock[j] = s \/ j \in v.todo \/ j = i
      BY <2>2 DEF SweepsAtomically
    <3> QED
      BY <1>p, <2>3, <2>4, <3>1 DEF SweepsAtomically
  <2> QED
    BY <2>3, <2>5 DEF Atomically, Asking, Answering, Editing, HandoverOps, OwnerOps
<1> QED
  BY <1>1, <1>2, <1>3, <1>4, <1>5, <1>6, <1>7 DEF Continue

LEMMA SerialStep ==
    ASSUME SerialInv, Next, OneAtATime
    PROVE  OneSession' /\ \A t \in Sessions : Atomically(t, session[t])'
<1>t. session \in [Sessions -> Session] /\ item \in [Items -> ItemRow]
  BY DEF SerialInv, LockInv, TypeInv, TypeOK
<1>1. OneSession'
  BY DEF OneAtATime, OneSession
<1>2. ASSUME \A t \in Sessions : session'[t] = Idle
      PROVE  \A t \in Sessions : Atomically(t, session[t])'
  BY <1>2, IdleIsAtomic
<1>3. CASE Tick
  <2>1. now' # now /\ session' = session
    BY <1>3, DomainAssumption DEF Tick, Time, SerialInv, LockInv, TypeInv, TypeOK
  <2>2. \A t \in Sessions : session'[t] = Idle
    BY <2>1 DEF OneAtATime, Quiet
  <2> QED
    BY <1>1, <1>2, <2>2
<1>4. ASSUME NEW i \in Items, NEW e \in Time, CreateItem(i, e)
      PROVE  \A t \in Sessions : Atomically(t, session[t])'
  <2>1. item' # item
    <3>1. item'[i].status = "AVAILABLE" /\ item[i].status = "UNLISTED"
      BY <1>4, <1>t DEF CreateItem
    <3> QED
      BY <3>1
  <2> QED
    BY <1>2, <2>1 DEF OneAtATime
<1>5. ASSUME NEW s \in Sessions, Start(s) \/ (Continue(s) /\ ~Commit(s) /\ ~Rollback(s))
      PROVE  \A t \in Sessions : Atomically(t, session[t])'
  <2>1. Atomically(s, session[s])'
    BY <1>5, StartStaysAtomic, ContinueStaysAtomic
  <2>2. \A t \in Sessions \ {s} : session'[t] = session[t]
    <3>1. CASE Start(s)
      <4>1. \E op, first : Begin(s, op, first)
        BY <3>1, StartsInAStage
      <4> QED
        BY <1>t, <4>1 DEF Begin
    <3>2. CASE ~Start(s)
      BY <1>5, <1>t, <3>2 DEF Continue, CheckDuplicates, Reserve, LoadItem, AdvanceDonation,
                               SettleItem, WriteOwnerEdit, SweepRow, NextRow
    <3> QED
      BY <3>1, <3>2
  <2>3. session'[s] # Idle
    <3>1. CASE Start(s)
      <4>1. \E op, first : Begin(s, op, first) /\ first.stage # "idle"
        BY <3>1, StartsInAStage
      <4> QED
        BY <1>t, <4>1, IdlePhase DEF Begin
    <3>2. CASE Continue(s) /\ ~Commit(s) /\ ~Rollback(s) /\ ~SweepRow(s)
      <4>1. session'[s].stage \in {"reserve", "commit", "advance", "settle"}
        BY <1>t, <3>2 DEF Session, Continue, CheckDuplicates, Reserve, LoadItem, AdvanceDonation,
                          AfterAdvance, SettleItem, WriteOwnerEdit
      <4> QED
        BY <4>1, IdlePhase
    <3>3. CASE SweepRow(s)
      <4>1. session[s].stage = "sweep" /\ NextRow(s)
        BY <3>3 DEF SweepRow
      <4>2. CASE session' = [session EXCEPT ![s].stage = "commit"]
        BY <1>t, <4>2, IdlePhase DEF Session
      <4>3. ASSUME NEW j, session' = [session EXCEPT ![s].i = j, ![s].todo = @ \ {j}]
            PROVE  session'[s] # Idle
        <5>1. session'[s].stage = "sweep"
          BY <1>t, <4>1, <4>3 DEF Session
        <5> QED
          BY <5>1, IdlePhase
      <4> QED
        BY <4>1, <4>2, <4>3 DEF NextRow
    <3> QED
      BY <1>5, <3>1, <3>2, <3>3
  <2>4. \A t \in Sessions \ {s} : session'[t] = Idle
    BY <1>1, <2>3 DEF OneSession
  <2> QED
    BY <2>1, <2>4, IdleIsAtomic
<1>6. ASSUME NEW s \in Sessions, Rollback(s) \/ Commit(s)
      PROVE  \A t \in Sessions : Atomically(t, session[t])'
  <2>1. session[s] # Idle
    BY <1>6, IdlePhase DEF Rollback, Commit
  <2>2. session' = [session EXCEPT ![s] = Idle]
    BY <1>6 DEF Rollback, Commit, Close
  <2> QED
    BY <1>2, <1>t, <2>1, <2>2, OwnRows
<1> QED
  BY <1>1, <1>3, <1>4, <1>5, <1>6 DEF Next

LEMMA SerialInvariant == SerialSpec => []SerialInv
<1>1. Init => OneSession /\ \A s \in Sessions : Atomically(s, session[s])
  BY DEF Init, OneSession, Atomically, Idle, Asking, Answering, Editing, Sweeping,
         HandoverOps, OwnerOps
<1>2. SerialInv /\ LockInv' /\ [Next /\ OneAtATime]_vars => SerialInv'
  <2>1. ASSUME SerialInv, UNCHANGED vars
        PROVE  OneSession' /\ \A t \in Sessions : Atomically(t, session[t])'
    <3>1. UNCHANGED <<now, item, donation, session, itemLock, itemNew>>
      BY <2>1 DEF vars, database, writes
    <3>2. OneSession'
      BY <2>1, <3>1 DEF SerialInv, OneSession
    <3>3. ASSUME NEW t \in Sessions PROVE Atomically(t, session[t])'
      <4>1. session'[t] = session[t] /\ Atomically(t, session[t])
        BY <2>1, <3>1 DEF SerialInv
      <4>2. AsksAtomically(session[t]) => AsksAtomically(session[t])'
        BY <3>1 DEF AsksAtomically, HasOpenRequest, Open
      <4>3. AnswersAtomically(session[t]) => AnswersAtomically(session[t])'
        BY <3>1 DEF AnswersAtomically
      <4>4. EditsAtomically(t, session[t]) => EditsAtomically(t, session[t])'
        BY <3>1 DEF EditsAtomically
      <4>5. SweepsAtomically(t, session[t]) => SweepsAtomically(t, session[t])'
        BY <3>1 DEF SweepsAtomically
      <4> QED
        BY <4>1, <4>2, <4>3, <4>4, <4>5 DEF Atomically
    <3> QED
      BY <3>2, <3>3
  <2> QED
    BY <2>1, SerialStep DEF SerialInv
<1>3. SerialSpec => Spec
  <2>1. [Next /\ OneAtATime]_vars => [Next]_vars
    OBVIOUS
  <2> QED
    BY <2>1, PTL DEF SerialSpec, Spec
<1> QED
  BY <1>1, <1>2, <1>3, LockInvariant, PTL DEF SerialSpec, SerialInv

-----------------------------------------------------------------------------
(* A commit is the atomic step of its operation *)

\* What a commit publishes: the one row a service call has written, or none, and
\* the one donation.
LEMMA CommitPublishes ==
    ASSUME LockInv, NEW s \in Sessions, Commit(s)
    PROVE  LET w == session[s] IN
           /\ session[s] \in Session /\ w # Idle /\ w.stage = "commit"
           /\ Asking(w) \/ Answering(w) => w.d \in Donations /\ w.i = ItemOf[w.d]
           /\ w.i \in Items
           /\ ~Sweeping(w) /\ itemLock[w.i] = s => item' = [item EXCEPT ![w.i] = itemNew[w.i]]
           /\ w.op = "accept" => item' = item
           /\ Asking(w) => donation' = [donation EXCEPT ![w.d] = "PENDING"]
           /\ Answering(w) => donation' = [donation EXCEPT ![w.d] = Target(w.op)]
           /\ Editing(w) \/ Sweeping(w) => donation' = donation /\ notices' = notices
           /\ w.notice # "none" => notices' = notices \cup {NoticeOf(w.d, w.notice)}
           /\ now' = now
<1> DEFINE w == session[s]
<1>t. /\ TypeInv /\ item \in [Items -> ItemRow] /\ donation \in [Donations -> DonationStatus]
      /\ \A d \in Donations : DonationRowHeld(d)
      /\ \A i \in Items : ItemRowHeld(i)
      /\ HasItsRows(s)
  BY DEF LockInv, LockDiscipline, TypeInv, TypeOK
<1>c. /\ w.stage = "commit"
      /\ item' = [i \in Items |-> IF itemLock[i] = s THEN itemNew[i] ELSE item[i]]
      /\ donation' = [d \in Donations |-> IF donationLock[d] = s THEN donationNew[d] ELSE donation[d]]
      /\ notices' = IF w.notice = "none" THEN notices ELSE notices \cup {NoticeOf(w.d, w.notice)}
      /\ now' = now
  BY DEF Commit
<1>1. /\ w \in Session /\ w # Idle /\ w.i \in Items
      /\ Asking(w) \/ Answering(w) => w.d \in Donations /\ w.i = ItemOf[w.d]
  BY <1>t, <1>c, StageTells, IdlePhase
<1>2. ~Sweeping(w) => \A i \in Items : itemLock[i] = s => i = w.i /\ w.op # "accept"
  BY <1>t, SessionAssumption
     DEF ItemRowHeld, Asking, Editing, OwnerOps
<1>3. ~Sweeping(w) /\ itemLock[w.i] = s => item' = [item EXCEPT ![w.i] = itemNew[w.i]]
  BY <1>t, <1>c, <1>1, <1>2
<1>4. w.op = "accept" => item' = item
  BY <1>t, <1>c, <1>2 DEF Sweeping
<1>5. \A d \in Donations : donationLock[d] = s => d = w.d
  BY <1>t, SessionAssumption DEF DonationRowHeld
<1>6. Asking(w) => donation' = [donation EXCEPT ![w.d] = "PENDING"]
  <2>1. Asking(w) => donationLock[w.d] = s /\ donationNew[w.d] = "PENDING"
    <3>1. Asking(w) => ~Answering(w)
      BY DEF Asking, Answering, HandoverOps
    <3> QED
      BY <1>t, <1>c, <1>1, <3>1, SessionAssumption DEF HasItsRows, DonationRowHeld
  <2> QED
    BY <1>t, <1>c, <1>1, <1>5, <2>1
<1>7. Answering(w) => donation' = [donation EXCEPT ![w.d] = Target(w.op)]
  <2>1. Answering(w) => donationLock[w.d] = s /\ donationNew[w.d] = Target(w.op)
    <3>1. Answering(w) => ~Asking(w)
      BY DEF Asking, Answering, HandoverOps
    <3> QED
      BY <1>t, <1>c, <1>1, <3>1, SessionAssumption DEF HasItsRows, DonationRowHeld
  <2> QED
    BY <1>t, <1>c, <1>1, <1>5, <2>1
<1>8. Editing(w) \/ Sweeping(w) => donation' = donation /\ notices' = notices
  <2>1. Editing(w) \/ Sweeping(w) => ~Asking(w) /\ ~Answering(w)
    BY DEF Asking, Answering, Editing, Sweeping, HandoverOps, OwnerOps
  <2>2. Editing(w) \/ Sweeping(w) => \A d \in Donations : donationLock[d] # s
    BY <1>t, <2>1, SessionAssumption DEF DonationRowHeld
  <2>3. Editing(w) \/ Sweeping(w) => w.notice = "none"
    BY <1>t, <1>1, <2>1 DEF TypeInv, Phases, PhaseOK
  <2> QED
    BY <1>t, <1>c, <2>2, <2>3
<1> QED
  BY <1>c, <1>1, <1>3, <1>4, <1>6, <1>7, <1>8

\* FoodSharing reads the same rows and tables: its copies of FoodDomain are ours.
LEMMA SameDomain ==
    /\ \A row : Promise!Visible(row) = Visible(row)
    /\ \A row, at : Promise!IsExpired(row, at) = IsExpired(row, at)
    /\ \A row, at : Promise!ReleaseTarget(row, at) = ReleaseTarget(row, at)
    /\ \A row, at : Promise!DueForSweep(row, at) = DueForSweep(row, at)
    /\ \A a, i : Promise!MayManage(a, i) = MayManage(a, i)
    /\ \A a, d : Promise!MayAnswer(a, d) = MayAnswer(a, d)
    /\ \A a, d : Promise!MayWithdraw(a, d) = MayWithdraw(a, d)
    /\ \A d : Promise!MayRequest(d) = MayRequest(d)
    /\ \A d, type : Promise!NoticeOf(d, type) = NoticeOf(d, type)
    /\ \A x, y : Promise!ItemCan(x, y) = ItemCan(x, y)
    /\ \A x, y : Promise!DonationCan(x, y) = DonationCan(x, y)
    /\ Promise!Time = Time /\ Promise!Unlisted = Unlisted
    /\ Promise!OpenStatuses = OpenStatuses
<1>1. \A row : Promise!Visible(row) = Visible(row)
  BY DEF Visible, Promise!Visible
<1>2. \A row, at : Promise!IsExpired(row, at) = IsExpired(row, at)
  BY DEF IsExpired, Promise!IsExpired
<1>3. \A a, i : Promise!MayManage(a, i) = MayManage(a, i)
  BY DEF MayManage, Promise!MayManage
<1>4. \A row, at : Promise!ReleaseTarget(row, at) = ReleaseTarget(row, at)
  BY <1>2 DEF ReleaseTarget, Promise!ReleaseTarget
<1>5. \A row, at : Promise!DueForSweep(row, at) = DueForSweep(row, at)
  BY <1>1, <1>2 DEF DueForSweep, Promise!DueForSweep
<1>6. \A a, d : Promise!MayAnswer(a, d) = MayAnswer(a, d)
  BY <1>3 DEF MayAnswer, Promise!MayAnswer
<1>7. \A a, d : Promise!MayWithdraw(a, d) = MayWithdraw(a, d)
  BY DEF MayWithdraw, Promise!MayWithdraw
<1>8. \A d : Promise!MayRequest(d) = MayRequest(d)
  BY DEF MayRequest, Promise!MayRequest
<1>9. \A d, type : Promise!NoticeOf(d, type) = NoticeOf(d, type)
  BY DEF NoticeOf, Promise!NoticeOf
<1>10. \A x, y : Promise!ItemCan(x, y) = ItemCan(x, y)
  BY DEF ItemCan, Promise!ItemCan, ItemMoves, Promise!ItemMoves
<1>11. \A x, y : Promise!DonationCan(x, y) = DonationCan(x, y)
  BY DEF DonationCan, Promise!DonationCan, DonationMoves, Promise!DonationMoves
<1>12. /\ Promise!Time = Time /\ Promise!Unlisted = Unlisted
       /\ Promise!OpenStatuses = OpenStatuses
  BY DEF Time, Promise!Time, Unlisted, Promise!Unlisted, OpenStatuses, Promise!OpenStatuses
<1> QED
  BY <1>1, <1>2, <1>3, <1>4, <1>5, <1>6, <1>7, <1>8, <1>9, <1>10, <1>11, <1>12

LEMMA CommitIsAtomic ==
    ASSUME LockInv, NEW s \in Sessions, Atomically(s, session[s]), Commit(s)
    PROVE  Promise!Next
<1> DEFINE w == session[s]
<1>a. Atomically(s, w) /\ TypeInv /\ HasItsRows(s) /\ item \in [Items -> ItemRow]
  BY DEF LockInv, LockDiscipline, TypeInv, TypeOK
<1>c. w.stage = "commit" /\ w \in Session /\ now' = now /\ w.i \in Items
  BY CommitPublishes
<1>k. \/ Asking(w) /\ w.op = "request"
      \/ Answering(w) /\ w.op \in HandoverOps
      \/ Editing(w) /\ w.op \in OwnerOps
      \/ Sweeping(w) /\ w.op = "sweep"
  BY <1>a, CommitPublishes DEF TypeInv, Phases, PhaseOK, Asking, Answering, Editing, Sweeping
<1>1. CASE Asking(w) /\ w.op = "request"
  <2>1. PICK d \in Donations : d = w.d /\ w.i = ItemOf[d]
    BY <1>1, CommitPublishes
  <2>2. itemLock[w.i] = s /\ AsksAtomically(w)
    BY <1>1, <1>a, <1>c DEF HasItsRows, Atomically
  <2>3. item' = [item EXCEPT ![w.i] = [item[w.i] EXCEPT !.status = "RESERVED"]]
    BY <1>1, <1>c, <2>2, CommitPublishes, OneKind DEF AsksAtomically
  <2>4. donation' = [donation EXCEPT ![d] = "PENDING"]
        /\ notices' = notices \cup {NoticeOf(d, "REQUESTED")}
    BY <1>1, <1>c, <2>1, <2>2, CommitPublishes DEF AsksAtomically
  <2>5. /\ donation[d] = "NONE" /\ Visible(item[ItemOf[d]]) /\ MayRequest(d)
        /\ ~HasOpenRequest(RecipientOf[d], ItemOf[d])
        /\ ~IsExpired(item[ItemOf[d]], now) /\ item[ItemOf[d]].status = "AVAILABLE"
    BY <1>c, <2>1, <2>2 DEF AsksAtomically
  <2>6. ~Promise!HasOpenRequest(RecipientOf[d], ItemOf[d])
    BY SameDomain, <2>5 DEF HasOpenRequest, Open, Promise!HasOpenRequest, Promise!Open
  <2>7. Promise!RequestDonation(d)
    BY SameDomain, <1>c, <2>1, <2>3, <2>4, <2>5, <2>6 DEF Promise!RequestDonation, Promise!SetStatus
  <2> QED
    BY SameDomain, <2>7 DEF Promise!Next, Promise!DonationStep
<1>2. CASE Answering(w) /\ w.op \in HandoverOps
  <2>1. PICK d \in Donations : d = w.d /\ w.i = ItemOf[d]
    BY <1>2, CommitPublishes
  <2>2. /\ AnswersAtomically(w) /\ donation' = [donation EXCEPT ![d] = Target(w.op)]
        /\ w.notice = NoticeFor(w.op) /\ DonationCan(donation[d], Target(w.op))
    BY <1>2, <1>a, <1>c, <2>1, CommitPublishes DEF Atomically, AnswersAtomically
  <2>3. notices' = notices \cup {NoticeOf(d, NoticeFor(w.op))}
    <3>1. NoticeFor(w.op) # "none"
      BY <1>2 DEF NoticeFor, Target, HandoverOps
    <3> QED
      BY <2>1, <2>2, <3>1, CommitPublishes
  <2>4. Promise!Advance(d, Target(w.op), NoticeFor(w.op))
    BY SameDomain, <1>c, <2>2, <2>3 DEF Promise!Advance
  <2>5. /\ Owner[ItemOf[d]] \in Users /\ MayAnswer(Owner[ItemOf[d]], d)
        /\ RecipientOf[d] \in Users /\ MayWithdraw(RecipientOf[d], d)
    BY DomainAssumption DEF MayAnswer, MayManage, MayWithdraw
  <2>6. w.op # "accept" => item' = [item EXCEPT ![w.i] = itemNew[w.i]]
    BY <1>2, <1>a, <1>c, CommitPublishes, OneKind DEF HasItsRows
  <2>7. CASE w.op = "accept"
    <3>1. Promise!Accept(Owner[ItemOf[d]], d)
      BY SameDomain, <2>4, <2>5, <2>7, CommitPublishes DEF Promise!Accept, Target, NoticeFor
    <3> QED
      BY SameDomain, <2>5, <3>1 DEF Promise!Next, Promise!DonationStep
  <2>8. CASE w.op = "complete"
    <3>1. /\ Visible(item[w.i]) /\ ItemCan(item[w.i].status, "DONATED")
          /\ item' = [item EXCEPT ![w.i] = [item[w.i] EXCEPT !.status = "DONATED"]]
      BY <1>c, <2>2, <2>6, <2>8 DEF AnswersAtomically
    <3>2. Promise!Complete(Owner[ItemOf[d]], d)
      BY SameDomain, <2>1, <2>4, <2>5, <2>8, <3>1 DEF Promise!Complete, Promise!SetStatus, Target, NoticeFor
    <3> QED
      BY SameDomain, <2>5, <3>2 DEF Promise!Next, Promise!DonationStep
  <2>9. CASE w.op \in {"decline", "cancel"}
    <3>1. /\ Visible(item[w.i]) /\ item[w.i].status = "RESERVED"
          /\ item' = [item EXCEPT ![w.i] = [item[w.i] EXCEPT !.status = ReleaseTarget(item[w.i], now)]]
      BY <1>c, <2>2, <2>6, <2>9 DEF AnswersAtomically
    <3>2. Promise!Release(ItemOf[d])
      BY SameDomain, <2>1, <3>1 DEF Promise!Release, Promise!SetStatus
    <3>3. CASE w.op = "decline"
      <4>1. Promise!Decline(Owner[ItemOf[d]], d)
        BY SameDomain, <2>4, <2>5, <3>2, <3>3 DEF Promise!Decline, Target, NoticeFor
      <4> QED
        BY SameDomain, <2>5, <4>1 DEF Promise!Next, Promise!DonationStep
    <3>4. CASE w.op = "cancel"
      <4>1. Promise!Cancel(RecipientOf[d], d)
        BY SameDomain, <2>4, <2>5, <3>2, <3>4 DEF Promise!Cancel, Target, NoticeFor
      <4> QED
        BY SameDomain, <2>5, <4>1 DEF Promise!Next, Promise!DonationStep
    <3> QED
      BY <2>9, <3>3, <3>4
  <2> QED
    BY <1>2, <2>7, <2>8, <2>9 DEF HandoverOps
<1>3. CASE Editing(w) /\ w.op \in OwnerOps
  <2> DEFINE i == w.i
             actor == Owner[i]
  <2>1. EditsAtomically(s, w) /\ UNCHANGED <<now, donation, notices>>
    BY <1>3, <1>a, CommitPublishes DEF Atomically
  <2>2. /\ item' = [item EXCEPT ![i] = itemNew[i]] /\ Visible(item[i])
        /\ actor \in Users /\ MayManage(actor, i)
    BY <1>3, <1>c, <2>1, CommitPublishes, OneKind, DomainAssumption DEF EditsAtomically, MayManage
  <2>3. CASE w.op = "update"
    <3>1. PICK e \in Time : e = w.sawItem.expires
      BY <1>c DEF Session, ItemRow
    <3>2. item' = [item EXCEPT ![i] = [item[i] EXCEPT !.expires = e]]
      BY <1>c, <2>1, <2>2, <2>3, <3>1 DEF EditsAtomically
    <3>3. item[i].status = "AVAILABLE" /\ e > now
      BY <2>1, <2>3, <3>1 DEF EditsAtomically
    <3>4. Promise!UpdateItem(actor, i, e)
      BY SameDomain, <2>1, <2>2, <3>2, <3>3 DEF Promise!UpdateItem
    <3> QED
      BY SameDomain, <1>c, <2>2, <3>4 DEF Promise!Next, Promise!ItemStep
  <2>4. CASE w.op = "withdraw"
    <3>1. /\ item' = [item EXCEPT ![i] = [item[i] EXCEPT !.status = "CANCELLED"]]
          /\ ItemCan(item[i].status, "CANCELLED")
      BY <1>c, <2>1, <2>2, <2>4 DEF EditsAtomically
    <3>2. Promise!CancelItem(actor, i)
      BY SameDomain, <2>1, <2>2, <3>1 DEF Promise!CancelItem, Promise!SetStatus
    <3> QED
      BY SameDomain, <1>c, <2>2, <3>2 DEF Promise!Next, Promise!ItemStep
  <2>5. CASE w.op = "remove"
    <3>1. item' = [item EXCEPT ![i] = [item[i] EXCEPT !.deleted = TRUE]]
      BY <1>c, <2>1, <2>2, <2>5 DEF EditsAtomically
    <3>2. Promise!SoftDelete(actor, i)
      BY SameDomain, <2>1, <2>2, <3>1 DEF Promise!SoftDelete
    <3> QED
      BY SameDomain, <1>c, <2>2, <3>2 DEF Promise!Next, Promise!ItemStep
  <2> QED
    BY <1>3, <2>3, <2>4, <2>5 DEF OwnerOps
\* With nothing left to visit, the rows the sweep holds are exactly the due ones.
<1>4. CASE Sweeping(w) /\ w.op = "sweep"
  <2>1. SweepsAtomically(s, w) /\ UNCHANGED <<now, donation, notices>>
    BY <1>4, <1>a, CommitPublishes DEF Atomically
  <2>2. w.todo = {}
    BY <1>c, <2>1 DEF SweepsAtomically
  <2>3. \A j \in Items : itemLock[j] = s <=> DueForSweep(item[j], now)
    BY <1>c, <2>1, <2>2 DEF SweepsAtomically
  <2>4. \A j \in Items : itemLock[j] = s => itemNew[j] = [item[j] EXCEPT !.status = "EXPIRED"]
    BY <2>1 DEF SweepsAtomically
  <2>5. item' = [j \in Items |-> IF itemLock[j] = s THEN itemNew[j] ELSE item[j]]
    BY DEF Commit
  <2>6. Promise!ExpireStaleItems
    BY SameDomain, <2>1, <2>3, <2>4, <2>5 DEF Promise!ExpireStaleItems
  <2> QED
    BY SameDomain, <2>6 DEF Promise!Next, Promise!ItemStep
<1> QED
  BY <1>1, <1>2, <1>3, <1>4, <1>k

\* A step that commits nothing of a session is a tick, a new listing, or invisible.
LEMMA QuietStepIsAtomic ==
    ASSUME [Next]_vars, \A s \in Sessions : ~Commit(s)
    PROVE  Promise!Next \/ UNCHANGED Promise!vars
<1>1. CASE Tick
  BY SameDomain, <1>1 DEF Tick, Promise!Tick, Promise!Next, database
<1>2. ASSUME NEW i \in Items, NEW e \in Time, CreateItem(i, e) PROVE Promise!Next
  BY SameDomain, <1>2 DEF CreateItem, Promise!CreateItem, Promise!Next, Promise!ItemStep
<1>3. ASSUME NEW s \in Sessions, Start(s) \/ Continue(s) \/ Rollback(s)
      PROVE  UNCHANGED Promise!vars
  <2>1. now' = now
    BY <1>3 DEF Start, BeginSweep, BeginUpdate, BeginWithdraw, BeginRemove, BeginOwnerOp,
                BeginRequest, BeginHandover, Begin, Rollback, Continue, CheckDuplicates, Reserve,
                LoadItem, AdvanceDonation, SettleItem, WriteOwnerEdit, SweepRow
  <2> QED
    BY <1>3, <2>1, OnlyCommitsPublish DEF Promise!vars, database
<1>4. CASE UNCHANGED vars
  BY <1>4 DEF vars, database, Promise!vars
<1> QED
  BY <1>1, <1>2, <1>3, <1>4 DEF Next

\* Requests that do not overlap behave as the atomic steps of FoodSharing, so
\* whatever is proved of FoodSharing holds of the statements of the services.
THEOREM Refinement == SerialSpec => Atomic
<1>1. Init => Promise!Init
  BY SameDomain DEF Init, Promise!Init
<1>2. SerialInv /\ [Next /\ OneAtATime]_vars => [Promise!Next]_(Promise!vars)
  <2> SUFFICES ASSUME SerialInv, [Next /\ OneAtATime]_vars
               PROVE  Promise!Next \/ UNCHANGED Promise!vars
    OBVIOUS
  <2>1. ASSUME NEW s \in Sessions, Commit(s) PROVE Promise!Next
    BY <2>1, CommitIsAtomic DEF SerialInv
  <2> QED
    BY <2>1, QuietStepIsAtomic
<1> QED
  BY <1>1, <1>2, SerialInvariant, PTL DEF SerialSpec, Atomic, Promise!Spec

-----------------------------------------------------------------------------
(* What is proved of FoodSharing holds of the statements *)

Serial == INSTANCE FoodSharing_proofs

\* The theorems of FoodSharing speak of a copy of it: Atomic is the same formula.
LEMMA AtomicIsSerial == Atomic => Serial!Spec
<1>1. Promise!Init => Serial!Init
  BY DEF Promise!Init, Serial!Init, Promise!Unlisted, Serial!Unlisted
<1>2. Promise!Next => Serial!Next
  BY DEF Promise!Next, Serial!Next, Promise!Tick, Serial!Tick, Promise!ItemStep,
     Serial!ItemStep, Promise!DonationStep, Serial!DonationStep, Promise!ExpireStaleItems,
     Serial!ExpireStaleItems, Promise!CreateItem, Serial!CreateItem, Promise!CancelItem,
     Serial!CancelItem, Promise!SoftDelete, Serial!SoftDelete, Promise!UpdateItem,
     Serial!UpdateItem, Promise!RequestDonation, Serial!RequestDonation, Promise!Accept,
     Serial!Accept, Promise!Decline, Serial!Decline, Promise!Complete, Serial!Complete,
     Promise!Cancel, Serial!Cancel, Promise!Advance, Serial!Advance, Promise!Release,
     Serial!Release, Promise!SetStatus, Serial!SetStatus, Promise!HasOpenRequest,
     Serial!HasOpenRequest, Promise!Open, Serial!Open, Promise!Visible, Serial!Visible,
     Promise!MayManage, Serial!MayManage, Promise!MayAnswer, Serial!MayAnswer,
     Promise!MayWithdraw, Serial!MayWithdraw, Promise!MayRequest, Serial!MayRequest,
     Promise!IsExpired, Serial!IsExpired, Promise!DueForSweep, Serial!DueForSweep,
     Promise!ReleaseTarget, Serial!ReleaseTarget, Promise!ItemCan, Serial!ItemCan,
     Promise!ItemMoves, Serial!ItemMoves, Promise!DonationCan, Serial!DonationCan,
     Promise!DonationMoves, Serial!DonationMoves, Promise!OpenStatuses, Serial!OpenStatuses,
     Promise!NoticeOf, Serial!NoticeOf, Promise!Time, Serial!Time
<1>3. [Promise!Next]_(Promise!vars) => [Serial!Next]_(Serial!vars)
  BY <1>2 DEF Promise!vars, Serial!vars
<1> QED
  BY <1>1, <1>3, PTL DEF Atomic, Promise!Spec, Serial!Spec

\* The promises of FoodSharing, for tables that change as its steps do.
KeepsPromises ==
    /\ [](Promise!SoleClaim /\ Promise!ClaimsMatchItems)
    /\ [](Promise!HandoverRecorded /\ Promise!NoticesAgree)
    /\ Promise!FinalIsFinal

LEMMA AtomicKeepsPromises == Atomic => KeepsPromises
<1>1. Serial!Spec => []Serial!SoleClaim /\ []Serial!ClaimsMatchItems
  BY Serial!SoleClaimHolds, Serial!ClaimsMatchItemsHolds, DomainAssumption, PTL
<1>2. Serial!Spec => []Serial!HandoverRecorded /\ []Serial!NoticesAgree /\ Serial!FinalIsFinal
  BY Serial!HandoverRecordedHolds, Serial!NoticesAgreeHolds, Serial!FinalIsFinalHolds,
     DomainAssumption, PTL
<1>3. Serial!SoleClaim => Promise!SoleClaim
  BY DEF Promise!SoleClaim, Serial!SoleClaim, Promise!Open, Serial!Open,
         Promise!OpenStatuses, Serial!OpenStatuses
<1>4. Serial!ClaimsMatchItems => Promise!ClaimsMatchItems
  BY DEF Promise!ClaimsMatchItems, Serial!ClaimsMatchItems, Promise!Open, Serial!Open,
         Promise!OpenStatuses, Serial!OpenStatuses
<1>5. Serial!HandoverRecorded => Promise!HandoverRecorded
  BY DEF Promise!HandoverRecorded, Serial!HandoverRecorded
<1>6. Serial!NoticesAgree => Promise!NoticesAgree
  BY DEF Promise!NoticesAgree, Serial!NoticesAgree, Promise!Told, Serial!Told,
         Promise!NoticeOf, Serial!NoticeOf, Promise!NoticeType, Serial!NoticeType
<1>7. Serial!FinalIsFinal => Promise!FinalIsFinal
  BY PTL DEF Promise!FinalIsFinal, Serial!FinalIsFinal, Promise!vars, Serial!vars
<1> QED
  BY <1>1, <1>2, <1>3, <1>4, <1>5, <1>6, <1>7, AtomicIsSerial, PTL DEF KeepsPromises

\* Requests that do not overlap keep all that FoodSharing promises of the rows and
\* the notices, statement by statement and at every moment between two of them.
THEOREM SerialRequestsKeepPromises == SerialSpec => KeepsPromises
BY Refinement, AtomicKeepsPromises
=============================================================================
