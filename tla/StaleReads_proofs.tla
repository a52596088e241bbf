-------------------------- MODULE StaleReads_proofs ---------------------------
(***************************************************************************)
(* What overlapping requests can do that requests one after the other      *)
(* cannot: only what follows from a stale read. Every commit whose session *)
(* has read what is still so is the atomic step of its operation, so the   *)
(* locks, the order of the writes and the columns of each UPDATE are       *)
(* right. Hence what two requests for one item need to succeed both, and   *)
(* who can still move a row that has ended.                                *)
(***************************************************************************)
EXTENDS SerialRequests_proofs

\* What an operation has read and tested is what it goes on to write: the new
\* version is the committed row with its one change, decided on the loaded entity.
AskChecked(w) ==
    /\ MayRequest(w.d) /\ Visible(w.sawItem)
    /\ w.stage = "commit" =>
         /\ ~IsExpired(w.sawItem, w.at) /\ w.sawItem.status = "AVAILABLE"
         /\ itemNew[w.i] = [item[w.i] EXCEPT !.status = "RESERVED"]

AnswerChecked(w) ==
    w.stage = "commit" /\ w.op # "accept" =>
      /\ Visible(item[w.i])
      /\ IF w.op = "complete"
         THEN /\ ItemCan(w.sawItem.status, "DONATED")
              /\ itemNew[w.i] = [item[w.i] EXCEPT !.status = "DONATED"]
         ELSE /\ w.sawItem.status = "RESERVED"
              /\ itemNew[w.i] = [item[w.i] EXCEPT !.status = ReleaseTarget(w.sawItem, w.at)]

EditChecked(s, w) ==
    /\ w.sawItem.status # "UNLISTED"
    /\ w.op # "remove" => ~w.sawItem.deleted
    /\ w.op = "update" => w.sawItem.status = "AVAILABLE"
    /\ w.stage = "commit" => itemLock[w.i] = s /\ itemNew[w.i] = OwnerEdit(s, item[w.i])

SweepChecked(s, w) ==
    /\ w.stage = "commit" => w.todo = {}
    /\ \A i \in Items : itemLock[i] = s =>
         DueForSweep(item[i], w.at) /\ itemNew[i] = [item[i] EXCEPT !.status = "EXPIRED"]

Checked(s) ==
    LET w == session[s] IN
    /\ Asking(w) => AskChecked(w)
    /\ Answering(w) => AnswerChecked(w)
    /\ Editing(w) => EditChecked(s, w)
    /\ Sweeping(w) => SweepChecked(s, w)

CheckedInv == NoticeInv /\ \A s \in Sessions : Checked(s)

-----------------------------------------------------------------------------
(* Every session keeps to what it checked *)

\* A session that stands still, and whose rows nobody else touches, stays checked.
LEMMA BystanderStaysChecked ==
    ASSUME LockInv, NEW t \in Sessions, Checked(t), session'[t] = session[t],
           \A i \in Items : itemLock'[i] = t <=> itemLock[i] = t,
           \A i \in Items : itemLock[i] = t => item'[i] = item[i] /\ itemNew'[i] = itemNew[i]
    PROVE  Checked(t)'
<1> DEFINE w == session[t]
<1>t. TypeInv /\ HasItsRows(t)
  BY DEF LockInv, LockDiscipline
<1>1. Asking(w) => AskChecked(w)'
  <2>1. Asking(w) /\ w.stage = "commit" => w.i \in Items /\ itemLock[w.i] = t
    BY <1>t, StageTells DEF HasItsRows
  <2> QED
    BY <2>1 DEF Checked, AskChecked
<1>2. Answering(w) => AnswerChecked(w)'
  <2>1. Answering(w) /\ w.stage = "commit" /\ w.op # "accept" => w.i \in Items /\ itemLock[w.i] = t
    BY <1>t, StageTells DEF HasItsRows
  <2> QED
    BY <2>1 DEF Checked, AnswerChecked
<1>3. Editing(w) => EditChecked(t, w)'
  <2>1. Editing(w) => w.i \in Items
    BY <1>t, StageTells DEF Editing
  <2> QED
    BY <2>1 DEF Checked, EditChecked, OwnerEdit
<1>4. Sweeping(w) => SweepChecked(t, w)'
  BY DEF Checked, SweepChecked
<1> QED
  BY <1>1, <1>2, <1>3, <1>4 DEF Checked

\* The other sessions when s takes a row nobody else has, or ends.
LEMMA OthersStayChecked ==
    ASSUME LockInv, \A t \in Sessions : Checked(t), NEW s \in Sessions,
           Start(s) \/ Continue(s) \/ Rollback(s)
    PROVE  \A t \in Sessions \ {s} : Checked(t)'
<1>t. /\ TypeInv /\ session \in [Sessions -> Session]
      /\ itemLock \in [Items -> Sessions \cup {NoSession}] /\ itemNew \in [Items -> ItemRow]
  BY DEF LockInv, TypeInv, TypeOK
<1>1. ASSUME NEW t \in Sessions \ {s}, session'[t] = session[t],
             \A j \in Items : itemLock'[j] = t <=> itemLock[j] = t,
             \A j \in Items : itemLock[j] = t => item'[j] = item[j] /\ itemNew'[j] = itemNew[j]
      PROVE  Checked(t)'
  BY <1>1, BystanderStaysChecked
<1>2. CASE Commit(s) \/ Rollback(s)
  <2>1. /\ session' = [session EXCEPT ![s] = Idle]
        /\ itemLock' = [j \in Items |-> IF itemLock[j] = s THEN NoSession ELSE itemLock[j]]
        /\ itemNew' = [j \in Items |-> IF itemLock[j] = s THEN item'[j] ELSE itemNew[j]]
        /\ \A j \in Items : itemLock[j] # s => item'[j] = item[j]
    BY <1>2 DEF Commit, Rollback, Close, database
  <2> QED
    BY <1>t, <1>1, <2>1, SessionAssumption
<1>3. ASSUME UNCHANGED <<item, itemLock, itemNew>>,
             \A t \in Sessions \ {s} : session'[t] = session[t]
      PROVE  \A t \in Sessions \ {s} : Checked(t)'
  BY <1>1, <1>3
<1>4. ASSUME NEW i \in Items, NEW row, WriteItemRow(s, i, row), UNCHANGED item,
             \A t \in Sessions \ {s} : session'[t] = session[t]
      PROVE  \A t \in Sessions \ {s} : Checked(t)'
  <2>1. /\ itemLock[i] \in {NoSession, s}
        /\ itemLock' = [itemLock EXCEPT ![i] = s] /\ itemNew' = [itemNew EXCEPT ![i] = row]
    BY <1>4 DEF WriteItemRow, Granted
  <2>2. ASSUME NEW t \in Sessions \ {s}, NEW j \in Items
        PROVE  /\ itemLock'[j] = t <=> itemLock[j] = t
               /\ itemLock[j] = t => itemNew'[j] = itemNew[j]
    <3>1. CASE j = i
      BY <1>t, <2>1, <3>1, SessionAssumption
    <3>2. CASE j # i
      BY <1>t, <2>1, <3>2
    <3> QED
      BY <3>1, <3>2
  <2> QED
    BY <1>1, <1>4, <2>2
<1>5. CASE Start(s)
  <2>1. \E op, first : Begin(s, op, first)
    BY <1>5, StartsInAStage
  <2> QED
    BY <1>t, <1>3, <2>1 DEF Begin, database, writes
<1>6. CASE (CheckDuplicates(s) \/ LoadItem(s) \/ AdvanceDonation(s)) /\ ~Rollback(s)
  BY <1>t, <1>3, <1>6 DEF CheckDuplicates, LoadItem, AdvanceDonation, database, writes
<1>7. CASE (Reserve(s) \/ SettleItem(s) \/ WriteOwnerEdit(s)) /\ ~Rollback(s)
  <2>1. /\ \E row : WriteItemRow(s, session[s].i, row)
        /\ UNCHANGED item
        /\ \A t \in Sessions \ {s} : session'[t] = session[t]
    BY <1>t, <1>7 DEF Reserve, SettleItem, WriteOwnerEdit, database
  <2>2. session[s].i \in Items
    BY <1>t, <1>7, StageTells DEF Reserve, SettleItem, WriteOwnerEdit
  <2> QED
    BY <1>4, <2>1, <2>2
<1>8. CASE SweepRow(s)
  <2>1. /\ session[s].stage = "sweep" /\ UNCHANGED item
        /\ \A t \in Sessions \ {s} : session'[t] = session[t]
        /\ \/ WriteItemRow(s, session[s].i, [itemNew[session[s].i] EXCEPT !.status = "EXPIRED"])
           \/ UNCHANGED <<itemLock, itemNew>>
    BY <1>t, <1>8 DEF SweepRow, NextRow, database
  <2>2. session[s].i \in Items
    BY <1>t, <2>1, StageTells
  <2> QED
    BY <1>3, <1>4, <2>1, <2>2
<1> QED
  BY <1>2, <1>5, <1>6, <1>7, <1>8 DEF Continue

LEMMA StartIsChecked ==
    ASSUME LockInv, NEW s \in Sessions, Start(s)
    PROVE  Checked(s)'
<1>t. /\ TypeInv /\ LockInv /\ session \in [Sessions -> Session]
      /\ item \in [Items -> ItemRow] /\ \A d \in Donations : ItemOf[d] \in Items
  BY DomainAssumption DEF LockInv, TypeInv, TypeOK
<1>1. CASE BeginSweep(s)
  <2>1. PICK i \in Due(now) :
          Begin(s, "sweep", [Idle EXCEPT !.op = "sweep", !.stage = "sweep", !.i = i,
                                         !.at = now, !.todo = Due(now) \ {i}])
    BY <1>1 DEF BeginSweep
  <2>2. /\ session'[s].op = "sweep" /\ session'[s].stage = "sweep"
        /\ session[s] = Idle /\ UNCHANGED itemLock
    BY <1>t, <2>1 DEF Begin, Idle, writes
  <2>3. \A j \in Items : itemLock[j] # s
    BY <1>t, <2>2, IdlePhase, HoldsNothing
  <2>4. SweepChecked(s, session[s])'
    BY <2>2, <2>3 DEF SweepChecked
  <2> QED
    BY <2>2, <2>4, OneKind DEF Checked, Asking, Answering, Editing, HandoverOps, OwnerOps
<1>2. ASSUME NEW op \in OwnerOps, NEW i \in Items, NEW row \in ItemRow, BeginOwnerOp(s, op, i, row),
             row.status # "UNLISTED", op # "remove" => ~row.deleted,
             op = "update" => row.status = "AVAILABLE"
      PROVE  Checked(s)'
  <2>1. Begin(s, op, [Idle EXCEPT !.op = op, !.stage = "write", !.i = i, !.sawItem = row])
    BY <1>2 DEF BeginOwnerOp
  <2>2. /\ session'[s].op = op /\ session'[s].stage = "write" /\ session'[s].sawItem = row
    BY <1>t, <2>1 DEF Begin, Idle
  <2>3. EditChecked(s, session[s])'
    BY <1>2, <2>2 DEF EditChecked
  <2> QED
    BY <2>2, <2>3 DEF Checked, Asking, Answering, Sweeping, HandoverOps, OwnerOps
<1>3. ASSUME NEW i \in Items, BeginUpdate(s, i) \/ BeginWithdraw(s, i) \/ BeginRemove(s, i)
      PROVE  Checked(s)'
  <2>0. item[i] \in ItemRow
    BY <1>t
  <2>1. CASE BeginUpdate(s, i)
    <3>1. PICK e \in EditDates(item[i]) :
             item[i].status = "AVAILABLE" /\ BeginOwnerOp(s, "update", i, [item[i] EXCEPT !.expires = e])
      BY <2>1 DEF BeginUpdate
    <3>2. e \in Time /\ ~item[i].deleted
      BY <3>1 DEF EditDates, BeginOwnerOp, Visible
    <3>3. /\ [item[i] EXCEPT !.expires = e] \in ItemRow
          /\ [item[i] EXCEPT !.expires = e].status = "AVAILABLE"
          /\ ~[item[i] EXCEPT !.expires = e].deleted
      BY <2>0, <3>1, <3>2 DEF ItemRow
    <3> QED
      BY <1>2, <3>1, <3>3 DEF OwnerOps
  <2>2. CASE BeginWithdraw(s, i)
    <3>1. BeginOwnerOp(s, "withdraw", i, [item[i] EXCEPT !.status = "CANCELLED"])
          /\ ~item[i].deleted
      BY <2>2 DEF BeginWithdraw, BeginOwnerOp, Visible
    <3>2. /\ [item[i] EXCEPT !.status = "CANCELLED"] \in ItemRow
          /\ [item[i] EXCEPT !.status = "CANCELLED"].status = "CANCELLED"
          /\ ~[item[i] EXCEPT !.status = "CANCELLED"].deleted
      BY <2>0, <3>1 DEF ItemRow, ItemStatus
    <3> QED
      BY <1>2, <3>1, <3>2 DEF OwnerOps
  <2>3. CASE BeginRemove(s, i)
    <3>1. BeginOwnerOp(s, "remove", i, [item[i] EXCEPT !.deleted = TRUE])
          /\ item[i].status # "UNLISTED"
      BY <2>3 DEF BeginRemove, BeginOwnerOp, Visible
    <3>2. /\ [item[i] EXCEPT !.deleted = TRUE] \in ItemRow
          /\ [item[i] EXCEPT !.deleted = TRUE].status # "UNLISTED"
      BY <2>0, <3>1 DEF ItemRow
    <3> QED
      BY <1>2, <3>1, <3>2 DEF OwnerOps
  <2> QED
    BY <1>3, <2>1, <2>2, <2>3
<1>4. ASSUME NEW d \in Donations, BeginRequest(s, d) PROVE Checked(s)'
  <2>1. /\ Begin(s, "request", [Idle EXCEPT !.op = "request", !.stage = "duplicates", !.d = d,
                                            !.i = ItemOf[d], !.sawItem = item[ItemOf[d]]])
        /\ Visible(item[ItemOf[d]]) /\ MayRequest(d)
    BY <1>4 DEF BeginRequest
  <2>2. /\ session'[s].op = "request" /\ session'[s].stage = "duplicates" /\ session'[s].d = d
        /\ session'[s].sawItem = item[ItemOf[d]]
    BY <1>t, <2>1 DEF Begin, Idle
  <2>3. AskChecked(session[s])'
    BY <2>1, <2>2 DEF AskChecked
  <2> QED
    BY <2>2, <2>3 DEF Checked, Answering, Editing, Sweeping, HandoverOps, OwnerOps
<1>5. ASSUME NEW d \in Donations, NEW op \in HandoverOps, BeginHandover(s, op, d)
      PROVE  Checked(s)'
  <2>1. Begin(s, op, [Idle EXCEPT !.op = op, !.stage = "load", !.d = d, !.i = ItemOf[d],
                                  !.sawDonation = donation[d]])
    BY <1>5 DEF BeginHandover
  <2>2. session'[s].op = op /\ session'[s].stage = "load"
    BY <1>t, <2>1 DEF Begin, Idle
  <2>3. AnswerChecked(session[s])'
    BY <2>2 DEF AnswerChecked
  <2> QED
    BY <2>2, <2>3 DEF Checked, Asking, Editing, Sweeping, HandoverOps, OwnerOps
<1> QED
  BY <1>1, <1>3, <1>4, <1>5 DEF Start

\* A row that s may write and has not written has no version but the committed one.
LEMMA FreshRow ==
    ASSUME LockInv, NEW s \in Sessions, NEW i \in Items, Granted(itemLock[i], s),
           itemLock[i] # s
    PROVE  itemNew[i] = item[i]
BY SessionAssumption DEF LockInv, LockDiscipline, ItemRowHeld, Granted

LEMMA ContinueIsChecked ==
    ASSUME LockInv, NEW s \in Sessions, Checked(s), Continue(s), ~Commit(s), ~Rollback(s)
    PROVE  Checked(s)'
<1> DEFINE v == session[s]
           i == v.i
<1>t. /\ TypeInv /\ session \in [Sessions -> Session] /\ v \in Session
      /\ item \in [Items -> ItemRow] /\ itemNew \in [Items -> ItemRow]
      /\ itemLock \in [Items -> Sessions \cup {NoSession}]
  BY DEF LockInv, TypeInv, TypeOK
<1>p. UNCHANGED item
  BY DEF Continue, CheckDuplicates, Reserve, LoadItem, AdvanceDonation, SettleItem, WriteOwnerEdit,
         SweepRow, database
\* A service call has no item before its last statement.
<1>n. v.stage \in {"reserve", "settle", "write"} => itemLock[i] # s
  BY <1>t, StageTells, SessionAssumption DEF LockInv, LockDiscipline, ItemRowHeld, Sweeping,
     Asking, Answering, Editing, HandoverOps, OwnerOps
<1>1. CASE CheckDuplicates(s)
  <2>1. v.stage = "duplicates" /\ session' = [session EXCEPT ![s].stage = "reserve"]
    BY <1>1 DEF CheckDuplicates
  <2>2. /\ session'[s].op = v.op /\ session'[s].stage = "reserve" /\ session'[s].d = v.d
        /\ session'[s].sawItem = v.sawItem
    BY <1>t, <2>1 DEF Session
  <2>3. v.op = "request" /\ AskChecked(v)
    BY <1>t, <2>1, StageTells DEF Asking, Checked
  <2>4. AskChecked(session[s])'
    BY <2>2, <2>3 DEF AskChecked
  <2> QED
    BY <2>2, <2>3, <2>4 DEF Checked, Answering, Editing, Sweeping, HandoverOps, OwnerOps
<1>2. CASE Reserve(s)
  <2>1. /\ v.stage = "reserve" /\ MayReserve(s) /\ Granted(itemLock[i], s)
        /\ session' = [session EXCEPT ![s].stage = "commit", ![s].at = now, ![s].notice = "REQUESTED"]
        /\ itemNew' = [itemNew EXCEPT ![i] = [itemNew[i] EXCEPT !.status = "RESERVED"]]
    BY <1>2 DEF Reserve, WriteItemRow
  <2>2. /\ session'[s].op = v.op /\ session'[s].stage = "commit" /\ session'[s].d = v.d
        /\ session'[s].i = i /\ session'[s].sawItem = v.sawItem /\ session'[s].at = now
    BY <1>t, <2>1 DEF Session
  <2>3. v.op = "request" /\ AskChecked(v) /\ i \in Items
    BY <1>t, <2>1, StageTells DEF Asking, Checked
  <2>4. itemNew[i] = item[i]
    BY <1>n, <2>1, <2>3, FreshRow
  <2>5. itemNew'[i] = [item[i] EXCEPT !.status = "RESERVED"]
    BY <1>t, <2>1, <2>3, <2>4
  <2>6. ~IsExpired(v.sawItem, now) /\ v.sawItem.status = "AVAILABLE"
    BY <2>1 DEF MayReserve
  <2>7. AskChecked(session[s])'
    BY <1>p, <2>2, <2>3, <2>5, <2>6 DEF AskChecked
  <2> QED
    BY <2>2, <2>3, <2>7 DEF Checked, Answering, Editing, Sweeping, HandoverOps, OwnerOps
<1>3. CASE LoadItem(s)
  <2>1. v.stage = "load"
        /\ session' = [session EXCEPT ![s].stage = "advance", ![s].sawItem = item[i]]
    BY <1>3 DEF LoadItem
  <2>2. session'[s].op = v.op /\ session'[s].stage = "advance"
    BY <1>t, <2>1 DEF Session
  <2>3. v.op \in HandoverOps
    BY <1>t, <2>1, StageTells DEF Answering
  <2> QED
    BY <2>2, <2>3 DEF Checked, AnswerChecked, Asking, Editing, Sweeping, HandoverOps, OwnerOps
<1>4. CASE AdvanceDonation(s)
  <2>1. /\ v.stage = "advance"
        /\ session' = [session EXCEPT ![s].stage = AfterAdvance(v.op), ![s].notice = NoticeFor(v.op)]
    BY <1>4 DEF AdvanceDonation
  <2>2. session'[s].op = v.op /\ session'[s].stage = AfterAdvance(v.op)
    BY <1>t, <2>1 DEF Session
  <2>3. v.op \in HandoverOps
    BY <1>t, <2>1, StageTells DEF Answering
  <2>4. session'[s].stage = "commit" => v.op = "accept"
    BY <2>2 DEF AfterAdvance
  <2> QED
    BY <2>2, <2>3, <2>4 DEF Checked, AnswerChecked, Asking, Editing, Sweeping, HandoverOps, OwnerOps
<1>5. CASE SettleItem(s)
  <2>1. /\ v.stage = "settle" /\ MaySettle(s) /\ Granted(itemLock[i], s)
        /\ session' = [session EXCEPT ![s].stage = "commit", ![s].at = now]
        /\ itemNew' = [itemNew EXCEPT ![i] = [itemNew[i] EXCEPT !.status = SettledStatus(s)]]
    BY <1>5 DEF SettleItem, WriteItemRow
  <2>2. /\ session'[s].op = v.op /\ session'[s].stage = "commit" /\ session'[s].i = i
        /\ session'[s].sawItem = v.sawItem /\ session'[s].at = now
    BY <1>t, <2>1 DEF Session
  <2>3. v.op \in HandoverOps /\ i \in Items
    BY <1>t, <2>1, StageTells DEF Answering
  <2>4. itemNew[i] = item[i]
    BY <1>n, <2>1, <2>3, FreshRow
  <2>5. itemNew'[i] = [item[i] EXCEPT !.status = SettledStatus(s)]
    BY <1>t, <2>1, <2>3, <2>4
  <2>6. AnswerChecked(session[s])'
    BY <1>p, <2>1, <2>2, <2>4, <2>5 DEF AnswerChecked, MaySettle, SettledStatus
  <2> QED
    BY <2>2, <2>3, <2>6 DEF Checked, Asking, Editing, Sweeping, HandoverOps, OwnerOps
<1>6. CASE WriteOwnerEdit(s)
  <2>1. /\ v.stage = "write" /\ Granted(itemLock[i], s)
        /\ session' = [session EXCEPT ![s].stage = "commit"]
        /\ itemLock' = [itemLock EXCEPT ![i] = s]
        /\ itemNew' = [itemNew EXCEPT ![i] = OwnerEdit(s, itemNew[i])]
    BY <1>6 DEF WriteOwnerEdit, WriteItemRow
  <2>2. /\ session'[s].op = v.op /\ session'[s].stage = "commit" /\ session'[s].i = i
        /\ session'[s].sawItem = v.sawItem
    BY <1>t, <2>1 DEF Session
  <2>3. v.op \in OwnerOps /\ EditChecked(s, v) /\ i \in Items
    BY <1>t, <2>1, StageTells DEF Editing, Checked
  <2>4. itemNew[i] = item[i]
    BY <1>n, <2>1, <2>3, FreshRow
  <2>5. itemLock'[i] = s /\ itemNew'[i] = OwnerEdit(s, item[i])
    BY <1>t, <2>1, <2>3, <2>4
  <2>6. EditChecked(s, session[s])'
    BY <1>p, <2>2, <2>3, <2>5 DEF EditChecked, OwnerEdit
  <2> QED
    BY <2>2, <2>3, <2>6 DEF Checked, Asking, Answering, Sweeping, HandoverOps, OwnerOps
<1>7. CASE SweepRow(s)
  <2>1. v.stage = "sweep" /\ Granted(itemLock[i], s) /\ NextRow(s)
    BY <1>7 DEF SweepRow
  <2>2. v.op = "sweep" /\ SweepChecked(s, v) /\ i \in Items
    BY <1>t, <2>1, StageTells DEF Sweeping, Checked
  <2>3. /\ session'[s].op = "sweep" /\ session'[s].at = v.at
        /\ session'[s].stage = "commit" => session'[s].todo = {}
    <3>1. CASE v.todo = {}
      <4>1. session' = [session EXCEPT ![s].stage = "commit"]
        BY <2>1, <3>1 DEF NextRow
      <4> QED
        BY <1>t, <2>2, <3>1, <4>1 DEF Session
    <3>2. CASE v.todo # {}
      <4>1. PICK j \in v.todo : session' = [session EXCEPT ![s].i = j, ![s].todo = @ \ {j}]
        BY <2>1, <3>2 DEF NextRow
      <4> QED
        BY <1>t, <2>1, <2>2, <4>1 DEF Session
    <3> QED
      BY <3>1, <3>2
  <2>4. \A j \in Items : itemLock'[j] = s =>
           DueForSweep(item[j], v.at) /\ itemNew'[j] = [item[j] EXCEPT !.status = "EXPIRED"]
    <3>0. \A j \in Items : itemLock[j] = s =>
             DueForSweep(item[j], v.at) /\ itemNew[j] = [item[j] EXCEPT !.status = "EXPIRED"]
      BY <2>2 DEF SweepChecked
    <3>1. CASE UNCHANGED <<itemLock, itemNew>>
      BY <3>0, <3>1
    <3>2. CASE DueForSweep(itemNew[i], v.at)
               /\ WriteItemRow(s, i, [itemNew[i] EXCEPT !.status = "EXPIRED"])
      <4>1. /\ itemLock' = [itemLock EXCEPT ![i] = s]
            /\ itemNew' = [itemNew EXCEPT ![i] = [itemNew[i] EXCEPT !.status = "EXPIRED"]]
        BY <3>2 DEF WriteItemRow
      <4>2. itemLock[i] # s
        <5>1. itemNew[i].status # "EXPIRED"
          BY <3>2 DEF DueForSweep
        <5> QED
          BY <1>t, <2>2, <3>0, <5>1 DEF ItemRow
      <4>3. itemNew[i] = item[i]
        BY <2>1, <2>2, <4>2, FreshRow
      <4> QED
        BY <1>t, <2>2, <3>0, <3>2, <4>1, <4>3
    <3> QED
      BY <1>7, <3>1, <3>2 DEF SweepRow
  <2>5. SweepChecked(s, session[s])'
    BY <1>p, <2>3, <2>4 DEF SweepChecked
  <2> QED
    BY <2>3, <2>5 DEF Checked, Asking, Answering, Editing, HandoverOps, OwnerOps
<1> QED
  BY <1>1, <1>2, <1>3, <1>4, <1>5, <1>6, <1>7 DEF Continue

LEMMA CheckedInvariant == Spec => []CheckedInv
<1>1. Init /\ NoticeInv => CheckedInv
  BY DEF Init, CheckedInv, Checked, Idle, Asking, Answering, Editing, Sweeping, HandoverOps, OwnerOps
<1>2. CheckedInv /\ NoticeInv' /\ [Next]_vars => CheckedInv'
  <2> SUFFICES ASSUME CheckedInv, [Next]_vars, NEW t \in Sessions PROVE Checked(t)'
    BY DEF CheckedInv
  <2>t. LockInv /\ Checked(t) /\ \A s \in Sessions : Checked(s)
    BY DEF CheckedInv, NoticeInv
  <2>1. CASE Tick \/ UNCHANGED vars
    BY <2>t, <2>1, BystanderStaysChecked DEF Tick, vars, database, writes
  <2>2. ASSUME NEW i \in Items, NEW e \in Time, CreateItem(i, e) PROVE Checked(t)'
    <3>1. /\ UNCHANGED <<session, itemLock>> /\ item[i].status = "UNLISTED"
          /\ \A j \in Items \ {i} : item'[j] = item[j] /\ itemNew'[j] = itemNew[j]
      BY <2>2, <2>t DEF CreateItem, LockInv, TypeInv, TypeOK
    <3>2. itemLock[i] # t
      BY <2>t, <3>1, SessionAssumption DEF LockInv, LockDiscipline, ItemRowHeld
    <3> QED
      BY <2>t, <3>1, <3>2, BystanderStaysChecked
  <2>3. ASSUME NEW s \in Sessions, Start(s) \/ Continue(s) \/ Rollback(s) PROVE Checked(t)'
    <3>1. CASE t # s
      BY <2>t, <2>3, <3>1, OthersStayChecked
    <3>2. CASE t = s /\ (Commit(s) \/ Rollback(s))
      <4>1. session'[s] = Idle
        BY <2>t, <3>2 DEF Commit, Rollback, Close, LockInv, TypeInv, TypeOK
      <4> QED
        BY <3>2, <4>1 DEF Checked, Idle, Asking, Answering, Editing, Sweeping, HandoverOps, OwnerOps
    <3>3. CASE t = s /\ ~Commit(s) /\ ~Rollback(s)
      BY <2>t, <2>3, <3>3, StartIsChecked, ContinueIsChecked
    <3> QED
      BY <3>1, <3>2, <3>3
  <2> QED
    BY <2>1, <2>2, <2>3 DEF Next
<1> QED
  BY <1>1, <1>2, NoticeInvariant, PTL DEF Spec

-----------------------------------------------------------------------------
(* A commit whose reads are still true *)

LEMMA StillTrueIsAtomic ==
    ASSUME CheckedInv, NEW s \in Sessions, session[s].stage = "commit", StillTrue(s)
    PROVE  Atomically(s, session[s])
<1> DEFINE w == session[s]
<1>t. /\ TypeInv /\ LockInv /\ w \in Session /\ w.i \in Items
      /\ item \in [Items -> ItemRow] /\ Checked(s) /\ NoticeAccounted(s)
  BY StageTells DEF CheckedInv, NoticeInv, LockInv, TypeInv, TypeOK
<1>1. Asking(w) => AsksAtomically(w)
  <2> SUFFICES ASSUME Asking(w) PROVE AsksAtomically(w)
    OBVIOUS
  <2>1. w.op = "request" /\ AskChecked(w) /\ AskAccounted(s, w)
    BY <1>t DEF Asking, Checked, NoticeAccounted
  <2>2. /\ w.sawItem = item[w.i] /\ w.at = now
        /\ ~HasOpenRequest(RecipientOf[w.d], w.i)
    BY <2>1 DEF StillTrue, HandoverOps, OwnerOps
  <2> QED
    BY <2>1, <2>2 DEF AskChecked, AskAccounted, AsksAtomically
<1>2. Answering(w) => AnswersAtomically(w)
  <2> SUFFICES ASSUME Answering(w) PROVE AnswersAtomically(w)
    OBVIOUS
  <2>1. /\ w.op \in HandoverOps
        /\ AnswerChecked(w) /\ AnswerAccounted(w)
    BY <1>t DEF Answering, HandoverOps, Checked, NoticeAccounted
  <2>2. /\ w.sawDonation = donation[w.d]
        /\ w.op # "accept" => w.sawItem = item[w.i]
        /\ w.op \in {"decline", "cancel"} => w.at = now
    <3>1. w.op # "request" /\ w.op \notin OwnerOps
      BY <2>1 DEF HandoverOps, OwnerOps
    <3> QED
      BY <2>1, <3>1 DEF StillTrue
  <2>3. DonationCan(donation[w.d], Target(w.op)) /\ w.notice = NoticeFor(w.op)
    BY <2>1, <2>2 DEF AnswerAccounted
  <2>4. CASE w.op = "accept"
    BY <2>2, <2>3, <2>4 DEF AnswersAtomically
  <2>5. CASE w.op = "complete"
    BY <2>1, <2>2, <2>3, <2>5 DEF AnswerChecked, AnswersAtomically
  <2>6. CASE w.op \in {"decline", "cancel"}
    BY <2>1, <2>2, <2>3, <2>6 DEF AnswerChecked, AnswersAtomically
  <2> QED
    BY <2>1, <2>4, <2>5, <2>6 DEF HandoverOps
<1>3. Editing(w) => EditsAtomically(s, w)
  <2> SUFFICES ASSUME Editing(w) PROVE EditsAtomically(s, w)
    OBVIOUS
  <2>1. w.op \in OwnerOps /\ w.op # "request" /\ w.op \notin HandoverOps /\ EditChecked(s, w)
    BY <1>t DEF Editing, OwnerOps, HandoverOps, Checked
  <2>2. /\ w.sawItem = OwnerEdit(s, item[w.i])
        /\ w.op = "update" => w.sawItem.expires > now
        /\ w.op = "withdraw" => item[w.i].status = "AVAILABLE"
        /\ w.op = "remove" => ~item[w.i].deleted
    BY <2>1 DEF StillTrue
  <2>3. item[w.i] \in ItemRow
    BY <1>t
  <2> QED
    BY <2>1, <2>2, <2>3 DEF EditChecked, EditsAtomically, OwnerEdit, OwnerOps, Visible, ItemRow,
       ItemCan, ItemMoves
<1>4. Sweeping(w) => SweepsAtomically(s, w)
  <2> SUFFICES ASSUME Sweeping(w) PROVE SweepsAtomically(s, w)
    OBVIOUS
  <2>1. w.op = "sweep" /\ SweepChecked(s, w)
    BY <1>t DEF Sweeping, Checked
  <2>2. w.at = now /\ \A i \in Due(now) : itemLock[i] = s
    BY <2>1 DEF StillTrue, HandoverOps, OwnerOps
  <2> QED
    BY <2>1, <2>2 DEF SweepChecked, SweepsAtomically, Due
<1> QED
  BY <1>1, <1>2, <1>3, <1>4 DEF Atomically

\* Every step of the concurrent flow, but for the commits of what is stale.
LEMMA StepIsAtomicUnlessStale ==
    ASSUME CheckedInv, [Next]_vars,
           \A s \in Sessions : Commit(s) => StillTrue(s)
    PROVE  Promise!Next \/ UNCHANGED Promise!vars
<1>1. ASSUME NEW s \in Sessions, Commit(s) PROVE Promise!Next
  <2>1. LockInv /\ session[s].stage = "commit" /\ StillTrue(s)
    BY <1>1 DEF CheckedInv, NoticeInv, Commit
  <2> QED
    BY <1>1, <2>1, StillTrueIsAtomic, CommitIsAtomic
<1>2. CASE ~\E s \in Sessions : Commit(s)
  BY <1>2, QuietStepIsAtomic
<1> QED
  BY <1>1, <1>2

\* Requests may overlap as they like: whatever they do that requests one after
\* the other could not is done by a commit whose session had read something that is no
\* longer so.
THEOREM OnlyStaleReadsMatter == Spec => OnlyStaleReadsDeviate
<1>1. CheckedInv /\ [Next]_vars =>
        [\/ Promise!Next
         \/ UNCHANGED Promise!vars
         \/ \E s \in Sessions : Commit(s) /\ ~StillTrue(s)]_vars
  BY StepIsAtomicUnlessStale
<1> QED
  BY <1>1, CheckedInvariant, PTL DEF Spec, OnlyStaleReadsDeviate

-----------------------------------------------------------------------------
(* Which stale reads let two requests succeed *)

\* What the code's promise of one request per item needs of a commit: the item a
\* request takes still reads AVAILABLE, and the donation an answer moves has not
\* moved since it was loaded. Nothing is asked of owners' edits and sweeps.
ClaimIsFresh(s) ==
    LET w == session[s] IN
    /\ w.op = "request" => item[w.i].status = "AVAILABLE"
    /\ w.op \in HandoverOps => w.sawDonation = donation[w.d]

FreshClaims == [][\A s \in Sessions : Commit(s) => ClaimIsFresh(s)]_vars

\* An open donation lays claim to its item, and a completed one had it.
Claims(d) == donation[d] \in OpenStatuses \cup {"COMPLETED"}

\* An item somebody counts on, or was given, is not for anybody else to ask for.
ClaimedIsTaken ==
    \A d \in Donations : Claims(d) => item[ItemOf[d]].status \notin {"UNLISTED", "AVAILABLE"}

OneClaimPerItem ==
    \A d, e \in Donations : Claims(d) /\ Claims(e) /\ ItemOf[d] = ItemOf[e] => d = e

SoleInv == CheckedInv /\ ClaimedIsTaken /\ OneClaimPerItem

LEMMA RequestKeepsSole ==
    ASSUME SoleInv, NEW s \in Sessions, Commit(s), Asking(session[s]), ClaimIsFresh(s)
    PROVE  ClaimedIsTaken' /\ OneClaimPerItem'
<1> DEFINE w == session[s]
<1>0. LockInv
  BY DEF SoleInv, CheckedInv, NoticeInv
<1>1. /\ w.d \in Donations /\ w.i = ItemOf[w.d] /\ w.i \in Items
      /\ donation' = [donation EXCEPT ![w.d] = "PENDING"]
      /\ item[w.i].status = "AVAILABLE"
      /\ item \in [Items -> ItemRow] /\ donation \in [Donations -> DonationStatus]
  BY <1>0, CommitPublishes DEF LockInv, TypeInv, TypeOK, ClaimIsFresh, Asking
<1>2. item' = [item EXCEPT ![w.i] = itemNew[w.i]] /\ itemNew[w.i].status = "RESERVED"
  <2>1. w.stage = "commit" /\ ~Sweeping(w)
    BY OneKind DEF Commit, Asking
  <2>2. itemLock[w.i] = s /\ AskChecked(w)
    BY <1>0, <2>1 DEF SoleInv, CheckedInv, LockInv, LockDiscipline, HasItsRows, Checked
  <2>3. itemNew[w.i] = [item[w.i] EXCEPT !.status = "RESERVED"]
    BY <2>1, <2>2 DEF AskChecked
  <2>4. item' = [item EXCEPT ![w.i] = itemNew[w.i]]
    BY <1>0, <2>1, <2>2, CommitPublishes
  <2>5. item[w.i] \in ItemRow
    BY <1>1
  <2> QED
    BY <2>3, <2>4, <2>5 DEF ItemRow
\* The item was free, so nobody had an open donation of it.
<1>3. \A d \in Donations : Claims(d) => ItemOf[d] # w.i
  BY <1>1 DEF SoleInv, ClaimedIsTaken
<1>4. \A d \in Donations : Claims(d)' <=> d = w.d \/ Claims(d)
  BY <1>1 DEF Claims, OpenStatuses
<1>5. \A d \in Donations : ItemOf[d] \in Items
  BY DomainAssumption
<1>6. ClaimedIsTaken'
  BY <1>1, <1>2, <1>3, <1>4, <1>5 DEF SoleInv, ClaimedIsTaken
<1>7. OneClaimPerItem'
  BY <1>1, <1>3, <1>4 DEF SoleInv, OneClaimPerItem
<1> QED
  BY <1>6, <1>7

LEMMA AnswerKeepsSole ==
    ASSUME SoleInv, NEW s \in Sessions, Commit(s), Answering(session[s]), ClaimIsFresh(s)
    PROVE  ClaimedIsTaken' /\ OneClaimPerItem'
<1> DEFINE w == session[s]
<1>0. LockInv
  BY DEF SoleInv, CheckedInv, NoticeInv
<1>1. /\ w.d \in Donations /\ w.i = ItemOf[w.d] /\ w.i \in Items
      /\ donation' = [donation EXCEPT ![w.d] = Target(w.op)]
      /\ w.op \in HandoverOps /\ w.stage = "commit"
      /\ item \in [Items -> ItemRow] /\ donation \in [Donations -> DonationStatus]
  BY <1>0, CommitPublishes DEF LockInv, TypeInv, TypeOK, Answering
<1>2. AnswerChecked(w) /\ AnswerAccounted(w)
  BY DEF SoleInv, CheckedInv, NoticeInv, Checked, NoticeAccounted
\* The donation is still the one the answer loaded, so it was open.
<1>3. donation[w.d] \in OpenStatuses /\ Claims(w.d)
  <2>1. DonationCan(donation[w.d], Target(w.op))
    BY <1>1, <1>2 DEF AnswerAccounted, ClaimIsFresh
  <2> QED
    BY <2>1 DEF DonationCan, DonationMoves, Claims, OpenStatuses
<1>4. \A d \in Donations \ {w.d} : (Claims(d)' <=> Claims(d)) /\ (Claims(d) => ItemOf[d] # w.i)
  BY <1>1, <1>3 DEF SoleInv, OneClaimPerItem, Claims
<1>5. \A d \in Donations : ItemOf[d] \in Items
  BY DomainAssumption
<1>6. \A j \in Items \ {w.i} : item'[j] = item[j]
  <2>1. CASE w.op = "accept"
    BY <1>0, <2>1, CommitPublishes
  <2>2. CASE w.op # "accept"
    <3>1. itemLock[w.i] = s /\ ~Sweeping(w)
      BY <1>0, <1>1, <2>2, OneKind DEF LockInv, LockDiscipline, HasItsRows
    <3> QED
      BY ZenonT(40), <1>0, <1>1, <3>1, CommitPublishes
  <2> QED
    BY <2>1, <2>2
<1>7. donation'[w.d] \in OpenStatuses \cup {"COMPLETED"} => item'[w.i].status \notin {"UNLISTED", "AVAILABLE"}
  <2>1. CASE w.op = "accept"
    BY <1>0, <1>1, <1>3, <2>1, CommitPublishes DEF SoleInv, ClaimedIsTaken
  <2>2. CASE w.op = "complete"
    <3>1. itemNew[w.i] = [item[w.i] EXCEPT !.status = "DONATED"]
      BY <1>1, <1>2, <2>2 DEF AnswerChecked
    <3>2. itemLock[w.i] = s /\ ~Sweeping(w)
      BY <1>0, <1>1, <2>2, OneKind DEF LockInv, LockDiscipline, HasItsRows
    <3>3. item' = [item EXCEPT ![w.i] = itemNew[w.i]]
      BY <1>0, <3>2, CommitPublishes
    <3>4. item[w.i] \in ItemRow
      BY <1>1
    <3> QED
      BY <1>1, <3>1, <3>3, <3>4 DEF ItemRow
  <2>3. CASE w.op \in {"decline", "cancel"}
    <3>1. Target(w.op) = "CANCELLED"
      BY <2>3 DEF Target
    <3> QED
      BY <1>1, <3>1 DEF OpenStatuses
  <2> QED
    BY <1>1, <2>1, <2>2, <2>3 DEF HandoverOps
<1>8. ClaimedIsTaken'
  <2>1. ASSUME NEW d \in Donations, donation'[d] \in OpenStatuses \cup {"COMPLETED"}
        PROVE  item'[ItemOf[d]].status \notin {"UNLISTED", "AVAILABLE"}
    <3>1. CASE d = w.d
      BY <1>1, <1>7, <2>1, <3>1
    <3>2. CASE d # w.d
      BY <1>4, <1>5, <1>6, <2>1, <3>2 DEF SoleInv, ClaimedIsTaken, Claims
    <3> QED
      BY <3>1, <3>2
  <2> QED
    BY <2>1 DEF ClaimedIsTaken, Claims
<1>9. OneClaimPerItem'
  BY <1>1, <1>3, <1>4 DEF SoleInv, OneClaimPerItem
<1> QED
  BY <1>8, <1>9

\* An owner's edit and a sweep never make an item available, whatever they had read.
LEMMA ListingCommitKeepsSole ==
    ASSUME SoleInv, NEW s \in Sessions, Commit(s), Editing(session[s]) \/ Sweeping(session[s])
    PROVE  ClaimedIsTaken' /\ OneClaimPerItem'
<1> DEFINE w == session[s]
<1>0. LockInv
  BY DEF SoleInv, CheckedInv, NoticeInv
<1>1. donation' = donation /\ \A d \in Donations : ItemOf[d] \in Items
  BY <1>0, CommitPublishes, DomainAssumption
<1>2. ASSUME NEW j \in Items PROVE item'[j].status \in {item[j].status, "CANCELLED", "EXPIRED"}
  <2>1. CASE itemLock[j] # s
    BY <2>1 DEF Commit
  <2>2. CASE itemLock[j] = s
    <3>1. ItemRowHeld(j) /\ s # NoSession /\ w.stage = "commit"
      BY <1>0, SessionAssumption DEF LockInv, LockDiscipline, Commit
    <3>2. ~Asking(w) /\ ~Answering(w)
      BY DEF Asking, Answering, Editing, Sweeping, HandoverOps, OwnerOps
    <3>3. itemNew[j].status \in {item[j].status, "CANCELLED", "EXPIRED"}
      BY <2>2, <3>1, <3>2 DEF ItemRowHeld
    <3> QED
      BY <2>2, <3>3 DEF Commit
  <2> QED
    BY <2>1, <2>2
<1> QED
  BY <1>1, <1>2 DEF SoleInv, ClaimedIsTaken, OneClaimPerItem, Claims

LEMMA SoleInvariant == Spec /\ FreshClaims => []SoleInv
<1>1. Init /\ CheckedInv => SoleInv
  BY DEF Init, SoleInv, ClaimedIsTaken, OneClaimPerItem, Claims, OpenStatuses
<1>2. SoleInv /\ CheckedInv' /\ [Next]_vars /\ [\A s \in Sessions : Commit(s) => ClaimIsFresh(s)]_vars
        => SoleInv'
  <2> SUFFICES ASSUME SoleInv, [Next]_vars,
                      [\A s \in Sessions : Commit(s) => ClaimIsFresh(s)]_vars
               PROVE  ClaimedIsTaken' /\ OneClaimPerItem'
    BY DEF SoleInv
  <2>1. ASSUME UNCHANGED <<item, donation>> PROVE ClaimedIsTaken' /\ OneClaimPerItem'
    BY <2>1 DEF SoleInv, ClaimedIsTaken, OneClaimPerItem, Claims
  <2>2. CASE UNCHANGED vars \/ Tick
    BY <2>1, <2>2 DEF vars, Tick, database
  <2>3. ASSUME NEW i \in Items, NEW e \in Time, CreateItem(i, e)
        PROVE  ClaimedIsTaken' /\ OneClaimPerItem'
    <3>1. /\ item[i].status = "UNLISTED" /\ donation' = donation
          /\ \A j \in Items \ {i} : item'[j] = item[j]
          /\ \A d \in Donations : ItemOf[d] \in Items
      BY <2>3, DomainAssumption DEF CreateItem, SoleInv, CheckedInv, NoticeInv, LockInv, TypeInv, TypeOK
    <3> QED
      BY <3>1 DEF SoleInv, ClaimedIsTaken, OneClaimPerItem, Claims
  <2>4. ASSUME NEW s \in Sessions, Start(s) \/ Continue(s) \/ Rollback(s), ~Commit(s)
        PROVE  ClaimedIsTaken' /\ OneClaimPerItem'
    BY <2>1, <2>4, OnlyCommitsPublish DEF database
  <2>5. ASSUME NEW s \in Sessions, Commit(s)
        PROVE  ClaimedIsTaken' /\ OneClaimPerItem'
    <3>1. LockInv /\ TypeInv
      BY DEF SoleInv, CheckedInv, NoticeInv, LockInv
    <3>2. session[s] # Idle /\ session[s].stage = "commit"
      BY <2>5, <3>1, CommitPublishes
    <3>3. ClaimIsFresh(s)
      <4>1. session'[s] # session[s]
        BY <2>5, <3>1, <3>2 DEF Commit, Close, TypeInv, TypeOK
      <4> QED
        BY <2>5, <4>1 DEF vars
    <3>4. \/ Asking(session[s]) \/ Answering(session[s])
          \/ Editing(session[s]) \/ Sweeping(session[s])
      BY <3>1, <3>2 DEF TypeInv, Phases, PhaseOK, Asking, Answering, Editing, Sweeping
    <3> QED
      BY <2>5, <3>3, <3>4, RequestKeepsSole, AnswerKeepsSole, ListingCommitKeepsSole
  <2> QED
    BY <2>2, <2>3, <2>4, <2>5 DEF Next
<1> QED
  BY <1>1, <1>2, CheckedInvariant, PTL DEF Spec, FreshClaims

\* "Two simultaneous requests for the last loaf cannot both succeed", as soon as the
\* two reads the services decide on are repeated under the lock: the item's status in
\* reserve() and the donation's in accept, decline, complete and cancel. The run that
\* refutes the sentence needs one of the two to be stale.
THEOREM FreshClaimsAreEnough == Spec /\ FreshClaims => []OnlyOneRequestSucceeds
<1>1. SoleInv => OnlyOneRequestSucceeds
  BY DEF SoleInv, OneClaimPerItem, Claims, OnlyOneRequestSucceeds, Open
<1> QED
  BY <1>1, SoleInvariant, PTL

\* Then nothing is promised to a second person after it was given to one, either.
THEOREM GivenOnce == Spec /\ FreshClaims => []OneClaimPerItem
<1>1. SoleInv => OneClaimPerItem
  BY DEF SoleInv
<1> QED
  BY <1>1, SoleInvariant, PTL

-----------------------------------------------------------------------------
(* What has ended *)

\* An answer that is about to commit had loaded its donation while that was open.
LEMMA AnsweredWhileOpen ==
    ASSUME CheckedInv, NEW s \in Sessions, Commit(s), Answering(session[s])
    PROVE  session[s].sawDonation \in OpenStatuses
<1>1. session[s].stage = "commit" /\ AnswerAccounted(session[s])
  BY DEF CheckedInv, NoticeInv, NoticeAccounted, Commit
<1>2. DonationCan(session[s].sawDonation, Target(session[s].op))
  BY <1>1 DEF AnswerAccounted
<1> QED
  BY <1>2 DEF DonationCan, DonationMoves, OpenStatuses

\* The donation a commit moves away from a terminal status.
LEMMA EndedDonationMoves ==
    ASSUME CheckedInv, NEW s \in Sessions, Commit(s), NEW d \in Donations,
           donation[d] \in {"COMPLETED", "CANCELLED"}, donation'[d] # donation[d]
    PROVE  session[s].d = d /\ session[s].sawDonation \in OpenStatuses
<1> DEFINE w == session[s]
<1>1. /\ LockInv /\ TypeInv /\ NoticeAccounted(s)
      /\ donation \in [Donations -> DonationStatus]
  BY DEF CheckedInv, NoticeInv, LockInv, TypeInv, TypeOK
<1>2. w # Idle /\ w.stage = "commit"
  BY <1>1, CommitPublishes
<1>3. CASE Asking(w)
  <2>1. donation[w.d] = "NONE" /\ donation' = [donation EXCEPT ![w.d] = "PENDING"]
    BY <1>1, <1>3, CommitPublishes DEF NoticeAccounted, AskAccounted
  <2> QED
    BY <1>1, <2>1
<1>4. CASE Answering(w)
  <2>1. donation' = [donation EXCEPT ![w.d] = Target(w.op)]
    BY <1>1, <1>4, CommitPublishes
  <2> QED
    BY <1>1, <1>4, <2>1, AnsweredWhileOpen
<1>5. CASE Editing(w) \/ Sweeping(w)
  BY <1>1, <1>5, CommitPublishes
<1> QED
  BY <1>1, <1>2, <1>3, <1>4, <1>5
     DEF TypeInv, Phases, PhaseOK, Asking, Answering, Editing, Sweeping

\* The item a commit moves away from a terminal status.
LEMMA EndedItemMoves ==
    ASSUME CheckedInv, NEW s \in Sessions, Commit(s), NEW i \in Items,
           item[i].status \in {"DONATED", "CANCELLED", "EXPIRED"}, item'[i].status # item[i].status
    PROVE  /\ session[s].i = i
           /\ \/ session[s].op = "withdraw"
              \/ session[s].sawItem.status \in {"AVAILABLE", "RESERVED"}
<1> DEFINE w == session[s]
<1>1. /\ LockInv /\ TypeInv /\ Checked(s) /\ item \in [Items -> ItemRow]
  BY DEF CheckedInv, NoticeInv, LockInv, TypeInv, TypeOK
<1>2. w # Idle /\ w.stage = "commit"
  BY <1>1, CommitPublishes
<1>3. itemLock[i] = s /\ item'[i] = itemNew[i]
  BY DEF Commit
<1>4. ~Sweeping(w)
  <2> SUFFICES ASSUME Sweeping(w) PROVE FALSE
    OBVIOUS
  <2>1. DueForSweep(item[i], w.at)
    BY <1>1, <1>3 DEF Checked, SweepChecked
  <2> QED
    BY <2>1 DEF DueForSweep
<1>5. w.i = i
  BY <1>1, <1>3, <1>4, SessionAssumption
     DEF LockInv, LockDiscipline, ItemRowHeld, Sweeping
<1>6. CASE Asking(w)
  BY <1>1, <1>2, <1>5, <1>6 DEF Checked, AskChecked
<1>7. CASE Answering(w)
  <2>1. w.op # "accept"
    BY <1>1, <1>3, CommitPublishes
  <2>2. AnswerChecked(w)
    BY <1>1, <1>7 DEF Checked
  <2>3. w.sawItem.status = "RESERVED"
    BY <1>2, <2>1, <2>2 DEF AnswerChecked, ItemCan, ItemMoves
  <2> QED
    BY <1>5, <2>3
<1>8. CASE Editing(w)
  <2>1. itemNew[i] = OwnerEdit(s, item[i])
    BY <1>1, <1>2, <1>5, <1>8 DEF Checked, EditChecked
  <2>2. item[i] \in ItemRow
    BY <1>1
  <2>3. w.op = "withdraw"
    BY <1>3, <1>8, <2>1, <2>2 DEF OwnerEdit, ItemRow, Editing, OwnerOps
  <2> QED
    BY <1>5, <2>3
<1> QED
  BY <1>1, <1>2, <1>4, <1>6, <1>7, <1>8
     DEF TypeInv, Phases, PhaseOK, Asking, Answering, Editing, Sweeping

\* "Terminal" (donations/models.py:47, food_items/models.py:54) for whoever begins after the
\* end, however requests overlap and fail: only a commit already under way moves
\* a row that has ended.
THEOREM EndedMovesNeedARaceHolds == Spec => EndedMovesNeedARace
<1>1. CheckedInv /\ [Next]_vars => [EndedDonationsMoveLate /\ EndedItemsMoveLate]_vars
  <2> SUFFICES ASSUME CheckedInv, [Next]_vars PROVE EndedDonationsMoveLate /\ EndedItemsMoveLate
    OBVIOUS
  <2>1. ASSUME NEW s \in Sessions, Commit(s) PROVE EndedDonationsMoveLate /\ EndedItemsMoveLate
    BY <2>1, EndedDonationMoves, EndedItemMoves DEF EndedDonationsMoveLate, EndedItemsMoveLate
  <2>2. CASE UNCHANGED <<item, donation>>
    BY <2>2 DEF EndedDonationsMoveLate, EndedItemsMoveLate
  <2>3. ASSUME NEW i \in Items, NEW e \in Time, CreateItem(i, e)
        PROVE  EndedDonationsMoveLate /\ EndedItemsMoveLate
    <3>1. /\ item[i].status = "UNLISTED" /\ donation' = donation
          /\ \A j \in Items \ {i} : item'[j] = item[j]
      BY <2>3 DEF CreateItem, CheckedInv, NoticeInv, LockInv, TypeInv, TypeOK
    <3> QED
      BY <3>1 DEF EndedDonationsMoveLate, EndedItemsMoveLate
  <2>4. CASE UNCHANGED vars \/ Tick
    BY <2>2, <2>4 DEF vars, Tick, database
  <2>5. ASSUME NEW s \in Sessions, Start(s) \/ Continue(s) \/ Rollback(s), ~Commit(s)
        PROVE  UNCHANGED <<item, donation>>
    BY <2>5, OnlyCommitsPublish DEF database
  <2> QED
    BY <2>1, <2>2, <2>3, <2>4, <2>5 DEF Next
<1> QED
  BY <1>1, CheckedInvariant, PTL DEF Spec, EndedMovesNeedARace
=============================================================================
