--------------------- MODULE RequestTransactions_proofs ---------------------
(***************************************************************************)
(* The concurrent donation flow, for any number of sessions, items and     *)
(* donations.                                                              *)
(***************************************************************************)
EXTENDS RequestTransactions, TLAPS

-----------------------------------------------------------------------------
(* Types *)

ItemRowsOK ==
    /\ item \in [Items -> ItemRow]
    /\ itemLock \in [Items -> Sessions \cup {NoSession}]
    /\ itemNew \in [Items -> ItemRow]

DonationRowsOK ==
    /\ donation \in [Donations -> DonationStatus]
    /\ notices \subseteq Notice
    /\ donationLock \in [Donations -> Sessions \cup {NoSession}]
    /\ donationNew \in [Donations -> DonationStatus]

LEMMA TypeOKParts ==
    TypeOK <=> now \in Time /\ session \in [Sessions -> Session] /\ ItemRowsOK /\ DonationRowsOK
BY DEF TypeOK, ItemRowsOK, DonationRowsOK

LEMMA IdleIsSession == Idle \in Session
BY DomainAssumption DEF Idle, Session, Stage, DonationStatus, ItemRow, ItemStatus, Unlisted, Time

\* Closing a session and committing or dropping what it wrote keeps every row a row.
LEMMA CloseType ==
    ASSUME TypeOK, NEW s \in Sessions, Close(s),
           item' \in [Items -> ItemRow], donation' \in [Donations -> DonationStatus],
           notices' \subseteq Notice, now' = now
    PROVE  TypeOK'
BY IdleIsSession DEF TypeOK, Close

LEMMA RollbackType ==
    ASSUME TypeOK, NEW s \in Sessions, Rollback(s)
    PROVE  TypeOK'
BY CloseType DEF TypeOK, Rollback, database

LEMMA CommitType ==
    ASSUME TypeOK, NEW s \in Sessions, Commit(s), session[s].d \in Donations \/ session[s].notice = "none"
    PROVE  TypeOK'
<1>1. item' \in [Items -> ItemRow] /\ donation' \in [Donations -> DonationStatus]
  BY DEF TypeOK, Commit
<1>2. session[s].notice \in NoticeType \cup {"none"}
  BY DEF TypeOK, Session
<1>3. notices' \subseteq Notice
  BY <1>2 DEF TypeOK, Commit, Notice, NoticeOf
<1> QED
  BY <1>1, <1>3, CloseType DEF Commit

-----------------------------------------------------------------------------
(* Phases: the statements an operation goes through, and the keys it has by then. *)

PhaseOK(w) ==
    \/ w = Idle
    \/ /\ Asking(w) \/ Answering(w)
       /\ w.d \in Donations
       /\ w.i = ItemOf[w.d]
    \/ /\ Editing(w) \/ Sweeping(w)
       /\ w.i \in Items
       /\ w.notice = "none"

Phases == \A s \in Sessions : PhaseOK(session[s])

TypeInv == TypeOK /\ Phases

LEMMA IdlePhase == PhaseOK(Idle) /\ Idle.op = "none" /\ Idle.stage = "idle" /\ Idle.notice = "none"
BY DEF PhaseOK, Idle

\* A step that takes one session to another session record in phase keeps the rest.
LEMMA SessionStep ==
    ASSUME TypeInv, NEW s \in Sessions, NEW w \in Session, PhaseOK(w),
           session' = [session EXCEPT ![s] = w]
    PROVE  session' \in [Sessions -> Session] /\ Phases'
BY DEF TypeInv, TypeOK, Phases

LEMMA CloseTypeInv ==
    ASSUME TypeInv, NEW s \in Sessions, Rollback(s) \/ Commit(s)
    PROVE  TypeInv'
<1>1. Phases'
  BY SessionStep, IdleIsSession, IdlePhase DEF Rollback, Commit, Close
<1>2. session[s].d \in Donations \/ session[s].notice = "none"
  BY IdlePhase DEF TypeInv, Phases, PhaseOK
<1>3. TypeOK'
  BY <1>2, RollbackType, CommitType DEF TypeInv
<1> QED
  BY <1>1, <1>3 DEF TypeInv

\* The first statement of every operation.
LEMMA StartTypeInv == ASSUME TypeInv, NEW s \in Sessions, Start(s) PROVE TypeInv'
<1> USE DEF TypeInv
<1>0. \A d \in Donations : ItemOf[d] \in Items
  BY DomainAssumption
<1>1. ASSUME NEW op, NEW w \in Session, PhaseOK(w), Begin(s, op, w) PROVE TypeInv'
  BY <1>1, SessionStep DEF Begin, TypeOK, database, writes
<1>2. ASSUME BeginSweep(s) PROVE TypeInv'
  <2>1. PICK i \in Due(now) :
          Begin(s, "sweep", [Idle EXCEPT !.op = "sweep", !.stage = "sweep", !.i = i,
                                         !.at = now, !.todo = Due(now) \ {i}])
    BY <1>2 DEF BeginSweep
  <2>2. i \in Items /\ Due(now) \subseteq Items /\ now \in Time
    BY DEF Due, TypeOK
  <2>3. [Idle EXCEPT !.op = "sweep", !.stage = "sweep", !.i = i,
                     !.at = now, !.todo = Due(now) \ {i}] \in Session
    BY <2>2, IdleIsSession DEF Session, Stage
  <2>4. PhaseOK([Idle EXCEPT !.op = "sweep", !.stage = "sweep", !.i = i,
                             !.at = now, !.todo = Due(now) \ {i}])
    BY <2>2 DEF Idle, PhaseOK, Sweeping
  <2> QED
    BY <1>1, <2>1, <2>3, <2>4
<1>3. ASSUME NEW op \in OwnerOps, NEW i \in Items, NEW row \in ItemRow, BeginOwnerOp(s, op, i, row)
      PROVE TypeInv'
  <2>1. [Idle EXCEPT !.op = op, !.stage = "write", !.i = i, !.sawItem = row] \in Session
    BY IdleIsSession DEF Session, Stage
  <2>2. PhaseOK([Idle EXCEPT !.op = op, !.stage = "write", !.i = i, !.sawItem = row])
    BY DEF Idle, PhaseOK, Editing
  <2> QED
    BY <1>1, <1>3, <2>1, <2>2 DEF BeginOwnerOp
<1>4. ASSUME NEW i \in Items, BeginUpdate(s, i) \/ BeginWithdraw(s, i) \/ BeginRemove(s, i)
      PROVE TypeInv'
  <2>0. item[i] \in ItemRow
    BY DEF TypeOK
  <2>1. \A e \in Time : [item[i] EXCEPT !.expires = e] \in ItemRow
    BY <2>0 DEF ItemRow
  <2>2. [item[i] EXCEPT !.status = "CANCELLED"] \in ItemRow
    BY <2>0 DEF ItemRow, ItemStatus
  <2>3. [item[i] EXCEPT !.deleted = TRUE] \in ItemRow
    BY <2>0 DEF ItemRow
  <2>4. CASE BeginUpdate(s, i)
    BY <1>3, <2>1, <2>4 DEF BeginUpdate, EditDates, OwnerOps
  <2>5. CASE BeginWithdraw(s, i)
    BY <1>3, <2>2, <2>5 DEF BeginWithdraw, OwnerOps
  <2>6. CASE BeginRemove(s, i)
    BY <1>3, <2>3, <2>6 DEF BeginRemove, OwnerOps
  <2> QED
    BY <1>4, <2>4, <2>5, <2>6
<1>5. ASSUME NEW d \in Donations, BeginRequest(s, d) PROVE TypeInv'
  <2> DEFINE w == [Idle EXCEPT !.op = "request", !.stage = "duplicates", !.d = d,
                               !.i = ItemOf[d], !.sawItem = item[ItemOf[d]]]
  <2>1. w \in Session
    BY <1>0, IdleIsSession DEF Session, Stage, TypeOK
  <2>2. PhaseOK(w)
    BY DEF Idle, PhaseOK, Asking
  <2> QED
    BY <1>1, <1>5, <2>1, <2>2 DEF BeginRequest
<1>6. ASSUME NEW d \in Donations, NEW op \in HandoverOps, BeginHandover(s, op, d) PROVE TypeInv'
  <2> DEFINE w == [Idle EXCEPT !.op = op, !.stage = "load", !.d = d, !.i = ItemOf[d],
                               !.sawDonation = donation[d]]
  <2>1. w \in Session
    BY <1>0, IdleIsSession DEF Session, Stage, TypeOK
  <2>2. PhaseOK(w)
    BY DEF Idle, PhaseOK, Answering
  <2> QED
    BY <1>1, <1>6, <2>1, <2>2 DEF BeginHandover
<1> QED
  BY <1>2, <1>4, <1>5, <1>6 DEF Start

\* Every later statement.
LEMMA ContinueTypeInv == ASSUME TypeInv, NEW s \in Sessions, Continue(s) PROVE TypeInv'
<1> USE DEF TypeInv
<1>0. \A d \in Donations : ItemOf[d] \in Items
  BY DomainAssumption
<1>s. session[s] \in Session /\ PhaseOK(session[s])
  BY DEF TypeOK, Phases
<1>f. \A w : [session EXCEPT ![s] = w][s] = w
  BY DEF TypeOK
<1>1. ASSUME CheckDuplicates(s) PROVE TypeInv'
  <2>1. CASE Rollback(s)
    BY <2>1, CloseTypeInv
  <2>2. CASE /\ session' = [session EXCEPT ![s].stage = "reserve"]
             /\ UNCHANGED <<now, database, writes>>
    <3> DEFINE w == [session[s] EXCEPT !.stage = "reserve"]
    <3>1. w \in Session
      BY <1>s DEF Session, Stage
    <3>2. PhaseOK(w)
      BY <1>1, <1>s, IdlePhase DEF CheckDuplicates, Session, PhaseOK, Asking, Answering, Editing, Sweeping
    <3> QED
      BY <2>2, <3>1, <3>2, SessionStep DEF TypeOK, database, writes
  <2> QED
    BY <1>1, <2>1, <2>2 DEF CheckDuplicates
<1>2. ASSUME Reserve(s) PROVE TypeInv'
  <2>1. CASE Rollback(s)
    BY <2>1, CloseTypeInv
  <2>2. CASE ~Rollback(s)
    <3> DEFINE w == [session[s] EXCEPT !.stage = "commit", !.at = now, !.notice = "REQUESTED"]
    <3>0. session[s].stage = "reserve" /\ session' = [session EXCEPT ![s] = w]
      BY <1>2, <2>2 DEF Reserve, TypeOK
    <3>1. w \in Session
      BY <1>s DEF Session, Stage, NoticeType, TypeOK
    <3>2. PhaseOK(w) /\ session[s].d \in Donations /\ session[s].i \in Items
      BY <1>0, <1>s, <3>0, IdlePhase DEF Session, PhaseOK, Asking, Answering, Editing, Sweeping
    <3>3. [itemNew[session[s].i] EXCEPT !.status = "RESERVED"] \in ItemRow
      BY ZenonT(40), <3>2 DEF TypeOK, ItemRow, ItemStatus
    <3>4. TypeOK'
      BY <1>2, <2>2, <3>0, <3>1, <3>2, <3>3, SessionStep
         DEF Reserve, WriteItemRow, WriteDonationRow, TypeOK, database, DonationStatus
    <3> QED
      BY <3>0, <3>1, <3>2, <3>4, SessionStep
  <2> QED
    BY <2>1, <2>2
<1>3. ASSUME LoadItem(s) PROVE TypeInv'
  <2> DEFINE w == [session[s] EXCEPT !.stage = "advance", !.sawItem = item[session[s].i]]
  <2>0. session' = [session EXCEPT ![s] = w]
    BY <1>3 DEF LoadItem, TypeOK
  <2>1. PhaseOK(w) /\ session[s].i \in Items
    BY <1>0, <1>3, <1>s, IdlePhase DEF LoadItem, Session, PhaseOK, Asking, Answering, Editing, Sweeping
  <2>2. w \in Session
    BY <1>s, <2>1 DEF Session, Stage, TypeOK
  <2> QED
    BY <1>3, <2>0, <2>1, <2>2, SessionStep DEF LoadItem, TypeOK, database, writes
<1>4. ASSUME AdvanceDonation(s) PROVE TypeInv'
  <2>1. CASE Rollback(s)
    BY <2>1, CloseTypeInv
  <2>2. CASE ~Rollback(s)
    <3> DEFINE op == session[s].op
               w == [session[s] EXCEPT !.stage = AfterAdvance(op), !.notice = NoticeFor(op)]
    <3>0. session[s].stage = "advance" /\ session' = [session EXCEPT ![s] = w]
      BY <1>4, <2>2 DEF AdvanceDonation, TypeOK
    <3>1. PhaseOK(w) /\ session[s].d \in Donations /\ op \in HandoverOps
      BY <1>0, <1>s, <3>0, IdlePhase
         DEF Session, PhaseOK, Asking, Answering, Editing, Sweeping, AfterAdvance
    <3>2. Target(op) \in DonationStatus /\ NoticeFor(op) \in NoticeType /\ AfterAdvance(op) \in Stage
      BY <3>1 DEF HandoverOps, Target, NoticeFor, DonationStatus, NoticeType, AfterAdvance, Stage
    <3>3. w \in Session
      BY <1>s, <3>2 DEF Session
    <3>4. TypeOK'
      BY <1>4, <2>2, <3>0, <3>1, <3>2, <3>3, SessionStep
         DEF AdvanceDonation, WriteDonationRow, TypeOK, database
    <3> QED
      BY <3>0, <3>1, <3>3, <3>4, SessionStep
  <2> QED
    BY <2>1, <2>2
<1>5. ASSUME SettleItem(s) PROVE TypeInv'
  <2>1. CASE Rollback(s)
    BY <2>1, CloseTypeInv
  <2>2. CASE ~Rollback(s)
    <3> DEFINE w == [session[s] EXCEPT !.stage = "commit", !.at = now]
    <3>0. session[s].stage = "settle" /\ session' = [session EXCEPT ![s] = w]
      BY <1>5, <2>2 DEF SettleItem, TypeOK
    <3>1. PhaseOK(w) /\ session[s].i \in Items
      BY <1>0, <1>s, <3>0, IdlePhase DEF Session, PhaseOK, Asking, Answering, Editing, Sweeping
    <3>2. w \in Session
      BY <1>s DEF Session, Stage, TypeOK
    <3>3. SettledStatus(s) \in ItemStatus
      BY DEF SettledStatus, ReleaseTarget, ItemStatus
    <3>4. [itemNew[session[s].i] EXCEPT !.status = SettledStatus(s)] \in ItemRow
      BY <3>1, <3>3 DEF TypeOK, ItemRow
    <3>5. TypeOK'
      BY <1>5, <2>2, <3>0, <3>1, <3>2, <3>4, SessionStep
         DEF SettleItem, WriteItemRow, TypeOK, database
    <3> QED
      BY <3>0, <3>1, <3>2, <3>5, SessionStep
  <2> QED
    BY <2>1, <2>2
<1>6. ASSUME WriteOwnerEdit(s) PROVE TypeInv'
  <2> DEFINE w == [session[s] EXCEPT !.stage = "commit"]
  <2>0. session[s].stage = "write" /\ session' = [session EXCEPT ![s] = w]
    BY <1>6 DEF WriteOwnerEdit, TypeOK
  <2>1. PhaseOK(w) /\ session[s].i \in Items
    BY <1>0, <1>s, <2>0, IdlePhase DEF Session, PhaseOK, Asking, Answering, Editing, Sweeping
  <2>2. w \in Session
    BY <1>s DEF Session, Stage
  <2>3. session[s].sawItem.expires \in Time
    BY <1>s DEF Session, ItemRow
  <2>4. OwnerEdit(s, itemNew[session[s].i]) \in ItemRow
    BY ZenonT(40), <2>1, <2>3 DEF OwnerEdit, TypeOK, ItemRow, ItemStatus
  <2>5. TypeOK'
    BY <1>6, <2>0, <2>1, <2>2, <2>4, SessionStep DEF WriteOwnerEdit, WriteItemRow, TypeOK, database
  <2> QED
    BY <2>0, <2>1, <2>2, <2>5, SessionStep
<1>7. ASSUME SweepRow(s) PROVE TypeInv'
  <2>0. session[s].stage = "sweep"
    BY <1>7 DEF SweepRow
  <2>1. session[s].op = "sweep" /\ session[s].i \in Items /\ session[s].notice = "none"
    BY <1>s, <2>0, IdlePhase DEF Session, PhaseOK, Asking, Answering, Editing, Sweeping
  <2>2. PICK w \in Session : PhaseOK(w) /\ session' = [session EXCEPT ![s] = w]
    <3>1. CASE session[s].todo = {}
      <4> DEFINE w == [session[s] EXCEPT !.stage = "commit"]
      <4>1. w \in Session /\ PhaseOK(w)
        BY <1>s, <2>1 DEF Session, Stage, PhaseOK, Sweeping
      <4> QED
        BY <1>7, <3>1, <4>1 DEF SweepRow, NextRow, TypeOK
    <3>2. CASE session[s].todo # {}
      <4>1. PICK j \in session[s].todo : session' = [session EXCEPT ![s].i = j, ![s].todo = @ \ {j}]
        BY <1>7, <3>2 DEF SweepRow, NextRow
      <4> DEFINE w == [session[s] EXCEPT !.i = j, !.todo = @ \ {j}]
      <4>2. j \in Items
        BY <1>s DEF Session
      <4>3. w \in Session /\ PhaseOK(w)
        BY <1>s, <2>0, <2>1, <4>2 DEF Session, PhaseOK, Sweeping
      <4> QED
        BY <4>1, <4>3 DEF TypeOK
    <3> QED
      BY <3>1, <3>2
  <2>3. [itemNew[session[s].i] EXCEPT !.status = "EXPIRED"] \in ItemRow
    BY ZenonT(40), <2>1 DEF TypeOK, ItemRow, ItemStatus
  <2>4. TypeOK'
    BY <1>7, <2>1, <2>2, <2>3, SessionStep DEF SweepRow, WriteItemRow, TypeOK, database
  <2> QED
    BY <2>2, <2>4, SessionStep
<1> QED
  BY <1>1, <1>2, <1>3, <1>4, <1>5, <1>6, <1>7, CloseTypeInv DEF Continue

LEMMA TypeInvariant == Spec => []TypeInv
<1>1. Init => TypeInv
  BY DomainAssumption, IdleIsSession, IdlePhase
     DEF Init, TypeInv, TypeOK, Phases, Time, ItemRow, ItemStatus, Unlisted, DonationStatus
<1>2. TypeInv /\ [Next]_vars => TypeInv'
  <2> SUFFICES ASSUME TypeInv, [Next]_vars PROVE TypeInv'
    OBVIOUS
  <2>1. CASE Tick
    BY <2>1, DomainAssumption DEF Tick, TypeInv, TypeOK, Phases, Time, database, writes
  <2>2. ASSUME NEW i \in Items, NEW e \in Time, CreateItem(i, e) PROVE TypeInv'
    BY <2>2 DEF CreateItem, TypeInv, TypeOK, Phases, ItemRow, ItemStatus
  <2>3. CASE UNCHANGED vars
    BY <2>3 DEF vars, TypeInv, TypeOK, Phases, database, writes
  <2> QED
    BY <2>1, <2>2, <2>3, StartTypeInv, ContinueTypeInv, CloseTypeInv DEF Next
<1> QED
  BY <1>1, <1>2, PTL DEF Spec

\* Whatever interleaving of statements, commits and rollbacks, every row and
\* every session stays one: a session that writes has the keys it writes to.
THEOREM TypeCorrect == Spec => []TypeOK
BY TypeInvariant, PTL DEF TypeInv

-----------------------------------------------------------------------------
(* Row locks. LockDiscipline is inductive together with TypeInv: NoStranded-  *)
(* Reservation and DeadlockNeedsTwoSweeps both follow from it.                *)

LockInv == TypeInv /\ LockDiscipline

\* A session that has not reached its first write holds nothing.
LEMMA HoldsNothing ==
    ASSUME LockInv, NEW s \in Sessions, session[s].stage \notin {"settle", "commit", "sweep"}
    PROVE  /\ \A i \in Items : itemLock[i] # s
           /\ \A d \in Donations : donationLock[d] # s
BY SessionAssumption DEF LockInv, LockDiscipline, ItemRowHeld, DonationRowHeld, Sweeping

\* Reading moves a session on and touches no row.
LEMMA ReadKeepsLocks ==
    ASSUME LockInv, NEW s \in Sessions, NEW w \in Session,
           session[s].stage \notin {"settle", "commit", "sweep"},
           session' = [session EXCEPT ![s] = w],
           w.stage \notin {"settle", "commit"},
           w.stage = "write" => item[w.i].status # "UNLISTED",
           UNCHANGED <<item, donation, writes>>
    PROVE  LockDiscipline'
<1>0. /\ session'[s] = w
      /\ \A t \in Sessions \ {s} : session'[t] = session[t]
  BY DEF LockInv, TypeInv, TypeOK
<1>1. ASSUME NEW i \in Items PROVE ItemRowHeld(i)'
  BY <1>0, HoldsNothing DEF LockInv, LockDiscipline, ItemRowHeld, writes
<1>2. ASSUME NEW d \in Donations PROVE DonationRowHeld(d)'
  BY <1>0, HoldsNothing DEF LockInv, LockDiscipline, DonationRowHeld, writes
<1>3. ASSUME NEW t \in Sessions PROVE HasItsRows(t)'
  <2>1. CASE t = s
    BY <1>0, <2>1 DEF HasItsRows
  <2>2. CASE t # s
    BY <1>0, <2>2 DEF LockInv, LockDiscipline, HasItsRows, writes
  <2> QED
    BY <2>1, <2>2
<1> QED
  BY <1>1, <1>2, <1>3 DEF LockDiscipline

\* Closing gives back exactly the rows of the session that closes. What is
\* committed for the other rows, and for the keys of other sessions, stays.
LEMMA CloseKeepsLocks ==
    ASSUME LockInv, NEW s \in Sessions, Close(s),
           \A i \in Items : itemLock[i] # s => item'[i] = item[i],
           \A d \in Donations : donationLock[d] # s => donation'[d] = donation[d],
           \A i \in Items : item[i].status # "UNLISTED" => item'[i].status # "UNLISTED"
    PROVE  LockDiscipline'
<1>0. /\ session'[s] = Idle
      /\ \A t \in Sessions \ {s} : session'[t] = session[t]
  BY DEF Close, LockInv, TypeInv, TypeOK
<1>1. ASSUME NEW i \in Items PROVE ItemRowHeld(i)'
  <2>1. CASE itemLock[i] = s
    BY <2>1 DEF Close, ItemRowHeld
  <2>2. CASE itemLock[i] # s
    BY <1>0, <2>2 DEF Close, LockInv, LockDiscipline, ItemRowHeld
  <2> QED
    BY <2>1, <2>2
<1>2. ASSUME NEW d \in Donations PROVE DonationRowHeld(d)'
  <2>1. CASE donationLock[d] = s
    BY <2>1 DEF Close, DonationRowHeld
  <2>2. CASE donationLock[d] # s
    BY <1>0, <2>2 DEF Close, LockInv, LockDiscipline, DonationRowHeld
  <2> QED
    BY <2>1, <2>2
<1>3. ASSUME NEW t \in Sessions PROVE HasItsRows(t)'
  <2>1. CASE t = s
    BY <1>0, <2>1 DEF HasItsRows, Idle, Asking, Answering, HandoverOps
  <2>2. CASE t # s
    <3>1. session'[t] = session[t] /\ PhaseOK(session[t]) /\ HasItsRows(t)
      BY <1>0, <2>2 DEF LockInv, LockDiscipline, TypeInv, Phases
    <3>2. session[t].stage = "write" => session[t].i \in Items
      BY <3>1 DEF PhaseOK, Asking, Answering, Idle
    <3>3. Asking(session[t]) \/ Answering(session[t]) =>
             session[t].d \in Donations /\ session[t].i \in Items
      BY <3>1, DomainAssumption
         DEF PhaseOK, Asking, Answering, Editing, Sweeping, Idle, HandoverOps, OwnerOps
    <3> QED
      BY <2>2, <3>1, <3>2, <3>3 DEF HasItsRows, Close
  <2> QED
    BY <2>1, <2>2
<1> QED
  BY <1>1, <1>2, <1>3 DEF LockDiscipline

LEMMA EndKeepsLocks ==
    ASSUME LockInv, NEW s \in Sessions, Rollback(s) \/ Commit(s)
    PROVE  LockDiscipline'
<1>1. CASE Rollback(s)
  BY <1>1, CloseKeepsLocks DEF Rollback, database
<1>2. CASE Commit(s)
  <2>1. \A i \in Items : item'[i] = IF itemLock[i] = s THEN itemNew[i] ELSE item[i]
    BY <1>2 DEF Commit
  <2>2. \A d \in Donations : donationLock[d] # s => donation'[d] = donation[d]
    BY <1>2 DEF Commit
  <2>3. \A i \in Items : itemLock[i] = s => itemNew[i].status # "UNLISTED"
    BY SessionAssumption DEF LockInv, LockDiscipline, ItemRowHeld
  <2>4. Close(s)
    BY <1>2 DEF Commit
  <2> QED
    BY <2>1, <2>2, <2>3, <2>4, CloseKeepsLocks
<1> QED
  BY <1>1, <1>2

\* The keys of a session that is at a statement of its operation.
LEMMA StageTells ==
    ASSUME TypeInv, NEW s \in Sessions
    PROVE  /\ session[s] \in Session
           /\ session[s].stage \in {"duplicates", "reserve"} => Asking(session[s])
           /\ session[s].stage \in {"load", "advance", "settle"} => Answering(session[s])
           /\ session[s].stage = "write" => Editing(session[s])
           /\ session[s].stage = "sweep" => Sweeping(session[s])
           /\ session[s].stage # "idle" => session[s].i \in Items
           /\ Asking(session[s]) \/ Answering(session[s]) =>
                 session[s].d \in Donations /\ session[s].i = ItemOf[session[s].d]
<1>1. session[s] \in Session /\ PhaseOK(session[s])
  BY DEF TypeInv, TypeOK, Phases
<1>2. \A d \in Donations : ItemOf[d] \in Items
  BY DomainAssumption
<1> QED
  BY <1>1, <1>2 DEF PhaseOK, Asking, Answering, Editing, Sweeping, Idle, HandoverOps, OwnerOps

\* A step of s that changes nothing of other sessions, takes only free locks or
\* its own, and leaves the committed rows: the other sessions' rows are as they were.
LEMMA OthersKeepTheirRows ==
    ASSUME LockInv, NEW s \in Sessions, NEW t \in Sessions \ {s},
           session'[t] = session[t], UNCHANGED item,
           \A i \in Items : itemLock[i] = t => itemLock'[i] = t,
           \A d \in Donations : donationLock[d] = t => donationLock'[d] = t
    PROVE  HasItsRows(t)'
<1>1. HasItsRows(t)
  BY DEF LockInv, LockDiscipline
<1>2. /\ session[t].stage \in {"write", "settle", "commit"} => session[t].i \in Items
      /\ Asking(session[t]) \/ Answering(session[t]) => session[t].d \in Donations
  BY StageTells DEF LockInv
<1> QED
  BY <1>1, <1>2 DEF HasItsRows, Asking, Answering

LEMMA ReserveKeepsLocks ==
    ASSUME LockInv, NEW s \in Sessions, Reserve(s)
    PROVE  LockDiscipline'
<1> DEFINE i == session[s].i
           d == session[s].d
<1>1. CASE Rollback(s)
  BY <1>1, EndKeepsLocks
<1>2. CASE ~Rollback(s)
  <2>1. /\ Asking(session[s])
        /\ d \in Donations /\ i \in Items
    BY StageTells DEF Reserve, LockInv
  <2>2. itemLock[i] = NoSession /\ donationLock[d] = NoSession
    BY <1>2, <2>1, HoldsNothing DEF Reserve, Granted, WriteDonationRow
  <2>3. itemNew[i] = item[i] /\ item[i].status # "UNLISTED"
    BY <1>2, <2>1, <2>2, SessionAssumption
       DEF Reserve, MayReserve, Visible, LockInv, LockDiscipline, ItemRowHeld
  <2>4. /\ session'[s] = [session[s] EXCEPT !.stage = "commit", !.at = now, !.notice = "REQUESTED"]
        /\ \A t \in Sessions \ {s} : session'[t] = session[t]
        /\ itemLock' = [itemLock EXCEPT ![i] = s]
        /\ itemNew' = [itemNew EXCEPT ![i] = [itemNew[i] EXCEPT !.status = "RESERVED"]]
        /\ donationLock' = [donationLock EXCEPT ![d] = s]
        /\ donationNew' = [donationNew EXCEPT ![d] = "PENDING"]
        /\ UNCHANGED <<item, donation>>
    BY <1>2 DEF Reserve, WriteItemRow, WriteDonationRow, database, LockInv, TypeInv, TypeOK
  <2>5. /\ Asking(session'[s]) /\ session'[s].stage = "commit"
        /\ session'[s].i = i /\ session'[s].d = d /\ ~Answering(session'[s])
    BY <2>1, <2>4, StageTells DEF LockInv, Session, Asking, Answering, HandoverOps
  <2>t. itemLock \in [Items -> Sessions \cup {NoSession}] /\ itemNew \in [Items -> ItemRow]
        /\ donationLock \in [Donations -> Sessions \cup {NoSession}]
        /\ donationNew \in [Donations -> DonationStatus]
    BY DEF LockInv, TypeInv, TypeOK
  <2>6. ASSUME NEW j \in Items PROVE ItemRowHeld(j)'
    <3>1. CASE j = i
      <4>1. itemLock'[j] = s /\ itemNew'[j].status = "RESERVED" /\ item'[j].status # "UNLISTED"
        BY <2>t, <2>1, <2>3, <2>4, <3>1 DEF ItemRow
      <4> QED
        BY <2>5, <3>1, <4>1 DEF ItemRowHeld
    <3>2. CASE j # i
      <4>1. itemLock[j] # s
        BY HoldsNothing DEF Reserve
      <4> QED
        BY <2>t, <2>4, <3>2, <4>1 DEF ItemRowHeld, LockInv, LockDiscipline
    <3> QED
      BY <3>1, <3>2
  <2>7. ASSUME NEW e \in Donations PROVE DonationRowHeld(e)'
    <3>1. CASE e = d
      BY <2>t, <2>1, <2>4, <2>5, <3>1 DEF DonationRowHeld
    <3>2. CASE e # d
      <4>1. donationLock[e] # s
        BY HoldsNothing DEF Reserve
      <4> QED
        BY <2>t, <2>4, <3>2, <4>1 DEF DonationRowHeld, LockInv, LockDiscipline
    <3> QED
      BY <3>1, <3>2
  <2>8. HasItsRows(s)'
    BY <2>t, <2>1, <2>4, <2>5 DEF HasItsRows
  <2>9. ASSUME NEW t \in Sessions \ {s} PROVE HasItsRows(t)'
    BY <2>t, <2>2, <2>4, OthersKeepTheirRows, SessionAssumption
  <2> QED
    BY <2>6, <2>7, <2>8, <2>9 DEF LockDiscipline
<1> QED
  BY <1>1, <1>2

LEMMA AdvanceKeepsLocks ==
    ASSUME LockInv, NEW s \in Sessions, AdvanceDonation(s)
    PROVE  LockDiscipline'
<1> DEFINE d == session[s].d
           op == session[s].op
<1>1. CASE Rollback(s)
  BY <1>1, EndKeepsLocks
<1>2. CASE ~Rollback(s)
  <2>1. Answering(session[s]) /\ d \in Donations
    BY StageTells DEF AdvanceDonation, LockInv
  <2>2. donationLock[d] = NoSession
    BY <1>2, <2>1, HoldsNothing DEF AdvanceDonation, Granted, WriteDonationRow
  <2>3. /\ session'[s] = [session[s] EXCEPT !.stage = AfterAdvance(op), !.notice = NoticeFor(op)]
        /\ \A t \in Sessions \ {s} : session'[t] = session[t]
        /\ donationLock' = [donationLock EXCEPT ![d] = s]
        /\ donationNew' = [donationNew EXCEPT ![d] = Target(op)]
        /\ UNCHANGED <<item, donation, itemLock, itemNew>>
    BY <1>2 DEF AdvanceDonation, WriteDonationRow, database, LockInv, TypeInv, TypeOK
  <2>4. /\ Answering(session'[s]) /\ ~Asking(session'[s])
        /\ session'[s].stage = AfterAdvance(op) /\ session'[s].stage \in {"settle", "commit"}
        /\ session'[s].stage = "commit" => op = "accept"
        /\ session'[s].d = d /\ session'[s].op = op
    <3>1. /\ AfterAdvance(op) \in {"settle", "commit"}
          /\ AfterAdvance(op) = "settle" => op # "accept"
          /\ AfterAdvance(op) = "commit" => op = "accept"
      BY DEF AfterAdvance
    <3>2. /\ session'[s].stage = AfterAdvance(op)
          /\ session'[s].d = d /\ session'[s].op = op
      BY <2>3, StageTells DEF LockInv, Session
    <3> QED
      BY <2>1, <3>1, <3>2 DEF Asking, Answering, HandoverOps
  <2>t. donationLock \in [Donations -> Sessions \cup {NoSession}]
        /\ donationNew \in [Donations -> DonationStatus]
    BY DEF LockInv, TypeInv, TypeOK
  <2>5. ASSUME NEW j \in Items PROVE ItemRowHeld(j)'
    <3>1. itemLock[j] # s
      BY HoldsNothing DEF AdvanceDonation
    <3> QED
      BY <2>3, <3>1 DEF ItemRowHeld, LockInv, LockDiscipline
  <2>6. ASSUME NEW e \in Donations PROVE DonationRowHeld(e)'
    <3>1. CASE e = d
      BY <2>t, <2>1, <2>3, <2>4, <3>1 DEF DonationRowHeld
    <3>2. CASE e # d
      <4>1. donationLock[e] # s
        BY HoldsNothing DEF AdvanceDonation
      <4> QED
        BY <2>t, <2>3, <3>2, <4>1 DEF DonationRowHeld, LockInv, LockDiscipline
    <3> QED
      BY <3>1, <3>2
  <2>7. HasItsRows(s)'
    BY <2>t, <2>1, <2>3, <2>4 DEF HasItsRows
  <2>8. ASSUME NEW t \in Sessions \ {s} PROVE HasItsRows(t)'
    BY <2>t, <2>2, <2>3, OthersKeepTheirRows, SessionAssumption
  <2> QED
    BY <2>5, <2>6, <2>7, <2>8 DEF LockDiscipline
<1> QED
  BY <1>1, <1>2

\* SettleItem, WriteOwnerEdit and SweepRow write one item row that was free or
\* already the session's own, and no donation row.
LEMMA ItemWriteKeepsLocks ==
    ASSUME LockInv, NEW s \in Sessions, NEW w \in Session, NEW i \in Items, NEW row \in ItemRow,
           session' = [session EXCEPT ![s] = w],
           WriteItemRow(s, i, row),
           UNCHANGED <<item, donation, donationLock, donationNew>>,
           \* what the row's new version must be for its holder
           item[i].status # "UNLISTED", row.status # "UNLISTED",
           \/ Sweeping(w) /\ row.status = "EXPIRED"
           \/ /\ w.stage = "commit" /\ w.i = i
              /\ \/ Answering(w) /\ w.op # "accept" /\ row.status # "RESERVED"
                 \/ Editing(w) /\ row.status \in {item[i].status, "CANCELLED"},
           \* what else the session already holds
           \A j \in Items \ {i} : itemLock[j] = s => Sweeping(w) /\ itemNew[j].status = "EXPIRED",
           Answering(w) => /\ Answering(session[s]) /\ session[s].stage = "settle"
                           /\ w.d = session[s].d /\ w.op = session[s].op,
           ~Answering(w) => \A d \in Donations : donationLock[d] # s
    PROVE  LockDiscipline'
<1>0. /\ session'[s] = w
      /\ \A t \in Sessions \ {s} : session'[t] = session[t]
      /\ itemLock' = [itemLock EXCEPT ![i] = s] /\ itemLock[i] \in {NoSession, s}
      /\ itemNew' = [itemNew EXCEPT ![i] = row]
      /\ itemLock \in [Items -> Sessions \cup {NoSession}] /\ itemNew \in [Items -> ItemRow]
  BY DEF LockInv, TypeInv, TypeOK, WriteItemRow, Granted
<1>1. ~Asking(w)
  BY DEF Answering, Editing, Sweeping, Asking, HandoverOps, OwnerOps
<1>2. ASSUME NEW j \in Items PROVE ItemRowHeld(j)'
  <2>1. CASE j = i
    <3>1. itemLock'[j] = s /\ itemNew'[j] = row /\ item'[j] = item[i]
      BY <1>0, <2>1
    <3> QED
      BY <1>0, <2>1, <3>1 DEF ItemRowHeld
  <2>2. CASE j # i
    <3>1. itemLock'[j] = itemLock[j] /\ itemNew'[j] = itemNew[j] /\ item'[j] = item[j]
      BY <1>0, <2>2
    <3>2. ItemRowHeld(j)
      BY DEF LockInv, LockDiscipline
    <3> QED
      BY <1>0, <2>2, <3>1, <3>2 DEF ItemRowHeld
  <2> QED
    BY <2>1, <2>2
<1>3. ASSUME NEW d \in Donations PROVE DonationRowHeld(d)'
  <2>1. DonationRowHeld(d)
    BY DEF LockInv, LockDiscipline
  <2>2. CASE donationLock[d] = s
    <3>1. Answering(w) /\ Answering(session[s])
      BY <2>2
    <3>2. ~Asking(session[s])
      BY <3>1 DEF Answering, Asking, HandoverOps
    <3>3. w.stage \in {"settle", "commit"}
      BY <3>1 DEF Answering, Editing, Sweeping, HandoverOps, OwnerOps
    <3>4. session[s].d = d /\ donationNew[d] = Target(session[s].op)
      BY <2>1, <2>2, <3>2, SessionAssumption DEF DonationRowHeld
    <3> QED
      BY <1>0, <2>2, <3>1, <3>3, <3>4 DEF DonationRowHeld
  <2>3. CASE donationLock[d] # s
    BY <1>0, <2>1, <2>3 DEF DonationRowHeld
  <2> QED
    BY <2>2, <2>3
<1>4. HasItsRows(s)'
  <2>1. Answering(w) => donationLock[w.d] = s
    BY DEF LockInv, LockDiscipline, HasItsRows
  <2>2. w.stage = "write" => FALSE
    BY DEF Sweeping
  <2>3. Answering(w) => w.i = i /\ w.stage = "commit"
    BY DEF Answering, Editing, Sweeping, HandoverOps, OwnerOps
  <2> QED
    BY <1>0, <1>1, <2>1, <2>2, <2>3 DEF HasItsRows
<1>5. ASSUME NEW t \in Sessions \ {s} PROVE HasItsRows(t)'
  <2>1. \A j \in Items : itemLock[j] = t => itemLock'[j] = t
    BY <1>0, SessionAssumption
  <2> QED
    BY <1>0, <2>1, OthersKeepTheirRows
<1> QED
  BY <1>2, <1>3, <1>4, <1>5 DEF LockDiscipline

LEMMA SettleKeepsLocks ==
    ASSUME LockInv, NEW s \in Sessions, SettleItem(s)
    PROVE  LockDiscipline'
<1> DEFINE i == session[s].i
           w == [session[s] EXCEPT !.stage = "commit", !.at = now]
           row == [itemNew[i] EXCEPT !.status = SettledStatus(s)]
<1>1. CASE Rollback(s)
  BY <1>1, EndKeepsLocks
<1>2. CASE ~Rollback(s)
  <2>1. Answering(session[s]) /\ i \in Items /\ session[s] \in Session
        /\ session[s].stage = "settle" /\ session[s].op # "accept"
    BY StageTells DEF SettleItem, LockInv, Answering
  <2>2. /\ w \in Session /\ w.stage = "commit" /\ w.i = i /\ w.d = session[s].d
        /\ w.op = session[s].op /\ Answering(w)
    BY <2>1 DEF Session, Stage, Answering, LockInv, TypeInv, TypeOK
  <2>3. /\ session' = [session EXCEPT ![s] = w]
        /\ WriteItemRow(s, i, row) /\ Visible(itemNew[i])
        /\ UNCHANGED <<item, donation, donationLock, donationNew>>
    BY <1>2 DEF SettleItem, MaySettle, database, LockInv, TypeInv, TypeOK
  <2>4. \A j \in Items : itemLock[j] # s
    BY <2>1, SessionAssumption
       DEF LockInv, LockDiscipline, ItemRowHeld, Answering, Sweeping, HandoverOps
  <2>5. item[i].status # "UNLISTED"
    <3>1. itemLock[i] = NoSession
      BY <2>1, <2>3, <2>4 DEF WriteItemRow, Granted
    <3> QED
      BY <2>1, <2>3, <3>1, SessionAssumption DEF LockInv, LockDiscipline, ItemRowHeld, Visible
  <2>6. SettledStatus(s) \in {"DONATED", "EXPIRED", "AVAILABLE"}
    BY DEF SettledStatus, ReleaseTarget
  <2>7. row \in ItemRow /\ row.status = SettledStatus(s)
    BY ZenonT(40), <2>1, <2>6 DEF ItemRow, ItemStatus, LockInv, TypeInv, TypeOK
  <2>8. row.status # "UNLISTED" /\ row.status # "RESERVED"
    BY <2>6, <2>7
  <2> HIDE DEF w, row
  <2> QED
    BY <2>1, <2>2, <2>3, <2>4, <2>5, <2>7, <2>8, ItemWriteKeepsLocks
<1> QED
  BY <1>1, <1>2

LEMMA OwnerEditKeepsLocks ==
    ASSUME LockInv, NEW s \in Sessions, WriteOwnerEdit(s)
    PROVE  LockDiscipline'
<1> DEFINE i == session[s].i
           w == [session[s] EXCEPT !.stage = "commit"]
           row == OwnerEdit(s, itemNew[i])
<1>1. /\ session[s].stage = "write" /\ Editing(session[s]) /\ i \in Items /\ session[s] \in Session
  BY StageTells DEF WriteOwnerEdit, LockInv
<1>2. w \in Session /\ w.stage = "commit" /\ w.i = i /\ Editing(w)
  BY <1>1 DEF Session, Stage, Editing
<1>3. ~Answering(w)
  BY <1>2 DEF Answering, Editing, HandoverOps, OwnerOps
<1>4. /\ session' = [session EXCEPT ![s] = w] /\ WriteItemRow(s, i, row)
      /\ UNCHANGED <<item, donation, donationLock, donationNew>>
  BY DEF WriteOwnerEdit, database, LockInv, TypeInv, TypeOK
<1>5. item[i].status # "UNLISTED"
  BY <1>1 DEF LockInv, LockDiscipline, HasItsRows
<1>6. itemNew[i] = item[i]
  <2>1. itemLock[i] = NoSession
    BY <1>1, <1>4, HoldsNothing DEF WriteItemRow, Granted
  <2> QED
    BY <1>1, <2>1, SessionAssumption DEF LockInv, LockDiscipline, ItemRowHeld
<1>7. row \in ItemRow /\ row.status \in {item[i].status, "CANCELLED"}
  <2>1. item[i] \in ItemRow /\ session[s].sawItem.expires \in Time
    BY <1>1 DEF LockInv, TypeInv, TypeOK, Session, ItemRow
  <2> QED
    BY <1>6, <2>1 DEF OwnerEdit, ItemRow, ItemStatus
<1>8. /\ \A j \in Items : itemLock[j] # s
      /\ \A d \in Donations : donationLock[d] # s
  BY <1>1, HoldsNothing
<1> HIDE DEF w, row
<1> QED
  BY <1>1, <1>2, <1>3, <1>4, <1>5, <1>7, <1>8, ItemWriteKeepsLocks

LEMMA SweepKeepsLocks ==
    ASSUME LockInv, NEW s \in Sessions, SweepRow(s)
    PROVE  LockDiscipline'
<1> DEFINE i == session[s].i
           row == [itemNew[i] EXCEPT !.status = "EXPIRED"]
<1>1. session[s].stage = "sweep" /\ Sweeping(session[s]) /\ i \in Items /\ session[s] \in Session
  BY StageTells DEF SweepRow, LockInv
<1>2. PICK w \in Session : Sweeping(w) /\ session' = [session EXCEPT ![s] = w]
  <2>1. CASE session[s].todo = {}
    <3> DEFINE v == [session[s] EXCEPT !.stage = "commit"]
    <3>1. v \in Session /\ Sweeping(v)
      BY <1>1 DEF Session, Stage, Sweeping
    <3> QED
      BY <2>1, <3>1 DEF SweepRow, NextRow, LockInv, TypeInv, TypeOK
  <2>2. CASE session[s].todo # {}
    <3>1. PICK j \in session[s].todo : session' = [session EXCEPT ![s].i = j, ![s].todo = @ \ {j}]
      BY <2>2 DEF SweepRow, NextRow
    <3> DEFINE v == [session[s] EXCEPT !.i = j, !.todo = @ \ {j}]
    <3>2. v \in Session /\ Sweeping(v)
      BY <1>1 DEF Session, Sweeping
    <3> QED
      BY <3>1, <3>2 DEF LockInv, TypeInv, TypeOK
  <2> QED
    BY <2>1, <2>2
<1>3. ~Answering(w) /\ ~Answering(session[s]) /\ ~Asking(w) /\ ~Asking(session[s])
      /\ ~Editing(session[s])
  BY <1>1, <1>2 DEF Answering, Sweeping, Asking, Editing, HandoverOps, OwnerOps
<1>4. \A d \in Donations : donationLock[d] # s
  BY <1>3, SessionAssumption DEF LockInv, LockDiscipline, DonationRowHeld
<1>5. \A j \in Items : itemLock[j] = s => itemNew[j].status = "EXPIRED"
  BY <1>3, SessionAssumption DEF LockInv, LockDiscipline, ItemRowHeld
<1>6. CASE DueForSweep(itemNew[i], session[s].at) /\ WriteItemRow(s, i, row)
  <2>1. item[i].status # "UNLISTED"
    <3>1. ItemRowHeld(i)
      BY <1>1 DEF LockInv, LockDiscipline
    <3> QED
      BY <1>6, <3>1 DEF ItemRowHeld, DueForSweep, Visible
  <2>2. row \in ItemRow /\ row.status = "EXPIRED"
    BY <1>1 DEF LockInv, TypeInv, TypeOK, ItemRow, ItemStatus
  <2>3. UNCHANGED <<item, donation, donationLock, donationNew>>
    BY DEF SweepRow, database
  <2> HIDE DEF row
  <2> QED
    BY <1>1, <1>2, <1>3, <1>4, <1>5, <1>6, <2>1, <2>2, <2>3, ItemWriteKeepsLocks
<1>7. CASE UNCHANGED <<itemLock, itemNew>>
  <2>0. /\ session'[s] = w
        /\ \A t \in Sessions \ {s} : session'[t] = session[t]
        /\ UNCHANGED <<item, donation, writes>>
    BY <1>2, <1>7 DEF SweepRow, database, writes, LockInv, TypeInv, TypeOK
  <2>1. ASSUME NEW j \in Items PROVE ItemRowHeld(j)'
    <3>1. CASE itemLock[j] = s
      BY <1>2, <1>5, <2>0, <3>1 DEF ItemRowHeld, LockInv, LockDiscipline, writes
    <3>2. CASE itemLock[j] # s
      BY <2>0, <3>2 DEF ItemRowHeld, LockInv, LockDiscipline, writes
    <3> QED
      BY <3>1, <3>2
  <2>2. ASSUME NEW d \in Donations PROVE DonationRowHeld(d)'
    BY <1>4, <2>0 DEF DonationRowHeld, LockInv, LockDiscipline, writes
  <2>3. HasItsRows(s)'
    BY <1>2, <1>3, <2>0 DEF HasItsRows, Sweeping
  <2>4. ASSUME NEW t \in Sessions \ {s} PROVE HasItsRows(t)'
    BY <2>0, OthersKeepTheirRows DEF writes
  <2> QED
    BY <2>1, <2>2, <2>3, <2>4 DEF LockDiscipline
<1> QED
  BY <1>6, <1>7 DEF SweepRow

LEMMA ReadsKeepLocks ==
    ASSUME LockInv, NEW s \in Sessions, CheckDuplicates(s) \/ LoadItem(s)
    PROVE  LockDiscipline'
<1>1. CASE CheckDuplicates(s)
  <2>1. CASE Rollback(s)
    BY <2>1, EndKeepsLocks
  <2>2. CASE ~Rollback(s)
    <3> DEFINE w == [session[s] EXCEPT !.stage = "reserve"]
    <3>1. /\ session[s].stage = "duplicates" /\ w \in Session /\ w.stage = "reserve"
          /\ session' = [session EXCEPT ![s] = w]
          /\ UNCHANGED <<item, donation, writes>>
      BY <1>1, <2>2, StageTells
         DEF CheckDuplicates, Session, Stage, database, LockInv, TypeInv, TypeOK
    <3> HIDE DEF w
    <3> QED
      BY <3>1, ReadKeepsLocks
  <2> QED
    BY <2>1, <2>2
<1>2. CASE LoadItem(s)
  <2> DEFINE w == [session[s] EXCEPT !.stage = "advance", !.sawItem = item[session[s].i]]
  <2>1. /\ session[s].stage = "load" /\ w \in Session /\ w.stage = "advance"
        /\ session' = [session EXCEPT ![s] = w]
        /\ UNCHANGED <<item, donation, writes>>
    BY ZenonT(40), <1>2, StageTells DEF LoadItem, Session, Stage, database, LockInv, TypeInv, TypeOK
  <2> HIDE DEF w
  <2> QED
    BY <2>1, ReadKeepsLocks
<1> QED
  BY <1>1, <1>2

LEMMA StartKeepsLocks ==
    ASSUME LockInv, TypeInv', NEW s \in Sessions, Start(s)
    PROVE  LockDiscipline'
<1>1. /\ session[s] = Idle /\ session' = [session EXCEPT ![s] = session'[s]]
      /\ UNCHANGED <<item, donation, writes>>
      /\ session'[s].stage \notin {"settle", "commit"}
      /\ session'[s].stage = "write" => item[session'[s].i].status # "UNLISTED"
  <2> DEFINE Begun(stage, i) ==
               /\ session[s] = Idle /\ session' = [session EXCEPT ![s] = session'[s]]
               /\ UNCHANGED <<item, donation, writes>>
               /\ session'[s].stage = stage /\ session'[s].i = i
  <2>1. ASSUME NEW op, NEW stage, NEW d, NEW i, NEW saw, NEW row, NEW at, NEW todo,
               Begin(s, op, [Idle EXCEPT !.op = op, !.stage = stage, !.d = d, !.i = i,
                                         !.sawDonation = saw, !.sawItem = row, !.at = at,
                                         !.todo = todo])
        PROVE  Begun(stage, i)
    BY <2>1 DEF Begin, Idle, database, LockInv, TypeInv, TypeOK
  <2>2. ASSUME BeginSweep(s) PROVE \E i \in Items : Begun("sweep", i)
    BY <2>2 DEF BeginSweep, Due, Begin, Idle, database, LockInv, TypeInv, TypeOK
  <2>3. ASSUME NEW i \in Items, BeginUpdate(s, i) \/ BeginWithdraw(s, i) \/ BeginRemove(s, i)
        PROVE  Begun("write", i) /\ item[i].status # "UNLISTED"
    <3>1. PICK op, row : BeginOwnerOp(s, op, i, row)
      BY <2>3 DEF BeginUpdate, BeginWithdraw, BeginRemove
    <3> QED
      BY <3>1 DEF BeginOwnerOp, Visible, Begin, Idle, database, LockInv, TypeInv, TypeOK
  <2>4. ASSUME NEW d \in Donations, BeginRequest(s, d) PROVE Begun("duplicates", ItemOf[d])
    BY <2>4 DEF BeginRequest, Begin, Idle, database, LockInv, TypeInv, TypeOK
  <2>5. ASSUME NEW d \in Donations, NEW op \in HandoverOps, BeginHandover(s, op, d)
        PROVE  Begun("load", ItemOf[d])
    BY <2>5 DEF BeginHandover, Begin, Idle, database, LockInv, TypeInv, TypeOK
  <2> QED
    BY <2>2, <2>3, <2>4, <2>5 DEF Start
<1>2. session'[s] \in Session
  BY DEF TypeInv, TypeOK
<1> DEFINE w == session'[s]
<1> HIDE DEF w
<1>3. /\ w \in Session /\ session' = [session EXCEPT ![s] = w] /\ w.stage \notin {"settle", "commit"}
      /\ w.stage = "write" => item[w.i].status # "UNLISTED"
  BY <1>1, <1>2 DEF w
<1> QED
  BY <1>1, <1>3, IdlePhase, ReadKeepsLocks

LEMMA CreateKeepsLocks ==
    ASSUME LockInv, NEW i \in Items, NEW e \in Time, CreateItem(i, e)
    PROVE  LockDiscipline'
<1>0. ItemRowHeld(i)
  BY DEF LockInv, LockDiscipline
<1>1. itemLock[i] = NoSession
  BY <1>0 DEF CreateItem, ItemRowHeld
<1>2. /\ item'[i] = [status |-> "AVAILABLE", expires |-> e, deleted |-> FALSE]
      /\ itemNew'[i] = item'[i]
      /\ \A j \in Items \ {i} : item'[j] = item[j] /\ itemNew'[j] = itemNew[j]
      /\ UNCHANGED <<donation, session, itemLock, donationLock, donationNew>>
  BY DEF CreateItem, LockInv, TypeInv, TypeOK
<1>3. ASSUME NEW j \in Items PROVE ItemRowHeld(j)'
  BY <1>1, <1>2 DEF LockInv, LockDiscipline, ItemRowHeld
<1>4. ASSUME NEW d \in Donations PROVE DonationRowHeld(d)'
  BY <1>2 DEF LockInv, LockDiscipline, DonationRowHeld
<1>5. ASSUME NEW s \in Sessions PROVE HasItsRows(s)'
  <2>1. session[s].stage = "write" => session[s].i \in Items
    BY StageTells DEF LockInv
  <2> QED
    BY <1>2, <2>1 DEF LockInv, LockDiscipline, HasItsRows
<1> QED
  BY <1>3, <1>4, <1>5 DEF LockDiscipline

LEMMA LockInvariant == Spec => []LockInv
<1>1. Init => LockDiscipline
  BY DEF Init, LockDiscipline, ItemRowHeld, DonationRowHeld, HasItsRows, Idle,
         Asking, Answering, HandoverOps
<1>2. LockInv /\ TypeInv' /\ [Next]_vars => LockInv'
  <2> SUFFICES ASSUME LockInv, TypeInv', [Next]_vars PROVE LockDiscipline'
    BY DEF LockInv
  <2>1. CASE Tick \/ UNCHANGED vars
    BY <2>1 DEF Tick, vars, database, writes, LockInv, LockDiscipline, ItemRowHeld,
                DonationRowHeld, HasItsRows
  <2>2. ASSUME NEW s \in Sessions, Continue(s) PROVE LockDiscipline'
    BY <2>2, ReadsKeepLocks, ReserveKeepsLocks, AdvanceKeepsLocks, SettleKeepsLocks,
       OwnerEditKeepsLocks, SweepKeepsLocks, EndKeepsLocks DEF Continue
  <2> QED
    BY <2>1, <2>2, StartKeepsLocks, CreateKeepsLocks, EndKeepsLocks DEF Next
<1> QED
  BY <1>1, <1>2, TypeInvariant, PTL DEF Spec, LockInv

\* At every statement a session holds the locks the order of statements in the
\* services implies, and the versions it has written are the ones it should.
THEOREM LockDisciplineHolds == Spec => []LockDiscipline
BY LockInvariant, PTL DEF LockInv

\* Whoever holds an item, unless it is a sweep, is about to commit, and whoever holds
\* a donation waits for an item at most: a circle of waiting requests leads to a
\* sweep, and the sweep waits for another one.
THEOREM NoServiceDeadlock == Spec => []DeadlockNeedsTwoSweeps
<1>1. LockInv => DeadlockNeedsTwoSweeps
  <2> SUFFICES ASSUME LockInv, NEW C \in SUBSET Sessions, NEW s \in C,
                      \A t \in C : \E u \in C : WaitsFor(t, u)
               PROVE  \E t, u \in C : t # u /\ session[t].op = "sweep" /\ session[u].op = "sweep"
    BY DEF DeadlockNeedsTwoSweeps
  <2>w. \A t \in C : AwaitsItem(t) \/ AwaitsDonation(t)
    BY DEF WaitsFor
  <2>1. ASSUME NEW t \in C, AwaitsItem(t)
        PROVE  \E u \in C : u # t /\ session[u].op = "sweep"
    <3>1. PICK u \in C : u # t /\ itemLock[session[t].i] = u
      BY <2>1 DEF WaitsFor, AwaitsItem, AwaitsDonation
    <3>2. session[t].i \in Items
      BY <2>1, StageTells DEF LockInv, AwaitsItem
    <3>3. session[u].stage # "commit"
      BY <2>w DEF AwaitsItem, AwaitsDonation
    <3>4. Sweeping(session[u])
      BY <3>1, <3>2, <3>3, SessionAssumption DEF LockInv, LockDiscipline, ItemRowHeld
    <3> QED
      BY <3>1, <3>4 DEF Sweeping
  <2>2. ASSUME NEW t \in C, AwaitsDonation(t) PROVE \E u \in C : AwaitsItem(u)
    <3>1. PICK u \in C : donationLock[session[t].d] = u
      BY <2>2 DEF WaitsFor, AwaitsItem, AwaitsDonation
    <3>2. session[t].d \in Donations
      BY <2>2, StageTells DEF LockInv, AwaitsDonation
    <3>3. session[u].stage \in {"settle", "commit"}
      BY <3>1, <3>2, SessionAssumption DEF LockInv, LockDiscipline, DonationRowHeld
    <3> QED
      BY <2>w, <3>3 DEF AwaitsItem, AwaitsDonation
  <2>3. PICK t \in C : AwaitsItem(t)
    BY <2>w, <2>2
  <2>4. PICK u \in C : session[u].op = "sweep"
    BY <2>1, <2>3
  <2>5. AwaitsItem(u)
    <3>1. ~Answering(session[u])
      BY <2>4 DEF Answering, HandoverOps
    <3> QED
      BY <2>w, <2>4, <3>1, StageTells DEF LockInv, AwaitsDonation
  <2> QED
    BY <2>1, <2>4, <2>5
<1> QED
  BY <1>1, LockInvariant, PTL

-----------------------------------------------------------------------------
(* No reservation without a request *)

ReservedInv == LockInv /\ NoStrandedReservation

\* A commit that leaves an item RESERVED leaves an open donation of it: either the
\* session made the request itself, or it wrote neither the item's status nor the
\* status of a donation of it, since it would then hold the item at another status.
LEMMA CommitKeepsClaim ==
    ASSUME ReservedInv, NEW s \in Sessions, Commit(s), NEW i \in Items, item'[i].status = "RESERVED"
    PROVE  \E d \in Donations : ItemOf[d] = i /\ Open(d)'
<1> DEFINE w == session[s]
<1>t. donation \in [Donations -> DonationStatus] /\ item \in [Items -> ItemRow] /\ TypeInv
  BY DEF ReservedInv, LockInv, TypeInv, TypeOK
<1>c. /\ w.stage = "commit"
      /\ item'[i] = IF itemLock[i] = s THEN itemNew[i] ELSE item[i]
      /\ \A d \in Donations :
            donation'[d] = IF donationLock[d] = s THEN donationNew[d] ELSE donation[d]
  BY DEF Commit
<1>h. HasItsRows(s) /\ ItemRowHeld(i) /\ \A d \in Donations : DonationRowHeld(d)
  BY DEF ReservedInv, LockInv, LockDiscipline
<1>1. CASE Asking(w) /\ w.i = i
  <2>1. w.d \in Donations /\ ItemOf[w.d] = i
    BY <1>1, <1>t, StageTells
  <2>2. donationLock[w.d] = s /\ ~Answering(w)
    BY <1>1, <1>c, <1>h DEF HasItsRows, Asking, Answering, HandoverOps
  <2>3. donation'[w.d] = "PENDING"
    BY <1>c, <1>h, <2>1, <2>2, SessionAssumption DEF DonationRowHeld
  <2> QED
    BY <2>1, <2>3 DEF Open, OpenStatuses
<1>2. CASE ~(Asking(w) /\ w.i = i)
  <2>1. item[i].status = "RESERVED"
    <3>1. CASE itemLock[i] = s
      BY <1>2, <1>c, <1>h, <3>1, SessionAssumption DEF ItemRowHeld
    <3>2. CASE itemLock[i] # s
      BY <1>c, <3>2
    <3> QED
      BY <3>1, <3>2
  <2>2. PICK d \in Donations : ItemOf[d] = i /\ Open(d)
    BY <2>1 DEF ReservedInv, NoStrandedReservation
  <2>3. CASE donationLock[d] # s
    BY <1>c, <2>2, <2>3 DEF Open
  <2>4. CASE donationLock[d] = s
    <3>1. w.d = d /\ (Asking(w) \/ Answering(w)) /\ w.i = i
      BY <1>h, <1>t, <2>2, <2>4, StageTells, SessionAssumption DEF DonationRowHeld
    <3>2. Answering(w) /\ donationNew[d] = Target(w.op) /\ ~Asking(w)
      BY <1>2, <1>h, <2>4, <3>1, SessionAssumption DEF DonationRowHeld
    <3>3. CASE w.op = "accept"
      BY <1>c, <2>2, <2>4, <3>2, <3>3 DEF Target, Open, OpenStatuses
    <3>4. CASE w.op # "accept"
      <4>1. itemLock[i] = s
        BY <1>c, <1>h, <3>1, <3>2, <3>4 DEF HasItsRows
      <4>2. itemNew[i].status # "RESERVED"
        BY <1>h, <3>2, <4>1, SessionAssumption
           DEF ItemRowHeld, Answering, Editing, Sweeping, HandoverOps, OwnerOps
      <4> QED
        BY <1>c, <4>1, <4>2
    <3> QED
      BY <3>3, <3>4
  <2> QED
    BY <2>3, <2>4
<1> QED
  BY <1>1, <1>2

\* However requests interleave, commit and roll back, food is never left reserved
\* for nobody: a RESERVED item has a donation that can still be declined,
\* cancelled or completed.
THEOREM NoReservationIsStranded == Spec => []NoStrandedReservation
<1>1. Init => NoStrandedReservation
  BY DEF Init, NoStrandedReservation, Unlisted
<1>2. ReservedInv /\ LockInv' /\ [Next]_vars => ReservedInv'
  <2> SUFFICES ASSUME ReservedInv, [Next]_vars PROVE NoStrandedReservation'
    BY DEF ReservedInv
  <2>1. CASE UNCHANGED <<item, donation>>
    BY <2>1 DEF ReservedInv, NoStrandedReservation, Open
  <2>2. ASSUME NEW i \in Items, NEW e \in Time, CreateItem(i, e) PROVE NoStrandedReservation'
    <3>1. /\ item'[i].status = "AVAILABLE"
          /\ \A j \in Items \ {i} : item'[j] = item[j]
          /\ donation' = donation
      BY <2>2 DEF CreateItem, ReservedInv, LockInv, TypeInv, TypeOK
    <3> QED
      BY <3>1 DEF ReservedInv, NoStrandedReservation, Open
  <2>3. ASSUME NEW s \in Sessions, Commit(s) PROVE NoStrandedReservation'
    BY <2>3, CommitKeepsClaim DEF NoStrandedReservation
  <2>4. ASSUME NEW s \in Sessions, Start(s) \/ Rollback(s) PROVE UNCHANGED <<item, donation>>
    BY <2>4 DEF Start, BeginSweep, BeginUpdate, BeginWithdraw, BeginRemove, BeginOwnerOp,
                BeginRequest, BeginHandover, Begin, Rollback, database
  <2>5. ASSUME NEW s \in Sessions, Continue(s), ~Commit(s) PROVE UNCHANGED <<item, donation>>
    BY <2>5 DEF Continue, CheckDuplicates, Reserve, LoadItem, AdvanceDonation, SettleItem,
                WriteOwnerEdit, SweepRow, Rollback, database
  <2> QED
    BY <2>1, <2>2, <2>3, <2>4, <2>5 DEF Next, Tick, vars, database
<1> QED
  BY <1>1, <1>2, LockInvariant, PTL DEF Spec, ReservedInv

-----------------------------------------------------------------------------
(* What a row's latest version may differ by: the edits of the owner, and the *)
(* handover                                                                   *)

\* The session that has written op to the row and is about to commit it.
Writer(i, op) ==
    /\ itemLock[i] \in Sessions
    /\ LET w == session[itemLock[i]] IN w.op = op /\ w.i = i /\ w.stage = "commit"

\* A row's latest version differs from the committed one only as its writer may
\* change it: soft_delete is never undone, only an update moves the date, only
\* complete() hands the food over.
VersionAccounted(i) ==
    /\ item[i].deleted => itemNew[i].deleted
    /\ itemNew[i].expires # item[i].expires => Writer(i, "update")
    /\ itemNew[i].status = "DONATED" => item[i].status = "DONATED" \/ Writer(i, "complete")

VersionInv == LockInv /\ \A i \in Items : VersionAccounted(i)

\* A statement that writes one row it had not written yet.
LEMMA WriteIsAccounted ==
    ASSUME VersionInv, NEW s \in Sessions, NEW i \in Items, NEW row \in ItemRow,
           session[s].stage # "commit",
           WriteItemRow(s, i, row), UNCHANGED item,
           \A t \in Sessions \ {s} : session'[t] = session[t],
           item[i].deleted => row.deleted,
           row.expires # itemNew[i].expires =>
              session'[s].op = "update" /\ session'[s].i = i /\ session'[s].stage = "commit",
           row.status = "DONATED" =>
              \/ itemNew[i].status = "DONATED"
              \/ session'[s].op = "complete" /\ session'[s].i = i /\ session'[s].stage = "commit"
    PROVE  \A j \in Items : VersionAccounted(j)'
<1>0. /\ itemLock' = [itemLock EXCEPT ![i] = s] /\ itemNew' = [itemNew EXCEPT ![i] = row]
      /\ itemLock[i] \in {NoSession, s}
      /\ itemLock \in [Items -> Sessions \cup {NoSession}] /\ itemNew \in [Items -> ItemRow]
  BY DEF WriteItemRow, Granted, VersionInv, LockInv, TypeInv, TypeOK
<1>1. ASSUME NEW j \in Items PROVE VersionAccounted(j)'
  <2>0. VersionAccounted(j)
    BY DEF VersionInv
  <2>w. \A op : ~(Writer(j, op) /\ itemLock[j] = s)
    BY DEF Writer
  <2>1. CASE j = i
    <3>1. itemLock'[j] = s /\ itemNew'[j] = row /\ item'[j] = item[j]
      BY <1>0, <2>1
    <3>2. \A op : ~Writer(j, op)
      BY <1>0, <2>1, <2>w, SessionAssumption DEF Writer
    <3>3. /\ row.expires # item[j].expires => Writer(j, "update")'
          /\ row.status = "DONATED" => item[j].status = "DONATED" \/ Writer(j, "complete")'
      BY <2>0, <2>1, <3>1, <3>2 DEF VersionAccounted, Writer
    <3> QED
      BY <2>1, <3>1, <3>3 DEF VersionAccounted
  <2>2. CASE j # i
    <3>1. itemLock'[j] = itemLock[j] /\ itemNew'[j] = itemNew[j] /\ item'[j] = item[j]
      BY <1>0, <2>2
    <3>2. \A op : Writer(j, op) => Writer(j, op)'
      BY <2>w, <3>1 DEF Writer
    <3> QED
      BY <2>0, <3>1, <3>2 DEF VersionAccounted
  <2> QED
    BY <2>1, <2>2
<1> QED
  BY <1>1

\* A statement that writes no item row leaves every account as it was: a session
\* that is not about to commit accounts for no row.
LEMMA ReadIsAccounted ==
    ASSUME VersionInv, NEW s \in Sessions, session[s].stage # "commit",
           UNCHANGED <<item, itemLock, itemNew>>,
           \A t \in Sessions \ {s} : session'[t] = session[t]
    PROVE  \A j \in Items : VersionAccounted(j)'
<1>1. ASSUME NEW j \in Items PROVE VersionAccounted(j)'
  <2>1. \A op : Writer(j, op) => Writer(j, op)'
    BY DEF Writer
  <2> QED
    BY <2>1 DEF VersionInv, VersionAccounted
<1> QED
  BY <1>1

LEMMA EndIsAccounted ==
    ASSUME VersionInv, NEW s \in Sessions, Rollback(s) \/ Commit(s)
    PROVE  \A j \in Items : VersionAccounted(j)'
<1>0. Close(s) /\ \A j \in Items : itemLock[j] # s => item'[j] = item[j]
  BY DEF Rollback, Commit, database
<1>1. ASSUME NEW j \in Items PROVE VersionAccounted(j)'
  <2>1. CASE itemLock[j] = s
    BY <1>0, <2>1 DEF Close, VersionAccounted
  <2>2. CASE itemLock[j] # s
    <3>1. item'[j] = item[j] /\ itemNew'[j] = itemNew[j] /\ itemLock'[j] = itemLock[j]
      BY <1>0, <2>2 DEF Close
    <3>2. \A t \in Sessions \ {s} : session'[t] = session[t]
      BY <1>0 DEF Close
    <3>3. \A op : Writer(j, op) => Writer(j, op)'
      BY <2>2, <3>1, <3>2 DEF Writer
    <3> QED
      BY <3>1, <3>3 DEF VersionInv, VersionAccounted
  <2> QED
    BY <2>1, <2>2
<1> QED
  BY <1>1

LEMMA ContinueIsAccounted ==
    ASSUME VersionInv, NEW s \in Sessions, Continue(s), ~Commit(s), ~Rollback(s)
    PROVE  \A j \in Items : VersionAccounted(j)'
<1> DEFINE i == session[s].i
<1>t. /\ session \in [Sessions -> Session] /\ TypeInv /\ LockInv
      /\ itemNew \in [Items -> ItemRow] /\ item \in [Items -> ItemRow] /\ now \in Time
  BY DEF VersionInv, LockInv, TypeInv, TypeOK
<1>v. \A j \in Items : VersionAccounted(j)
  BY DEF VersionInv
<1>1. CASE CheckDuplicates(s) \/ LoadItem(s) \/ AdvanceDonation(s)
  <2>1. /\ session[s].stage # "commit" /\ UNCHANGED <<item, itemLock, itemNew>>
        /\ \A t \in Sessions \ {s} : session'[t] = session[t]
    BY <1>1, <1>t DEF CheckDuplicates, LoadItem, AdvanceDonation, database, writes
  <2> QED
    BY <2>1, ReadIsAccounted
<1>2. CASE Reserve(s)
  <2> DEFINE row == [itemNew[i] EXCEPT !.status = "RESERVED"]
  <2>1. session[s].stage = "reserve" /\ i \in Items
    BY <1>2, <1>t, StageTells DEF Reserve
  <2>2. /\ WriteItemRow(s, i, row) /\ UNCHANGED item
        /\ \A t \in Sessions \ {s} : session'[t] = session[t]
    BY <1>2, <1>t DEF Reserve, database
  <2>3. row \in ItemRow /\ row.status = "RESERVED" /\ row.expires = itemNew[i].expires
        /\ row.deleted = itemNew[i].deleted
    BY <1>t, <2>1 DEF ItemRow, ItemStatus
  <2>4. item[i].deleted => row.deleted
    BY <1>v, <2>1, <2>3 DEF VersionAccounted
  <2> HIDE DEF row
  <2> QED
    BY <2>1, <2>2, <2>3, <2>4, WriteIsAccounted
<1>3. CASE SettleItem(s)
  <2> DEFINE row == [itemNew[i] EXCEPT !.status = SettledStatus(s)]
  <2>1. session[s].stage = "settle" /\ i \in Items
    BY <1>3, <1>t, StageTells DEF SettleItem
  <2>2. /\ WriteItemRow(s, i, row) /\ UNCHANGED item
        /\ session' = [session EXCEPT ![s].stage = "commit", ![s].at = now]
    BY <1>3 DEF SettleItem, database
  <2>3. /\ session'[s].op = session[s].op /\ session'[s].i = i /\ session'[s].stage = "commit"
        /\ \A t \in Sessions \ {s} : session'[t] = session[t]
    BY <1>t, <2>2 DEF Session
  <2>4. /\ SettledStatus(s) \in ItemStatus
        /\ SettledStatus(s) = "DONATED" => session[s].op = "complete"
    BY DEF SettledStatus, ReleaseTarget, ItemStatus
  <2>5. row \in ItemRow /\ row.status = SettledStatus(s) /\ row.expires = itemNew[i].expires
        /\ row.deleted = itemNew[i].deleted
    BY <1>t, <2>1, <2>4 DEF ItemRow
  <2>6. item[i].deleted => row.deleted
    BY <1>v, <2>1, <2>5 DEF VersionAccounted
  <2> HIDE DEF row
  <2> QED
    BY <2>1, <2>2, <2>3, <2>4, <2>5, <2>6, WriteIsAccounted
<1>4. CASE WriteOwnerEdit(s)
  <2> DEFINE row == OwnerEdit(s, itemNew[i])
  <2>1. session[s].stage = "write" /\ i \in Items /\ session[s] \in Session
    BY <1>4, <1>t, StageTells DEF WriteOwnerEdit
  <2>2. /\ WriteItemRow(s, i, row) /\ UNCHANGED item
        /\ session' = [session EXCEPT ![s].stage = "commit"]
    BY <1>4 DEF WriteOwnerEdit, database
  <2>3. /\ session'[s].op = session[s].op /\ session'[s].i = i /\ session'[s].stage = "commit"
        /\ \A t \in Sessions \ {s} : session'[t] = session[t]
    BY <1>t, <2>2 DEF Session
  <2>4. session[s].sawItem.expires \in Time /\ itemNew[i] \in ItemRow
    BY <1>t, <2>1 DEF Session, ItemRow
  <2>5. /\ row \in ItemRow
        /\ row.status \in {itemNew[i].status, "CANCELLED"}
        /\ row.expires # itemNew[i].expires => session[s].op = "update"
        /\ itemNew[i].deleted => row.deleted
    BY <2>4 DEF OwnerEdit, ItemRow, ItemStatus
  <2>6. item[i].deleted => row.deleted
    BY <1>v, <2>1, <2>5 DEF VersionAccounted
  <2> HIDE DEF row
  <2> QED
    BY <2>1, <2>2, <2>3, <2>5, <2>6, WriteIsAccounted
<1>5. CASE SweepRow(s)
  <2> DEFINE row == [itemNew[i] EXCEPT !.status = "EXPIRED"]
  <2>1. session[s].stage = "sweep" /\ i \in Items
    BY <1>5, <1>t, StageTells DEF SweepRow
  <2>2. UNCHANGED item /\ \A t \in Sessions \ {s} : session'[t] = session[t]
    BY <1>5, <1>t DEF SweepRow, NextRow, database
  <2>3. CASE UNCHANGED <<itemLock, itemNew>>
    BY <2>1, <2>2, <2>3, ReadIsAccounted
  <2>4. CASE WriteItemRow(s, i, row)
    <3>1. row \in ItemRow /\ row.status = "EXPIRED" /\ row.expires = itemNew[i].expires
          /\ row.deleted = itemNew[i].deleted
      BY <1>t, <2>1 DEF ItemRow, ItemStatus
    <3>2. item[i].deleted => row.deleted
      BY <1>v, <2>1, <3>1 DEF VersionAccounted
    <3> HIDE DEF row
    <3> QED
      BY <2>1, <2>2, <2>4, <3>1, <3>2, WriteIsAccounted
  <2> QED
    BY <1>5, <2>3, <2>4 DEF SweepRow
<1> QED
  BY <1>1, <1>2, <1>3, <1>4, <1>5 DEF Continue

LEMMA VersionInvariant == Spec => []VersionInv
<1>1. Init => \A i \in Items : VersionAccounted(i)
  BY DEF Init, VersionAccounted
<1>2. VersionInv /\ LockInv' /\ [Next]_vars => VersionInv'
  <2> SUFFICES ASSUME VersionInv, [Next]_vars PROVE \A j \in Items : VersionAccounted(j)'
    BY DEF VersionInv
  <2>1. CASE Tick \/ UNCHANGED vars
    BY <2>1 DEF Tick, vars, database, writes, VersionInv, VersionAccounted, Writer
  <2>2. ASSUME NEW i \in Items, NEW e \in Time, CreateItem(i, e)
        PROVE  \A j \in Items : VersionAccounted(j)'
    <3>1. /\ itemNew'[i] = item'[i]
          /\ \A j \in Items \ {i} : item'[j] = item[j] /\ itemNew'[j] = itemNew[j]
          /\ UNCHANGED <<session, itemLock>>
      BY <2>2 DEF CreateItem, VersionInv, LockInv, TypeInv, TypeOK
    <3> QED
      BY <3>1 DEF VersionInv, VersionAccounted, Writer
  <2>3. ASSUME NEW s \in Sessions, Start(s) PROVE \A j \in Items : VersionAccounted(j)'
    <3>1. \E op, first : Begin(s, op, first)
      BY <2>3 DEF Start, BeginSweep, BeginUpdate, BeginWithdraw, BeginRemove, BeginOwnerOp,
                  BeginRequest, BeginHandover
    <3>2. /\ session[s] = Idle /\ UNCHANGED <<item, itemLock, itemNew>>
          /\ \A t \in Sessions \ {s} : session'[t] = session[t]
      BY <3>1 DEF Begin, database, writes, VersionInv, LockInv, TypeInv, TypeOK
    <3> QED
      BY <3>2, IdlePhase, ReadIsAccounted
  <2> QED
    BY <2>1, <2>2, <2>3, ContinueIsAccounted, EndIsAccounted DEF Next
<1> QED
  BY <1>1, <1>2, LockInvariant, PTL DEF Spec, VersionInv

\* Only Commit and CreateItem change what other sessions read.
LEMMA OnlyCommitsPublish ==
    ASSUME NEW s \in Sessions, Start(s) \/ Continue(s) \/ Rollback(s), ~Commit(s)
    PROVE  UNCHANGED database
BY DEF Start, BeginSweep, BeginUpdate, BeginWithdraw, BeginRemove, BeginOwnerOp, BeginRequest,
       BeginHandover, Begin, Rollback, Continue, CheckDuplicates, Reserve, LoadItem,
       AdvanceDonation, SettleItem, WriteOwnerEdit, SweepRow, database

\* A late write of a stale entity never undoes a removal and never moves a date
\* back: whatever overlaps, a listing's date changes only when an update commits.
THEOREM OwnerEditsAreKept == Spec => OwnerEditsSurvive
<1> DEFINE Kept(i) ==
             item[i].status # "UNLISTED" =>
                /\ item[i].deleted => item'[i].deleted
                /\ item'[i].expires # item[i].expires =>
                     \E s \in Sessions : /\ session[s].op = "update" /\ session[s].i = i
                                        /\ session[s].stage = "commit" /\ session'[s] = Idle
<1>1. VersionInv /\ [Next]_vars => [\A i \in Items : Kept(i)]_vars
  <2> SUFFICES ASSUME VersionInv, Next, NEW i \in Items, item[i].status # "UNLISTED" PROVE Kept(i)
    OBVIOUS
  <2>1. CASE item'[i] = item[i]
    BY <2>1
  <2>2. ASSUME NEW s \in Sessions, Commit(s), itemLock[i] = s PROVE Kept(i)
    <3>1. item'[i] = itemNew[i] /\ session'[s] = Idle
      BY <2>2 DEF Commit, Close, VersionInv, LockInv, TypeInv, TypeOK
    <3>2. VersionAccounted(i)
      BY DEF VersionInv
    <3> QED
      BY <2>2, <3>1, <3>2 DEF VersionAccounted, Writer
  <2>3. ASSUME NEW s \in Sessions, Commit(s), itemLock[i] # s PROVE item'[i] = item[i]
    BY <2>3 DEF Commit
  <2>4. ASSUME NEW j \in Items, NEW e \in Time, CreateItem(j, e) PROVE item'[i] = item[i]
    BY <2>4 DEF CreateItem, VersionInv, LockInv, TypeInv, TypeOK
  <2>5. CASE Tick
    BY <2>5 DEF Tick, database
  <2> QED
    BY <2>1, <2>2, <2>3, <2>4, <2>5, OnlyCommitsPublish DEF Next, database
<1> QED
  BY <1>1, VersionInvariant, PTL DEF Spec, OwnerEditsSurvive

-----------------------------------------------------------------------------
(* Statuses and notices                                                       *)

\* What a donation that was read at a status had announced by then.
Announced(status) ==
    CASE status = "PENDING"  -> {"REQUESTED"}
      [] status = "ACCEPTED" -> {"REQUESTED", "ACCEPTED"}
      [] OTHER               -> {}

\* Until it commits, a request is alone with the row it inserts.
AskAccounted(s, w) ==
    /\ donation[w.d] = "NONE"
    /\ \A t \in Sessions \ {s} : session[t].d # w.d
    /\ w.stage = "commit" => w.notice = "REQUESTED"

\* An answer has read a status whose notices are there to stay, and once it has
\* written the donation, what it writes and announces follows from that status.
AnswerAccounted(w) ==
    /\ donation[w.d] # "NONE"
    /\ Announced(w.sawDonation) \subseteq Told(w.d)
    /\ w.stage \in {"settle", "commit"} =>
         w.notice = NoticeFor(w.op) /\ DonationCan(w.sawDonation, Target(w.op))

NoticeAccounted(s) ==
    /\ Asking(session[s]) => AskAccounted(s, session[s])
    /\ Answering(session[s]) => AnswerAccounted(session[s])

NoticeInv ==
    /\ LockInv
    /\ EveryStatusWasAnnounced
    /\ \A s \in Sessions : NoticeAccounted(s)

\* A step that publishes nothing, by a session that does not take up the row of
\* somebody else's request.
LEMMA QuietStepIsAnnounced ==
    ASSUME NoticeInv, NEW s \in Sessions, NEW w,
           session' = [session EXCEPT ![s] = w], UNCHANGED database,
           \A t \in Sessions \ {s} : Asking(session[t]) => w.d # session[t].d,
           Asking(w) => AskAccounted(s, w),
           Answering(w) => AnswerAccounted(w)
    PROVE  EveryStatusWasAnnounced' /\ \A t \in Sessions : NoticeAccounted(t)'
<1>0. /\ session'[s] = w /\ \A t \in Sessions \ {s} : session'[t] = session[t]
      /\ UNCHANGED <<donation, notices>>
  BY DEF NoticeInv, LockInv, TypeInv, TypeOK, database
<1>1. EveryStatusWasAnnounced'
  BY <1>0 DEF NoticeInv, EveryStatusWasAnnounced, Told
<1>2. NoticeAccounted(s)'
  BY <1>0 DEF NoticeAccounted, AskAccounted, AnswerAccounted, Told
<1>3. ASSUME NEW t \in Sessions \ {s} PROVE NoticeAccounted(t)'
  <2>1. session'[t] = session[t] /\ NoticeAccounted(t)
    BY <1>0 DEF NoticeInv
  <2>2. CASE Asking(session[t])
    <3>1. AskAccounted(t, session[t]) /\ ~Answering(session[t])
      BY <2>1, <2>2 DEF NoticeAccounted, Asking, Answering, HandoverOps
    <3>2. \A u \in Sessions \ {t} : session'[u].d # session[t].d
      BY <1>0, <2>2, <3>1 DEF AskAccounted
    <3> QED
      BY <1>0, <2>1, <3>1, <3>2 DEF NoticeAccounted, AskAccounted
  <2>3. CASE ~Asking(session[t])
    BY <1>0, <2>1, <2>3 DEF NoticeAccounted, AnswerAccounted, Told
  <2> QED
    BY <2>2, <2>3
<1> QED
  BY <1>1, <1>2, <1>3

LEMMA StartIsAnnounced ==
    ASSUME NoticeInv, NEW s \in Sessions, Start(s)
    PROVE  EveryStatusWasAnnounced' /\ \A t \in Sessions : NoticeAccounted(t)'
<1>t. TypeInv
  BY DEF NoticeInv, LockInv
<1>a. \A t \in Sessions : Asking(session[t]) =>
         session[t].d \in Donations /\ donation[session[t].d] = "NONE"
  BY <1>t, StageTells DEF NoticeInv, NoticeAccounted, AskAccounted
<1>1. ASSUME NEW op, NEW w, w.d = NoDonation, ~Asking(w), ~Answering(w), Begin(s, op, w)
      PROVE  EveryStatusWasAnnounced' /\ \A t \in Sessions : NoticeAccounted(t)'
  BY <1>1, <1>a, QuietStepIsAnnounced, SessionAssumption DEF Begin
<1>2. CASE BeginSweep(s)
  <2>1. PICK i \in Due(now) :
          Begin(s, "sweep", [Idle EXCEPT !.op = "sweep", !.stage = "sweep", !.i = i,
                                         !.at = now, !.todo = Due(now) \ {i}])
    BY <1>2 DEF BeginSweep
  <2> QED
    BY <1>1, <2>1 DEF Idle, Asking, Answering, HandoverOps
<1>3. ASSUME NEW op \in OwnerOps, NEW i, NEW row, BeginOwnerOp(s, op, i, row)
      PROVE  EveryStatusWasAnnounced' /\ \A t \in Sessions : NoticeAccounted(t)'
  BY <1>1, <1>3 DEF BeginOwnerOp, Idle, Asking, Answering, HandoverOps, OwnerOps
<1>4. ASSUME NEW i \in Items, BeginUpdate(s, i) \/ BeginWithdraw(s, i) \/ BeginRemove(s, i)
      PROVE  EveryStatusWasAnnounced' /\ \A t \in Sessions : NoticeAccounted(t)'
  BY <1>3, <1>4 DEF BeginUpdate, BeginWithdraw, BeginRemove, OwnerOps
<1>5. ASSUME NEW d \in Donations, BeginRequest(s, d)
      PROVE  EveryStatusWasAnnounced' /\ \A t \in Sessions : NoticeAccounted(t)'
  <2> DEFINE w == [Idle EXCEPT !.op = "request", !.stage = "duplicates", !.d = d,
                               !.i = ItemOf[d], !.sawItem = item[ItemOf[d]]]
  <2>1. w.d = d /\ w.stage = "duplicates" /\ ~Answering(w)
    BY DEF Idle, Answering, HandoverOps
  <2>2. /\ donation[d] = "NONE" /\ \A t \in Sessions : session[t].d # d
        /\ session' = [session EXCEPT ![s] = w] /\ UNCHANGED database
    BY <1>5 DEF BeginRequest, Begin
  <2> HIDE DEF w
  <2>3. AskAccounted(s, w)
    BY <2>1, <2>2 DEF AskAccounted
  <2>4. \A t \in Sessions \ {s} : Asking(session[t]) => w.d # session[t].d
    BY <2>1, <2>2
  <2> QED
    BY <2>1, <2>2, <2>3, <2>4, QuietStepIsAnnounced
<1>6. ASSUME NEW d \in Donations, NEW op \in HandoverOps, BeginHandover(s, op, d)
      PROVE  EveryStatusWasAnnounced' /\ \A t \in Sessions : NoticeAccounted(t)'
  <2> DEFINE w == [Idle EXCEPT !.op = op, !.stage = "load", !.d = d, !.i = ItemOf[d],
                               !.sawDonation = donation[d]]
  <2>1. w.d = d /\ w.stage = "load" /\ w.sawDonation = donation[d] /\ ~Asking(w)
    BY DEF Idle, Asking, HandoverOps
  <2>2. /\ donation[d] # "NONE"
        /\ session' = [session EXCEPT ![s] = w] /\ UNCHANGED database
    BY <1>6 DEF BeginHandover, Begin
  <2> HIDE DEF w
  <2>3. Announced(donation[d]) \subseteq Told(d)
    BY DEF NoticeInv, EveryStatusWasAnnounced, Announced
  <2>4. AnswerAccounted(w)
    BY <2>1, <2>2, <2>3 DEF AnswerAccounted
  <2>5. \A t \in Sessions \ {s} : Asking(session[t]) => w.d # session[t].d
    BY <1>a, <2>1, <2>2
  <2> QED
    BY <2>1, <2>2, <2>4, <2>5, QuietStepIsAnnounced
<1> QED
  BY <1>2, <1>4, <1>5, <1>6 DEF Start

LEMMA ContinueIsAnnounced ==
    ASSUME NoticeInv, NEW s \in Sessions, Continue(s), ~Commit(s), ~Rollback(s)
    PROVE  EveryStatusWasAnnounced' /\ \A t \in Sessions : NoticeAccounted(t)'
<1> DEFINE v == session[s]
<1>t. TypeInv /\ v \in Session /\ session \in [Sessions -> Session] /\ NoticeAccounted(s)
  BY DEF NoticeInv, LockInv, TypeInv, TypeOK
<1>d. \A t \in Sessions \ {s} : Asking(session[t]) => v.d # session[t].d
  BY DEF NoticeInv, NoticeAccounted, AskAccounted
<1>p. UNCHANGED database
  BY OnlyCommitsPublish
<1>1. CASE CheckDuplicates(s)
  <2> DEFINE w == [v EXCEPT !.stage = "reserve"]
  <2>1. session' = [session EXCEPT ![s] = w] /\ v.stage = "duplicates"
    BY <1>1, <1>t DEF CheckDuplicates
  <2>2. Asking(v) /\ ~Answering(w) /\ w.d = v.d /\ w.stage = "reserve"
    BY <1>t, <2>1, StageTells DEF Session, Asking, Answering, HandoverOps
  <2> HIDE DEF w
  <2>3. AskAccounted(s, w)
    BY <1>t, <2>2 DEF NoticeAccounted, AskAccounted
  <2> QED
    BY <1>d, <1>p, <2>1, <2>2, <2>3, QuietStepIsAnnounced
<1>2. CASE Reserve(s)
  <2> DEFINE w == [v EXCEPT !.stage = "commit", !.at = now, !.notice = "REQUESTED"]
  <2>1. session' = [session EXCEPT ![s] = w] /\ v.stage = "reserve"
    BY <1>2, <1>t DEF Reserve
  <2>2. Asking(v) /\ ~Answering(w) /\ w.d = v.d /\ w.notice = "REQUESTED"
    BY <1>t, <2>1, StageTells DEF Session, Asking, Answering, HandoverOps
  <2> HIDE DEF w
  <2>3. AskAccounted(s, w)
    BY <1>t, <2>2 DEF NoticeAccounted, AskAccounted
  <2> QED
    BY <1>d, <1>p, <2>1, <2>2, <2>3, QuietStepIsAnnounced
<1>3. CASE LoadItem(s)
  <2> DEFINE w == [v EXCEPT !.stage = "advance", !.sawItem = item[v.i]]
  <2>1. session' = [session EXCEPT ![s] = w] /\ v.stage = "load"
    BY <1>3, <1>t DEF LoadItem
  <2>2. /\ Answering(v) /\ ~Asking(w) /\ w.d = v.d /\ w.sawDonation = v.sawDonation
        /\ w.stage = "advance"
    BY <1>t, <2>1, StageTells DEF Session, Asking, Answering, HandoverOps
  <2> HIDE DEF w
  <2>3. AnswerAccounted(w)
    BY <1>t, <2>2 DEF NoticeAccounted, AnswerAccounted
  <2>4. \A t \in Sessions \ {s} : Asking(session[t]) => w.d # session[t].d
    BY <1>d, <2>2
  <2> QED
    BY <1>p, <2>1, <2>2, <2>3, <2>4, QuietStepIsAnnounced
<1>4. CASE AdvanceDonation(s)
  <2> DEFINE w == [v EXCEPT !.stage = AfterAdvance(v.op), !.notice = NoticeFor(v.op)]
  <2>1. session' = [session EXCEPT ![s] = w] /\ v.stage = "advance" /\ MayAdvance(s)
    BY <1>4, <1>t DEF AdvanceDonation
  <2>2. /\ Answering(v) /\ ~Asking(w) /\ w.d = v.d /\ w.sawDonation = v.sawDonation
        /\ w.op = v.op /\ w.notice = NoticeFor(v.op)
    BY <1>t, <2>1, StageTells DEF Session, Asking, Answering, HandoverOps
  <2> HIDE DEF w
  <2>3. AnswerAccounted(w)
    BY <1>t, <2>1, <2>2 DEF NoticeAccounted, AnswerAccounted, MayAdvance
  <2> QED
    BY <1>d, <1>p, <2>1, <2>2, <2>3, QuietStepIsAnnounced
<1>5. CASE SettleItem(s)
  <2> DEFINE w == [v EXCEPT !.stage = "commit", !.at = now]
  <2>1. session' = [session EXCEPT ![s] = w] /\ v.stage = "settle"
    BY <1>5, <1>t DEF SettleItem
  <2>2. /\ Answering(v) /\ ~Asking(w) /\ w.d = v.d /\ w.sawDonation = v.sawDonation
        /\ w.op = v.op /\ w.notice = v.notice
    BY <1>t, <2>1, StageTells DEF Session, Asking, Answering, HandoverOps
  <2> HIDE DEF w
  <2>3. AnswerAccounted(w)
    BY <1>t, <2>1, <2>2 DEF NoticeAccounted, AnswerAccounted
  <2> QED
    BY <1>d, <1>p, <2>1, <2>2, <2>3, QuietStepIsAnnounced
<1>6. CASE WriteOwnerEdit(s) \/ SweepRow(s)
  <2>1. v.op \in OwnerOps \cup {"sweep"}
    BY <1>6, <1>t, StageTells DEF WriteOwnerEdit, SweepRow, Editing, Sweeping
  <2>2. PICK w : session' = [session EXCEPT ![s] = w] /\ w.op = v.op /\ w.d = v.d
    <3>1. CASE session' = [session EXCEPT ![s].stage = "commit"]
      <4> DEFINE w == [v EXCEPT !.stage = "commit"]
      <4>1. session' = [session EXCEPT ![s] = w] /\ w.op = v.op /\ w.d = v.d
        BY <1>t, <3>1 DEF Session
      <4> QED
        BY <4>1
    <3>2. ASSUME NEW j, session' = [session EXCEPT ![s].i = j, ![s].todo = @ \ {j}]
          PROVE  \E w : session' = [session EXCEPT ![s] = w] /\ w.op = v.op /\ w.d = v.d
      <4> DEFINE w == [v EXCEPT !.i = j, !.todo = @ \ {j}]
      <4>1. session' = [session EXCEPT ![s] = w] /\ w.op = v.op /\ w.d = v.d
        BY <1>t, <3>2 DEF Session
      <4> QED
        BY <4>1
    <3> QED
      BY <1>6, <3>1, <3>2 DEF WriteOwnerEdit, SweepRow, NextRow
  <2>3. ~Asking(w) /\ ~Answering(w)
    BY <2>1, <2>2 DEF Asking, Answering, HandoverOps, OwnerOps
  <2> QED
    BY <1>d, <1>p, <2>2, <2>3, QuietStepIsAnnounced
<1> QED
  BY <1>1, <1>2, <1>3, <1>4, <1>5, <1>6 DEF Continue

\* What a commit adds to what has been told of a donation: its own notice.
LEMMA CommitTells ==
    ASSUME TypeInv, NEW s \in Sessions, Commit(s), NEW d \in Donations
    PROVE  /\ Told(d) \subseteq Told(d)'
           /\ session[s].d # d \/ session[s].notice = "none" => Told(d)' = Told(d)
           /\ session[s].d = d /\ session[s].notice # "none" =>
                 Told(d)' = Told(d) \cup {session[s].notice}
<1>1. session[s].notice \in NoticeType \cup {"none"}
  BY DEF TypeInv, TypeOK, Session
<1>2. \A e, t, u : NoticeOf(d, t) = NoticeOf(e, u) => d = e /\ t = u
  BY DEF NoticeOf
<1> QED
  BY <1>1, <1>2 DEF Commit, Told

LEMMA CommitIsAnnounced ==
    ASSUME NoticeInv, NEW s \in Sessions, Commit(s)
    PROVE  EveryStatusWasAnnounced' /\ \A t \in Sessions : NoticeAccounted(t)'
<1> DEFINE w == session[s]
<1>t. TypeInv /\ NoticeAccounted(s) /\ HasItsRows(s) /\ donation \in [Donations -> DonationStatus]
      /\ \A d \in Donations : DonationRowHeld(d)
  BY DEF NoticeInv, LockInv, LockDiscipline, TypeInv, TypeOK
<1>c. /\ w.stage = "commit"
      /\ \A d \in Donations :
            donation'[d] = IF donationLock[d] = s THEN donationNew[d] ELSE donation[d]
      /\ session'[s] = Idle /\ \A t \in Sessions \ {s} : session'[t] = session[t]
  BY DEF Commit, Close, NoticeInv, LockInv, TypeInv, TypeOK
\* Whoever announces something holds the donation it is about.
<1>n. w.notice # "none" => donationLock[w.d] = s
  <2>1. Asking(w) \/ Answering(w) \/ w.notice = "none"
    BY <1>t, IdlePhase DEF TypeInv, Phases, PhaseOK
  <2> QED
    BY <1>t, <1>c, <2>1 DEF HasItsRows
<1>h. ASSUME NEW d \in Donations, donationLock[d] = s
      PROVE  /\ w.d = d
             /\ \/ Asking(w) /\ donation'[d] = "PENDING"
                \/ Answering(w) /\ donation'[d] = Target(w.op) /\ w.op \in HandoverOps
  BY <1>t, <1>c, <1>h, SessionAssumption DEF DonationRowHeld, Answering
<1>1. ASSUME NEW d \in Donations
      PROVE  CASE donation'[d] = "NONE"      -> Told(d)' = {}
               [] donation'[d] = "PENDING"   -> Told(d)' = {"REQUESTED"}
               [] donation'[d] = "ACCEPTED"  -> {"REQUESTED", "ACCEPTED"} \subseteq Told(d)'
               [] donation'[d] = "COMPLETED" ->
                     {"REQUESTED", "ACCEPTED", "COMPLETED"} \subseteq Told(d)'
               [] donation'[d] = "CANCELLED" ->
                     "REQUESTED" \in Told(d)' /\ Told(d)' \cap {"DECLINED", "CANCELLED"} # {}
  <2>1. CASE donationLock[d] # s
    <3>1. donation'[d] = donation[d] /\ Told(d)' = Told(d)
      BY <1>t, <1>c, <1>n, <2>1, CommitTells
    <3>2. donation[d] \in DonationStatus
      BY <1>t
    <3> QED
      BY <3>1, <3>2 DEF NoticeInv, EveryStatusWasAnnounced, DonationStatus
  <2>2. CASE donationLock[d] = s /\ Asking(w)
    <3>1. w.d = d /\ donation'[d] = "PENDING"
      BY <1>h, <2>2 DEF Asking, Answering, HandoverOps
    <3>2. donation[d] = "NONE" /\ w.notice = "REQUESTED"
      BY <1>t, <1>c, <2>2, <3>1 DEF NoticeAccounted, AskAccounted
    <3>3. Told(d) = {}
      BY <3>2 DEF NoticeInv, EveryStatusWasAnnounced
    <3>4. Told(d)' = {"REQUESTED"}
      BY <1>t, <3>1, <3>2, <3>3, CommitTells
    <3> QED
      BY <3>1, <3>4
  <2>3. CASE donationLock[d] = s /\ ~Asking(w)
    <3>1. w.d = d /\ Answering(w) /\ donation'[d] = Target(w.op) /\ w.op \in HandoverOps
      BY <1>h, <2>3
    <3>2. /\ Announced(w.sawDonation) \subseteq Told(d)
          /\ w.notice = NoticeFor(w.op) /\ DonationCan(w.sawDonation, Target(w.op))
      BY <1>t, <1>c, <3>1 DEF NoticeAccounted, AnswerAccounted
    <3>3. NoticeFor(w.op) # "none"
      BY <3>1 DEF NoticeFor, Target, HandoverOps
    <3>4. Announced(w.sawDonation) \cup {NoticeFor(w.op)} \subseteq Told(d)'
      BY <1>t, <3>1, <3>2, <3>3, CommitTells
    <3>5. CASE w.op = "accept"
      BY <3>1, <3>2, <3>4, <3>5 DEF NoticeFor, Target, DonationCan, DonationMoves, Announced
    <3>6. CASE w.op = "complete"
      BY <3>1, <3>2, <3>4, <3>6 DEF NoticeFor, Target, DonationCan, DonationMoves, Announced
    <3>7. CASE w.op \in {"decline", "cancel"}
      <4>1. donation'[d] = "CANCELLED" /\ w.sawDonation \in {"PENDING", "ACCEPTED"}
            /\ NoticeFor(w.op) \in {"DECLINED", "CANCELLED"}
        BY <3>1, <3>2, <3>7 DEF NoticeFor, Target, DonationCan, DonationMoves
      <4>2. "REQUESTED" \in Announced(w.sawDonation)
        BY <4>1 DEF Announced
      <4> QED
        BY <3>4, <4>1, <4>2
    <3> QED
      BY <3>1, <3>5, <3>6, <3>7 DEF HandoverOps
  <2> QED
    BY <2>1, <2>2, <2>3
<1>2. EveryStatusWasAnnounced'
  BY <1>1 DEF EveryStatusWasAnnounced
<1>3. NoticeAccounted(s)'
  BY <1>c DEF NoticeAccounted, Idle, Asking, Answering, HandoverOps
<1>4. ASSUME NEW t \in Sessions \ {s} PROVE NoticeAccounted(t)'
  <2> DEFINE v == session[t]
  <2>1. /\ session'[t] = v /\ NoticeAccounted(t)
        /\ Asking(v) \/ Answering(v) => v.d \in Donations
    BY <1>t, <1>c, StageTells DEF NoticeInv
  <2>2. CASE Asking(v)
    <3>1. v.d \in Donations /\ AskAccounted(t, v) /\ ~Answering(v)
      BY <2>1, <2>2 DEF NoticeAccounted, Asking, Answering, HandoverOps
    <3>2. donationLock[v.d] # s
      BY <1>h, <3>1 DEF AskAccounted
    <3>3. \A u \in Sessions \ {t} : session'[u].d # v.d
      BY <1>c, <3>1, SessionAssumption DEF AskAccounted, Idle
    <3> QED
      BY <1>c, <2>1, <3>1, <3>2, <3>3 DEF NoticeAccounted, AskAccounted
  <2>3. CASE Answering(v)
    <3>1. v.d \in Donations /\ AnswerAccounted(v) /\ ~Asking(v)
      BY <2>1, <2>3 DEF NoticeAccounted, Asking, Answering, HandoverOps
    <3>2. donation'[v.d] # "NONE"
      <4>1. \A op \in HandoverOps : Target(op) # "NONE"
        BY DEF Target
      <4> QED
        BY <1>c, <1>h, <3>1, <4>1 DEF AnswerAccounted
    <3>3. PICK d \in Donations : d = v.d
      BY <3>1
    <3>4. Announced(v.sawDonation) \subseteq Told(d)'
      BY <1>t, <3>1, <3>3, CommitTells DEF AnswerAccounted
    <3> QED
      BY <2>1, <3>1, <3>2, <3>3, <3>4 DEF NoticeAccounted, AnswerAccounted, Told
  <2>4. CASE ~Asking(v) /\ ~Answering(v)
    BY <2>1, <2>4 DEF NoticeAccounted
  <2> QED
    BY <2>2, <2>3, <2>4
<1> QED
  BY <1>2, <1>3, <1>4

LEMMA NoticeInvariant == Spec => []NoticeInv
<1>1. Init => EveryStatusWasAnnounced /\ \A s \in Sessions : NoticeAccounted(s)
  BY DEF Init, EveryStatusWasAnnounced, Told, NoticeAccounted, Idle, Asking, Answering, HandoverOps
<1>2. NoticeInv /\ LockInv' /\ [Next]_vars => NoticeInv'
  <2> SUFFICES ASSUME NoticeInv, [Next]_vars
               PROVE  EveryStatusWasAnnounced' /\ \A t \in Sessions : NoticeAccounted(t)'
    BY DEF NoticeInv
  <2>1. ASSUME UNCHANGED <<donation, notices, session>>
        PROVE  EveryStatusWasAnnounced' /\ \A t \in Sessions : NoticeAccounted(t)'
    BY ZenonT(40), <2>1 DEF NoticeInv, EveryStatusWasAnnounced, Told, NoticeAccounted, AskAccounted,
                AnswerAccounted
  <2>2. CASE UNCHANGED vars
    BY <2>1, <2>2 DEF vars, database
  <2>3. CASE Tick \/ \E i \in Items, e \in Time : CreateItem(i, e)
    BY <2>1, <2>3 DEF Tick, CreateItem, database
  <2>4. ASSUME NEW s \in Sessions, Rollback(s)
        PROVE  EveryStatusWasAnnounced' /\ \A t \in Sessions : NoticeAccounted(t)'
    <3>1. /\ session' = [session EXCEPT ![s] = Idle] /\ UNCHANGED database
          /\ Idle.d = NoDonation /\ ~Asking(Idle) /\ ~Answering(Idle)
      BY <2>4 DEF Rollback, Close, Idle, Asking, Answering, HandoverOps, database
    <3>2. \A t \in Sessions : Asking(session[t]) => session[t].d \in Donations
      BY StageTells DEF NoticeInv, LockInv
    <3> QED
      BY <3>1, <3>2, QuietStepIsAnnounced, SessionAssumption
  <2> QED
    BY <2>2, <2>3, <2>4, StartIsAnnounced, ContinueIsAnnounced, CommitIsAnnounced DEF Next
<1> QED
  BY <1>1, <1>2, LockInvariant, PTL DEF Spec, NoticeInv

\* However requests interleave and fail, nobody ever reads a donation's status
\* without the notices that lead to it, and an open request announced only itself.
THEOREM StatusesAreAnnounced == Spec => []EveryStatusWasAnnounced
BY NoticeInvariant, PTL DEF NoticeInv

\* Food that reads DONATED was accepted and then handed over: complete() writes
\* the item in the transaction that completes an accepted donation of it, and
\* nothing else makes a row DONATED.
THEOREM DonatedFoodWasHandedOver == Spec => []DonatedWasHandedOver
<1>1. Init => DonatedWasHandedOver
  BY DEF Init, DonatedWasHandedOver, Unlisted
<1>2. DonatedWasHandedOver /\ NoticeInv /\ VersionInv /\ [Next]_vars => DonatedWasHandedOver'
  <2> SUFFICES ASSUME DonatedWasHandedOver, NoticeInv, VersionInv, [Next]_vars,
                      NEW i \in Items, item'[i].status = "DONATED"
               PROVE  \E d \in Donations : ItemOf[d] = i /\ {"ACCEPTED", "COMPLETED"} \subseteq Told(d)'
    BY DEF DonatedWasHandedOver
  <2>1. CASE item[i].status = "DONATED" /\ notices \subseteq notices'
    <3>1. \A d \in Donations : Told(d) \subseteq Told(d)'
      BY <2>1 DEF Told
    <3> QED
      BY <2>1, <3>1 DEF DonatedWasHandedOver
  <2>2. ASSUME NEW s \in Sessions, Commit(s)
        PROVE  \E d \in Donations : ItemOf[d] = i /\ {"ACCEPTED", "COMPLETED"} \subseteq Told(d)'
    <3> DEFINE w == session[s]
    <3>t. TypeInv /\ VersionAccounted(i) /\ ItemRowHeld(i) /\ NoticeAccounted(s)
      BY DEF VersionInv, NoticeInv, LockInv, LockDiscipline
    <3>1. notices \subseteq notices' /\ w.stage = "commit"
          /\ item'[i] = IF itemLock[i] = s THEN itemNew[i] ELSE item[i]
      BY <2>2 DEF Commit
    <3>2. CASE item[i].status = "DONATED"
      BY <2>1, <3>1, <3>2
    <3>3. CASE item[i].status # "DONATED"
      <4>1. itemLock[i] = s /\ w.op = "complete" /\ w.i = i
        BY <3>t, <3>1, <3>3 DEF VersionAccounted, Writer
      <4>2. Answering(w)
        BY <3>1, <4>1 DEF Answering, HandoverOps
      <4>3. w.d \in Donations /\ ItemOf[w.d] = i
        BY <3>t, <4>1, <4>2, StageTells
      <4>4. PICK d \in Donations : d = w.d
        BY <4>3
      <4>5. /\ w.notice = "COMPLETED" /\ w.sawDonation = "ACCEPTED"
            /\ Announced(w.sawDonation) \subseteq Told(d)
        BY <3>t, <3>1, <4>1, <4>2, <4>4
           DEF NoticeAccounted, AnswerAccounted, NoticeFor, Target, DonationCan, DonationMoves
      <4>6. "ACCEPTED" \in Told(d) /\ Told(d)' = Told(d) \cup {"COMPLETED"}
        BY <2>2, <3>t, <4>4, <4>5, CommitTells DEF Announced
      <4> QED
        BY <4>3, <4>4, <4>6
    <3> QED
      BY <3>2, <3>3
  <2>3. ASSUME NEW s \in Sessions, Start(s) \/ Continue(s) \/ Rollback(s), ~Commit(s)
        PROVE  UNCHANGED database
    BY <2>3, OnlyCommitsPublish
  <2>4. ASSUME NEW j \in Items, NEW e \in Time, CreateItem(j, e)
        PROVE  item[i].status = "DONATED" /\ notices' = notices
    BY <2>4 DEF CreateItem, VersionInv, LockInv, TypeInv, TypeOK
  <2>5. CASE UNCHANGED vars \/ Tick
    BY <2>1, <2>5 DEF vars, Tick, database
  <2> QED
    BY <2>1, <2>2, <2>3, <2>4, <2>5 DEF Next, database
<1> QED
  BY <1>1, <1>2, NoticeInvariant, VersionInvariant, PTL DEF Spec
=============================================================================
