----------------------------- MODULE Inbox_proofs -----------------------------
(***************************************************************************)
(* The inbox under overlapping requests, for any number of requests,       *)
(* notifications, people and connections.                                  *)
(***************************************************************************)
EXTENDS Inbox, FiniteSetTheorems, TLAPS

-----------------------------------------------------------------------------
(* Types *)

LEMMA RowTypes ==
    /\ Absent \in Row /\ Unread \in Row /\ Gone \in Row
    /\ \A t \in Time : ReadAt(t) \in Row
BY InboxAssumption DEF Absent, Unread, Gone, ReadAt, Row, Time

LEMMA CallTypes ==
    /\ NoCall \in Call
    /\ \A op \in {"mark_read", "dismiss"}, n \in Notes :
          [NoCall EXCEPT !.op = op, !.stage = "load", !.n = n] \in Call
    /\ \A n \in Notes : [NoCall EXCEPT !.op = "notify", !.stage = "write", !.n = n] \in Call
    /\ [NoCall EXCEPT !.op = "mark_all_read", !.stage = "load"] \in Call
<1>1. Absent \in Row /\ 0 \in Time
  BY RowTypes, InboxAssumption DEF Time
<1>2. NoCall \in Call
  BY <1>1 DEF Call, NoCall
<1> QED
  BY <1>2 DEF Call

LEMMA CallEdits ==
    ASSUME NEW c \in Call
    PROVE  /\ [c EXCEPT !.stage = "done"] \in Call
           /\ \A t \in Time : [c EXCEPT !.at = t] \in Call
           /\ \A s \in Row, t \in Time, g \in {"load", "write", "done"} :
                 [c EXCEPT !.saw = s, !.at = t, !.stage = g] \in Call
BY DEF Call

LEMMA VisitType ==
    ASSUME NEW c \in Call, NEW todo \in SUBSET Notes, NEW next \in Visit(c, todo)
    PROVE  next \in Call
<1>1. CASE todo = {}
  <2>1. next = [c EXCEPT !.n = NoNote, !.todo = {}, !.stage = "done"]
    BY <1>1 DEF Visit
  <2> QED
    BY <2>1 DEF Call
<1>2. CASE todo # {}
  <2>1. PICK n \in todo : next = [c EXCEPT !.n = n, !.todo = todo \ {n}, !.stage = "write"]
    BY <1>2 DEF Visit
  <2> QED
    BY <2>1 DEF Call
<1> QED
  BY <1>1, <1>2

\* What a step does to the requests.
LEMMA LifecycleKept ==
    ASSUME LifecycleType, NEW r \in Requests, LifecycleAssumption,
           \/ Arrive(r) \/ Connect(r) \/ PoolTimeout(r) \/ Respond(r) \/ EndTasks(r) \/ TaskRaises(r)
           \/ Flushed(r) \/ EndCommitted(r) \/ CommitFails(r) \/ Die(r)
           \/ \E what \in Answer : Raise(r, what)
           \/ \E t \in Tasks : RunTask(r, t)
    PROVE  LifecycleType'
<1>1. CASE Arrive(r) \/ Connect(r) \/ Respond(r) \/ EndTasks(r) \/ Flushed(r)
  BY <1>1 DEF Arrive, Connect, Respond, EndTasks, Flushed, MoveTo, Tell, LifecycleType, Phase, Answer
<1>2. CASE PoolTimeout(r) \/ TaskRaises(r) \/ EndCommitted(r) \/ CommitFails(r) \/ Die(r)
  BY <1>2 DEF PoolTimeout, TaskRaises, EndCommitted, CommitFails, Die, End, MoveTo, Tell, LifecycleType, Phase, Answer
<1>3. CASE \E what \in Answer : Raise(r, what)
  BY <1>3 DEF Raise, End, MoveTo, Tell, LifecycleType, Phase
<1>4. CASE \E t \in Tasks : RunTask(r, t)
  BY <1>4 DEF RunTask, LifecycleType
<1> QED
  BY <1>1, <1>2, <1>3, <1>4

TableType ==
    /\ row \in [Notes -> Row]
    /\ rowLock \in [Notes -> Requests \cup {NoRequest}]
    /\ rowNew \in [Notes -> Row]

HistoryType == written \subseteq Notes /\ told \subseteq Notes /\ delivered \subseteq Notes

LEMMA TypeOKParts ==
    TypeOK <=> /\ LifecycleType /\ TableType /\ HistoryType
               /\ now \in Time /\ call \in [Requests -> Call]
BY DEF TypeOK, TableType, HistoryType

LEMMA WriteType ==
    ASSUME TableType, NEW r \in Requests, NEW n \in Notes, NEW v \in Row, Write(r, n, v)
    PROVE  TableType'
BY DEF TableType, Write

LEMMA RollBackType ==
    ASSUME TypeOK, NEW r \in Requests, LifecycleType', RollBack(r)
    PROVE  TypeOK'
BY CallTypes DEF TypeOK, RollBack, Release, history

LEMMA RefuseType ==
    ASSUME TypeOK, NEW r \in Requests, Refuse(r) \/ DatabaseError(r)
    PROVE  TypeOK'
BY RollBackType, LifecycleKept, LifecycleAssumption DEF TypeOK, Refuse, DatabaseError, Answer

LEMMA WorksType ==
    ASSUME TypeOK, NEW r \in Requests, NEW next \in Call, Works(r, next), TableType', HistoryType',
           queued' \in [Requests -> SUBSET Tasks]
    PROVE  TypeOK'
BY DEF TypeOK, Works, LifecycleType, TableType, HistoryType

\* A statement that writes has a row to write.
Aimed(c) == (c.op \in {"notify", "mark_read", "dismiss"} \/ c.stage = "write") => c.n \in Notes

TypeInv == TypeOK /\ \A r \in Requests : Aimed(call[r])

LEMMA AimedKept ==
    ASSUME TypeInv, NEW r \in Requests, NEW c \in Call, Aimed(c), call' = [call EXCEPT ![r] = c]
    PROVE  \A t \in Requests : Aimed(call'[t])
BY DEF TypeInv, TypeOK

LEMMA ReleasedAimed ==
    ASSUME TypeInv, NEW r \in Requests, Release(r)
    PROVE  \A t \in Requests : Aimed(call'[t])
BY AimedKept, CallTypes DEF Release, Aimed, NoCall

LEMMA VisitAimed ==
    ASSUME NEW c \in Call, NEW todo \in SUBSET Notes, NEW next \in Visit(c, todo), c.op = "mark_all_read"
    PROVE  Aimed(next)
BY DEF Visit, Aimed, Call

LEMMA LoseTypeInv ==
    ASSUME TypeInv, NEW r \in Requests, Refuse(r) \/ DatabaseError(r) \/ Lose(r)
    PROVE  TypeInv'
<1>1. CASE Refuse(r) \/ DatabaseError(r)
  BY <1>1, RefuseType, ReleasedAimed DEF TypeInv, Refuse, DatabaseError, RollBack
<1>2. CASE Lose(r)
  BY <1>2, RollBackType, ReleasedAimed, LifecycleKept, LifecycleAssumption
  DEF TypeInv, TypeOK, Lose, RollBack
<1> QED
  BY <1>1, <1>2

LEMMA StatementTypeInv == ASSUME TypeInv, NEW r \in Requests, Statement(r) PROVE TypeInv'
<1> DEFINE c == call[r]
<1>0. /\ c \in Call /\ now \in Time /\ TableType /\ HistoryType /\ LifecycleType /\ Aimed(c)
      /\ queued \in [Requests -> SUBSET Tasks] /\ Tasks = Notes
      /\ [c EXCEPT !.stage = "done"] \in Call
      /\ c.op \in {"none", "notify", "mark_read", "dismiss", "mark_all_read"}
  BY ZenonT(40), TypeOKParts, CallEdits, InboxAssumption DEF TypeInv, TypeOK, LifecycleType, Call
<1>works. ASSUME NEW next \in Call, Works(r, next), Aimed(next), TableType', HistoryType',
                 queued' \in [Requests -> SUBSET Tasks]
          PROVE  TypeInv'
  BY <1>works, WorksType, AimedKept DEF TypeInv, Works
<1>done. c.n \in Notes => Aimed([c EXCEPT !.stage = "done"])
  BY <1>0 DEF Aimed, Call
<1>1. CASE Insert(r)
  <2>1. c.n \in Notes /\ TableType'
    BY <1>0, <1>1, WriteType, RowTypes DEF Insert, Aimed
  <2>2. queued' \in [Requests -> SUBSET Tasks] /\ HistoryType'
    BY <1>0, <1>1, <2>1 DEF Insert, history, HistoryType
  <2> QED
    BY <1>0, <1>1, <1>done, <1>works, <2>1, <2>2 DEF Insert
<1>2. CASE Load(r)
  <2>1. CASE Refuse(r)
    BY <2>1, LoseTypeInv
  <2>2. CASE ~Refuse(r)
    <3> DEFINE next == [c EXCEPT !.saw = row[c.n], !.at = now, !.stage = AfterLoad(c.op, row[c.n])]
    <3>1. c.n \in Notes /\ row[c.n] \in Row /\ AfterLoad(c.op, row[c.n]) \in {"load", "write", "done"}
      BY <1>0, <1>2 DEF Load, Aimed, TableType, AfterLoad
    <3>2. next \in Call /\ Aimed(next)
      BY <1>0, <3>1, CallEdits DEF Aimed, Call
    <3>3. Works(r, next) /\ UNCHANGED <<queued, table, history>>
      BY <1>2, <2>2 DEF Load
    <3>4. TableType' /\ HistoryType' /\ queued' \in [Requests -> SUBSET Tasks]
      BY <1>0, <3>3 DEF table, history, TableType, HistoryType
    <3> HIDE DEF next
    <3> QED
      BY <1>works, <3>2, <3>3, <3>4
  <2> QED
    BY <2>1, <2>2
<1>3. CASE MarkRead(r) \/ Dismiss(r)
  <2>1. CASE DatabaseError(r)
    BY <2>1, LoseTypeInv
  <2>2. CASE ~DatabaseError(r)
    <3>1. c.n \in Notes /\ ReadAt(c.at) \in Row
      BY <1>0, <1>3, RowTypes DEF MarkRead, Dismiss, Aimed, Call
    <3>2. TableType'
      BY <1>0, <1>3, <2>2, <3>1, WriteType, RowTypes DEF MarkRead, Dismiss
    <3>3. UNCHANGED <<queued, history>> /\ Works(r, [c EXCEPT !.stage = "done"])
      BY <1>3, <2>2 DEF MarkRead, Dismiss
    <3>4. HistoryType' /\ queued' \in [Requests -> SUBSET Tasks]
      BY <1>0, <3>3 DEF history, HistoryType
    <3> QED
      BY <1>0, <1>done, <1>works, <3>1, <3>2, <3>3, <3>4
  <2> QED
    BY <2>1, <2>2
<1>4. CASE Scan(r)
  <2>1. PICK person \in People : \E next \in Visit([c EXCEPT !.at = now], UnreadOf(person)) : Works(r, next)
    BY <1>4 DEF Scan
  <2>2. PICK next \in Visit([c EXCEPT !.at = now], UnreadOf(person)) : Works(r, next)
    BY <2>1
  <2>3. [c EXCEPT !.at = now] \in Call /\ [c EXCEPT !.at = now].op = "mark_all_read"
    BY <1>0, <1>4, CallEdits DEF Scan, Call
  <2>4. next \in Call /\ Aimed(next)
    BY <2>3, VisitType, VisitAimed DEF UnreadOf
  <2>5. TableType' /\ HistoryType' /\ queued' \in [Requests -> SUBSET Tasks]
    BY <1>0, <1>4 DEF Scan, table, history, TableType, HistoryType
  <2> QED
    BY <1>works, <2>2, <2>4, <2>5
<1>5. CASE StampOne(r)
  <2>1. PICK next \in Visit(c, c.todo) : Works(r, next)
    BY <1>5 DEF StampOne
  <2>2. next \in Call /\ Aimed(next)
    BY <1>0, <1>5, <2>1, VisitType, VisitAimed DEF StampOne, Call
  <2>3. c.n \in Notes /\ ReadAt(c.at) \in Row
    BY <1>0, <1>5, RowTypes DEF StampOne, Aimed, Call
  <2>4. TableType'
    BY <1>0, <1>5, <2>3, WriteType DEF StampOne, table, TableType
  <2>5. HistoryType' /\ queued' \in [Requests -> SUBSET Tasks]
    BY <1>0, <1>5 DEF StampOne, history, HistoryType
  <2> QED
    BY <1>works, <2>1, <2>2, <2>4, <2>5
<1> QED
  BY <1>1, <1>2, <1>3, <1>4, <1>5 DEF Statement

LEMMA StartTypeInv == ASSUME TypeInv, NEW r \in Requests, Start(r) PROVE TypeInv'
<1> USE DEF TypeInv
<1>b. ASSUME NEW first \in Call, Aimed(first), Begin(r, first), written' \subseteq Notes
      PROVE  TypeInv'
  <2>1. LifecycleType'
    BY <1>b, LifecycleKept, LifecycleAssumption DEF Begin, TypeOK
  <2>2. \A t \in Requests : Aimed(call'[t])
    BY <1>b, AimedKept DEF Begin
  <2> QED
    BY <1>b, <2>1, <2>2 DEF Begin, TypeOK, table
<1>1. ASSUME NEW n \in Notes, BeginNotify(r, n) PROVE TypeInv'
  BY <1>1, <1>b, CallTypes DEF BeginNotify, Aimed, NoCall, TypeOK
<1>2. ASSUME NEW n \in Notes, NEW op \in {"mark_read", "dismiss"}, BeginOne(r, op, n) PROVE TypeInv'
  BY <1>2, <1>b, CallTypes DEF BeginOne, Aimed, NoCall, TypeOK
<1>3. CASE BeginAll(r)
  BY <1>3, <1>b, CallTypes DEF BeginAll, Aimed, NoCall, TypeOK
<1> QED
  BY <1>1, <1>2, <1>3 DEF Start

LEMMA FinishTypeInv ==
    ASSUME TypeInv, NEW r \in Requests, TakeConnection(r) \/ Finish(r)
    PROVE  TypeInv'
<1> USE LifecycleKept, LifecycleAssumption DEF TypeInv
<1>1. CASE TakeConnection(r) \/ FinishTasks(r) \/ Flush(r)
  BY <1>1 DEF TakeConnection, FinishTasks, Flush, TypeOK, table, history
<1>2. CASE Answers(r)
  <2>1. told' \subseteq Notes
    BY <1>2 DEF Answers, TypeOK, Aimed
  <2> QED
    BY <1>2, <2>1 DEF Answers, TypeOK, table
<1>3. CASE Deliver(r)
  <2>1. PICK n \in queued[r] : RunTask(r, n) /\ delivered' = delivered \cup {n}
    BY <1>3 DEF Deliver
  <2>2. n \in Notes /\ n \in Tasks
    BY <2>1, InboxAssumption DEF TypeOK, LifecycleType
  <2>3. LifecycleType'
    BY <2>1, <2>2 DEF TypeOK
  <2> QED
    BY <1>3, <2>1, <2>2, <2>3 DEF Deliver, TypeOK, table
<1>4. CASE Commit(r)
  <2>1. LifecycleType' /\ row' \in [Notes -> Row]
    BY <1>4 DEF Commit, TypeOK
  <2>2. \A t \in Requests : Aimed(call'[t])
    BY <1>4, ReleasedAimed DEF Commit
  <2> QED
    BY <1>4, <2>1, <2>2, CallTypes DEF Commit, Release, TypeOK, history
<1> QED
  BY <1>1, <1>2, <1>3, <1>4 DEF Finish

LEMMA InitTypeInv == Init => TypeInv
<1> SUFFICES ASSUME Init PROVE TypeInv
  OBVIOUS
<1>1. LifecycleType
  BY DEF Init, LifecycleInit, LifecycleType, Phase, Answer
<1>2. 0 \in Time /\ Absent \in Row /\ NoCall \in Call
  <2>1. 0 \in Time
    BY InboxAssumption DEF Time
  <2> QED
    BY <2>1, RowTypes, CallTypes
<1>3. TypeOK
  BY <1>1, <1>2 DEF Init, TypeOK
<1> QED
  BY <1>3 DEF Init, TypeInv, Aimed, NoCall

LEMMA NextTypeInv == TypeInv /\ [Next]_vars => TypeInv'
<1> SUFFICES ASSUME TypeInv, [Next]_vars PROVE TypeInv'
  OBVIOUS
<1>1. CASE Tick
  BY <1>1, InboxAssumption DEF Tick, TypeInv, TypeOK, Time, table, history, lifecycle, LifecycleType
<1>2. CASE UNCHANGED vars
  BY <1>2 DEF vars, TypeInv, TypeOK, table, history, lifecycle, LifecycleType
<1>3. ASSUME NEW r \in Requests,
             Start(r) \/ TakeConnection(r) \/ Statement(r) \/ Finish(r) \/ Lose(r) \/ DatabaseError(r)
      PROVE  TypeInv'
  BY <1>3, StartTypeInv, FinishTypeInv, StatementTypeInv, LoseTypeInv
<1> QED
  BY <1>1, <1>2, <1>3 DEF Next

\* Every variable keeps its type, whatever requests overlap and are lost.
THEOREM TypeCorrect == Spec => []TypeOK
<1>1. Spec => []TypeInv
  BY InitTypeInv, NextTypeInv, PTL DEF Spec
<1> QED
  BY <1>1, PTL DEF TypeInv

-----------------------------------------------------------------------------
(* The inductive invariant *)

\* What r may have done to the row n that it holds, before its commit.
HeldBy(n, r) ==
    LET c == call[r] IN
    /\ HasConnection(r)
    /\ \/ /\ c.op = "mark_all_read" /\ c.stage # "load"
          /\ row[n].status = "unread" /\ rowNew[n].status = "read"
       \/ /\ c.stage = "done" /\ c.n = n
          /\ \/ c.op = "notify" /\ row[n].status = "absent" /\ rowNew[n] = Unread
             \/ /\ c.op = "mark_read" /\ c.saw.status = "unread"
                /\ Exists(row[n]) /\ rowNew[n].status = "read"
             \/ c.op = "dismiss" /\ row[n].status # "absent" /\ rowNew[n] = Gone

RowOK(n) ==
    /\ rowLock[n] = NoRequest => rowNew[n] = row[n]
    /\ rowLock[n] # NoRequest => HeldBy(n, rowLock[n])
    /\ n \notin written => row[n].status = "absent" /\ rowLock[n] = NoRequest
    /\ row[n].status # "absent" => n \in delivered

\* A donation call is ahead of its answer, its delivery and its commit.
NotifyOK(r) ==
    LET c == call[r] IN
    /\ c.n \in written /\ c.stage # "load"
    /\ c.stage = "write" => row[c.n].status = "absent" /\ rowLock[c.n] = NoRequest
    /\ phase[r] = "work" /\ c.stage = "done" => c.n \in queued[r]
    /\ phase[r] \in {"tasks", "flush", "commit"} => c.n \in told
    /\ phase[r] = "tasks" => c.n \in queued[r] \cup delivered
    /\ phase[r] \in {"flush", "commit"} => c.n \in delivered

RequestOK(r) ==
    LET c == call[r] IN
    /\ phase[r] = "idle" => c = NoCall
    /\ c.stage # "done" => phase[r] \in {"connect", "work"}
    /\ phase[r] = "connect" => c.stage # "done"
    /\ queued[r] # {} => c.op = "notify" /\ queued[r] = {c.n}
    /\ c.op = "notify" => NotifyOK(r)
    /\ c.op \in {"mark_read", "dismiss"} /\ c.stage = "write" => row[c.n].status # "absent"
    /\ c.op = "mark_read" /\ c.stage = "write" => c.saw.status = "unread"

Visited(r) ==
    call[r].todo \cup ({call[r].n} \cap Notes) \cup {n \in Notes : rowLock[n] = r}

\* mark_all_read is about one person.
OneInbox(r) ==
    call[r].op = "mark_all_read" =>
        \A m, n \in Visited(r) : AddresseeOf[m] = AddresseeOf[n]

NotifiesAlone(r) ==
    \A t \in Requests :
        call[r].op = "notify" /\ call[t].op = "notify" /\ call[r].n = call[t].n => r = t

InboxInv ==
    /\ \A n \in Notes : RowOK(n)
    /\ \A r \in Requests : RequestOK(r) /\ OneInbox(r) /\ NotifiesAlone(r)
    /\ delivered \subseteq told

IInv == TypeInv /\ InboxInv

\* Only r's request changes, and the histories grow.
OnlyRequest(r) ==
    /\ \A t \in Requests \ {r} : phase'[t] = phase[t] /\ queued'[t] = queued[t] /\ call'[t] = call[t]
    /\ written \subseteq written' /\ told \subseteq told' /\ delivered \subseteq delivered'
    /\ delivered' \subseteq told'

\* A step that does not touch the table.
LEMMA LocalStep ==
    ASSUME IInv, NEW r \in Requests, OnlyRequest(r), UNCHANGED table,
           RequestOK(r)', OneInbox(r)', NotifiesAlone(r)',
           \A n \in Notes : rowLock[n] = r => HeldBy(n, r)'
    PROVE  InboxInv'
<1> USE DEF IInv, InboxInv, OnlyRequest, table
<1>1. ASSUME NEW n \in Notes PROVE RowOK(n)'
  <2>1. CASE rowLock[n] = r
    BY <2>1 DEF RowOK, TypeInv, TypeOK
  <2>2. CASE rowLock[n] # r /\ rowLock[n] # NoRequest
    <3>1. rowLock[n] \in Requests \ {r}
      BY <2>2 DEF TypeInv, TypeOK
    <3>2. HeldBy(n, rowLock[n])'
      BY <2>2, <3>1 DEF RowOK, HeldBy, HasConnection
    <3> QED
      BY <3>2 DEF RowOK
  <2>3. CASE rowLock[n] = NoRequest
    BY <2>3 DEF RowOK
  <2> QED
    BY <2>1, <2>2, <2>3
<1>2. ASSUME NEW t \in Requests, t # r PROVE RequestOK(t)' /\ OneInbox(t)' /\ NotifiesAlone(t)'
  <2>1. RequestOK(t)'
    BY <1>2 DEF RequestOK, NotifyOK
  <2>2. OneInbox(t)'
    BY <1>2 DEF OneInbox, Visited
  <2>3. NotifiesAlone(t)'
    BY <1>2 DEF NotifiesAlone
  <2> QED
    BY <2>1, <2>2, <2>3
<1> QED
  BY <1>1, <1>2

\* A statement that writes one row.
LEMMA WriteStep ==
    ASSUME IInv, NEW r \in Requests, OnlyRequest(r), NEW n \in Notes, NEW v, Write(r, n, v),
           RequestOK(r)', OneInbox(r)', NotifiesAlone(r)', n \in written,
           \A m \in Notes : rowLock'[m] = r => HeldBy(m, r)',
           \A t \in Requests \ {r} : call[t].op = "notify" /\ call[t].stage = "write" => call[t].n # n
    PROVE  InboxInv'
<1> USE DEF IInv, InboxInv, OnlyRequest, Write
<1>0. r # NoRequest /\ rowLock'[n] = r
  BY InboxAssumption DEF TypeInv, TypeOK
<1>1. ASSUME NEW m \in Notes PROVE RowOK(m)'
  <2>1. CASE m = n
    BY <1>0, <2>1 DEF RowOK
  <2>2. CASE m # n
    <3>1. rowLock'[m] = rowLock[m] /\ rowNew'[m] = rowNew[m] /\ row'[m] = row[m]
      BY <2>2 DEF TypeInv, TypeOK
    <3>2. CASE rowLock[m] = r
      BY <1>0, <3>1, <3>2 DEF RowOK
    <3>3. CASE rowLock[m] # r /\ rowLock[m] # NoRequest
      <4>1. rowLock[m] \in Requests \ {r}
        BY <3>3 DEF TypeInv, TypeOK
      <4>2. HeldBy(m, rowLock[m])'
        BY <3>1, <3>3, <4>1 DEF RowOK, HeldBy, HasConnection
      <4> QED
        BY <3>1, <4>2 DEF RowOK
    <3>4. CASE rowLock[m] = NoRequest
      BY <3>1, <3>4 DEF RowOK
    <3> QED
      BY <3>2, <3>3, <3>4
  <2> QED
    BY <2>1, <2>2
<1>2. ASSUME NEW t \in Requests, t # r PROVE RequestOK(t)' /\ OneInbox(t)' /\ NotifiesAlone(t)'
  <2>1. RequestOK(t)'
    BY <1>2 DEF RequestOK, NotifyOK, TypeInv, TypeOK
  <2>2. Visited(t)' \subseteq Visited(t)
    BY <1>0, <1>2 DEF Visited, TypeInv, TypeOK
  <2>3. OneInbox(t)'
    BY <1>2, <2>2 DEF OneInbox
  <2>4. NotifiesAlone(t)'
    BY <1>2 DEF NotifiesAlone
  <2> QED
    BY <2>1, <2>3, <2>4
<1> QED
  BY <1>1, <1>2

\* The end of a request, committed or not.
LEMMA ReleaseStep ==
    ASSUME IInv, TypeInv', NEW r \in Requests, Release(r), UNCHANGED history,
           phase' = [phase EXCEPT ![r] = "idle"], queued' = [queued EXCEPT ![r] = {}],
           \/ UNCHANGED row
           \/ /\ phase[r] = "commit"
              /\ row' = [n \in Notes |-> IF rowLock[n] = r THEN rowNew[n] ELSE row[n]]
    PROVE  InboxInv'
<1> USE DEF IInv, InboxInv, Release, history
<1>0. /\ \A t \in Requests \ {r} : phase'[t] = phase[t] /\ queued'[t] = queued[t] /\ call'[t] = call[t]
      /\ phase'[r] = "idle" /\ queued'[r] = {} /\ call'[r] = NoCall
      /\ r # NoRequest
      /\ \A n \in Notes : rowLock'[n] = IF rowLock[n] = r THEN NoRequest ELSE rowLock[n]
      /\ \A n \in Notes : rowNew'[n] = IF rowLock[n] = r THEN row'[n] ELSE rowNew[n]
      /\ \A n \in Notes : rowLock[n] # r => row'[n] = row[n]
  BY InboxAssumption DEF TypeInv, TypeOK, LifecycleType
<1>1. ASSUME NEW n \in Notes, row[n].status # "absent" PROVE row'[n].status # "absent"
  BY <1>1 DEF RowOK, HeldBy, Unread, Gone
<1>2. ASSUME NEW n \in Notes, row'[n].status # "absent" PROVE n \in delivered
  <2>1. CASE row[n].status # "absent"
    BY <2>1 DEF RowOK
  <2>2. CASE row[n].status = "absent"
    <3>1. rowLock[n] = r /\ phase[r] = "commit"
      BY <1>2, <2>2, <1>0
    <3>2. call[r].op = "notify" /\ call[r].n = n
      BY <1>0, <2>2, <3>1 DEF RowOK, HeldBy, Exists
    <3> QED
      BY <3>1, <3>2 DEF RequestOK, NotifyOK
  <2> QED
    BY <2>1, <2>2
<1>3. ASSUME NEW n \in Notes PROVE RowOK(n)'
  <2>1. CASE rowLock[n] = r
    <3>1. n \in written
      BY <1>0, <2>1 DEF RowOK
    <3> QED
      BY <1>0, <1>2, <2>1, <3>1 DEF RowOK
  <2>2. CASE rowLock[n] # r /\ rowLock[n] # NoRequest
    <3>1. rowLock[n] \in Requests \ {r}
      BY <2>2 DEF TypeInv, TypeOK
    <3>2. HeldBy(n, rowLock[n])'
      BY <1>0, <2>2, <3>1 DEF RowOK, HeldBy, HasConnection
    <3> QED
      BY <1>0, <1>2, <2>2, <3>2 DEF RowOK
  <2>3. CASE rowLock[n] = NoRequest
    BY <1>0, <1>2, <2>3 DEF RowOK
  <2> QED
    BY <2>1, <2>2, <2>3
<1>4. ASSUME NEW t \in Requests, t # r PROVE RequestOK(t)' /\ OneInbox(t)' /\ NotifiesAlone(t)'
  <2>1. NotifyOK(t) /\ call[t].op = "notify" => NotifyOK(t)'
    <3>1. call[t].op = "notify" => call[t].n \in Notes
      BY DEF TypeInv, Aimed
    <3> QED
      BY <1>0, <1>4, <3>1 DEF NotifyOK
  <2>2. call[t].op \in {"mark_read", "dismiss"} => call[t].n \in Notes
    BY DEF TypeInv, Aimed
  <2>3. RequestOK(t)'
    <3>1. /\ call[t].op \in {"mark_read", "dismiss"} /\ call[t].stage = "write" => row'[call[t].n].status # "absent"
          /\ call'[t] = call[t] /\ phase'[t] = phase[t] /\ queued'[t] = queued[t]
          /\ RequestOK(t)
      BY <1>0, <1>1, <1>4, <2>2 DEF RequestOK
    <3> QED
      BY <2>1, <3>1 DEF RequestOK
  <2>4. Visited(t)' \subseteq Visited(t)
    <3>1. t # NoRequest /\ call'[t] = call[t]
      BY <1>0, <1>4, InboxAssumption
    <3>2. \A n \in Notes : rowLock'[n] = t => rowLock[n] = t
      BY <1>0, <1>4, <3>1
    <3> HIDE DEF IInv, InboxInv, Release, history
    <3> QED
      BY <3>1, <3>2 DEF Visited
  <2>5. OneInbox(t)'
    BY <1>0, <1>4, <2>4 DEF OneInbox
  <2>6. NotifiesAlone(t)'
    BY <1>0, <1>4 DEF NotifiesAlone, NoCall
  <2> QED
    BY <2>3, <2>5, <2>6
<1>5. RequestOK(r)' /\ OneInbox(r)' /\ NotifiesAlone(r)'
  BY <1>0 DEF RequestOK, OneInbox, NotifiesAlone, NoCall
<1> QED
  BY <1>3, <1>4, <1>5

-----------------------------------------------------------------------------
(* Every step keeps it *)

LEMMA InitInboxInv == Init => IInv
<1> SUFFICES ASSUME Init PROVE InboxInv
  BY InitTypeInv DEF IInv
<1>1. /\ \A n \in Notes : row[n] = Absent /\ rowNew[n] = Absent /\ rowLock[n] = NoRequest
      /\ \A r \in Requests : call[r] = NoCall /\ phase[r] = "idle" /\ queued[r] = {}
      /\ delivered = {} /\ told = {}
  BY DEF Init, LifecycleInit
<1>2. ASSUME NEW n \in Notes PROVE RowOK(n)
  BY <1>1 DEF RowOK, Absent
<1>3. ASSUME NEW r \in Requests PROVE RequestOK(r) /\ OneInbox(r) /\ NotifiesAlone(r)
  BY <1>1 DEF RequestOK, OneInbox, NotifiesAlone, NoCall
<1> QED
  BY <1>1, <1>2, <1>3 DEF InboxInv

LEMMA VisitFacts ==
    ASSUME NEW c \in Call, NEW todo \in SUBSET Notes, NEW next \in Visit(c, todo)
    PROVE  /\ next.op = c.op /\ next.stage \in {"done", "write"}
           /\ next.todo \subseteq todo /\ next.n \in todo \cup {NoNote}
<1>1. CASE todo = {}
  <2>1. next = [c EXCEPT !.n = NoNote, !.todo = {}, !.stage = "done"]
    BY <1>1 DEF Visit
  <2> QED
    BY <2>1 DEF Call
<1>2. CASE todo # {}
  <2>1. PICK n \in todo : next = [c EXCEPT !.n = n, !.todo = todo \ {n}, !.stage = "write"]
    BY <1>2 DEF Visit
  <2> QED
    BY <2>1 DEF Call
<1> QED
  BY <1>1, <1>2

\* Before its first statement a request holds nothing.
LEMMA HoldsNothing ==
    ASSUME IInv, NEW r \in Requests, NEW n \in Notes, rowLock[n] = r
    PROVE  /\ phase[r] \notin {"idle", "connect"}
           /\ call[r].stage = "done" \/ (call[r].op = "mark_all_read" /\ call[r].stage = "write")
<1>1. rowLock[n] # NoRequest
  BY InboxAssumption
<1>2. HeldBy(n, r)
  BY <1>1 DEF IInv, InboxInv, RowOK
<1>3. call[r].stage \in {"load", "write", "done"}
  BY DEF IInv, TypeInv, TypeOK, Call
<1> QED
  BY <1>2, <1>3 DEF HeldBy, HasConnection

LEMMA LoseInboxInv ==
    ASSUME IInv, NEW r \in Requests, Refuse(r) \/ DatabaseError(r) \/ Lose(r)
    PROVE  InboxInv'
<1>1. TypeInv'
  BY LoseTypeInv DEF IInv
<1>2. phase' = [phase EXCEPT ![r] = "idle"] /\ queued' = [queued EXCEPT ![r] = {}]
  BY DEF Refuse, DatabaseError, Lose, Raise, PoolTimeout, TaskRaises, CommitFails, Die, End, MoveTo
<1>3. RollBack(r)
  BY DEF Refuse, DatabaseError, Lose
<1> QED
  BY <1>1, <1>2, <1>3, ReleaseStep DEF RollBack

LEMMA StartInboxInv == ASSUME IInv, NEW r \in Requests, Start(r) PROVE InboxInv'
<1> USE DEF IInv, InboxInv
<1>1. /\ phase[r] = "idle" /\ queued[r] = {}
      /\ \A n \in Notes : rowLock[n] # r
  <2>1. phase[r] = "idle"
    BY DEF Start, BeginNotify, BeginOne, BeginAll, Begin, Arrive
  <2>2. queued[r] = {}
    BY <2>1 DEF RequestOK, NoCall
  <2> QED
    BY <2>1, <2>2, HoldsNothing
<1>2. ASSUME NEW first, Begin(r, first), written \subseteq written'
      PROVE  /\ OnlyRequest(r) /\ UNCHANGED table
             /\ phase'[r] = "connect" /\ queued'[r] = {} /\ call'[r] = first
             /\ UNCHANGED <<told, delivered>>
  BY <1>1, <1>2 DEF OnlyRequest, Begin, Arrive, MoveTo, table, TypeInv, TypeOK, LifecycleType
<1>3. ASSUME NEW n \in Notes, BeginNotify(r, n) PROVE InboxInv'
  <2> DEFINE first == [NoCall EXCEPT !.op = "notify", !.stage = "write", !.n = n]
  <2>1. /\ OnlyRequest(r) /\ UNCHANGED table /\ n \in written' /\ n \notin written
        /\ phase'[r] = "connect" /\ queued'[r] = {} /\ call'[r] = first
    BY <1>2, <1>3 DEF BeginNotify
  <2>2. first.op = "notify" /\ first.stage = "write" /\ first.n = n
    BY DEF NoCall
  <2>3. RequestOK(r)' /\ OneInbox(r)'
    BY <2>1, <2>2 DEF RequestOK, NotifyOK, OneInbox, RowOK, table
  <2>4. NotifiesAlone(r)'
    <3>1. \A t \in Requests : call[t].op = "notify" => call[t].n # n
      BY <2>1 DEF RequestOK, NotifyOK
    <3> QED
      BY <2>1, <2>2, <3>1 DEF NotifiesAlone, OnlyRequest
  <2> QED
    BY <1>1, <2>1, <2>3, <2>4, LocalStep
<1>4. ASSUME NEW first \in Call, Begin(r, first), UNCHANGED written,
             first.op \in {"mark_read", "dismiss", "mark_all_read"}, first.stage = "load",
             first.todo = {}, first.op = "mark_all_read" => first.n \notin Notes
      PROVE  InboxInv'
  <2>1. /\ OnlyRequest(r) /\ UNCHANGED table
        /\ phase'[r] = "connect" /\ queued'[r] = {} /\ call'[r] = first
    BY <1>2, <1>4
  <2>2. RequestOK(r)' /\ NotifiesAlone(r)'
    BY <1>4, <2>1 DEF RequestOK, NotifiesAlone
  <2>3. OneInbox(r)'
    BY <1>1, <1>4, <2>1 DEF OneInbox, Visited, table
  <2> QED
    BY <1>1, <2>1, <2>2, <2>3, LocalStep
<1>5. ASSUME NEW n \in Notes, NEW op \in {"mark_read", "dismiss"}, BeginOne(r, op, n) PROVE InboxInv'
  BY <1>4, <1>5, CallTypes DEF BeginOne, NoCall
<1>6. CASE BeginAll(r)
  BY <1>4, <1>6, CallTypes, InboxAssumption DEF BeginAll, NoCall
<1> QED
  BY <1>3, <1>5, <1>6 DEF Start

LEMMA FinishInboxInv ==
    ASSUME IInv, NEW r \in Requests, TakeConnection(r) \/ Finish(r)
    PROVE  InboxInv'
<1> USE DEF IInv, InboxInv
<1>0. /\ phase \in [Requests -> Phase] /\ queued \in [Requests -> SUBSET Tasks]
      /\ \A n \in Notes : rowLock[n] = r => HeldBy(n, r)
      /\ delivered \subseteq told
  <2>1. \A n \in Notes : rowLock[n] = r => HeldBy(n, r)
    BY InboxAssumption DEF RowOK
  <2> QED
    BY <2>1 DEF TypeInv, TypeOK, LifecycleType
<1>1. ASSUME NEW p \in {"work", "tasks", "flush", "commit"}, phase' = [phase EXCEPT ![r] = p],
             UNCHANGED <<table, call, queued, written, delivered>>, told \subseteq told',
             RequestOK(r)'
      PROVE  InboxInv'
  <2>1. OnlyRequest(r)
    BY <1>0, <1>1 DEF OnlyRequest
  <2>2. OneInbox(r)' /\ NotifiesAlone(r)'
    BY <1>1 DEF OneInbox, Visited, NotifiesAlone, table
  <2>3. \A n \in Notes : rowLock[n] = r => HeldBy(n, r)'
    BY <1>0, <1>1 DEF HeldBy, HasConnection, table
  <2> QED
    BY <1>1, <2>1, <2>2, <2>3, LocalStep
<1>2. CASE TakeConnection(r)
  <2>1. RequestOK(r)'
    BY <1>0, <1>2 DEF TakeConnection, Connect, MoveTo, RequestOK, NotifyOK, table, history
  <2> QED
    BY <1>1, <1>2, <2>1 DEF TakeConnection, Connect, MoveTo, history
<1>3. CASE Answers(r)
  <2>1. RequestOK(r)'
    BY <1>0, <1>3 DEF Answers, Respond, MoveTo, RequestOK, NotifyOK, table
  <2> QED
    BY <1>1, <1>3, <2>1 DEF Answers, Respond, MoveTo
<1>4. CASE FinishTasks(r)
  <2>1. RequestOK(r)'
    BY <1>0, <1>4 DEF FinishTasks, EndTasks, MoveTo, RequestOK, NotifyOK, table, history
  <2> QED
    BY <1>1, <1>4, <2>1 DEF FinishTasks, EndTasks, MoveTo, history
<1>5. CASE Flush(r)
  <2>1. RequestOK(r)'
    BY <1>0, <1>5 DEF Flush, Flushed, MoveTo, RequestOK, NotifyOK, table, history
  <2> QED
    BY <1>1, <1>5, <2>1 DEF Flush, Flushed, MoveTo, history
<1>6. CASE Deliver(r)
  <2>1. PICK n \in queued[r] : RunTask(r, n) /\ delivered' = delivered \cup {n}
    BY <1>6 DEF Deliver
  <2>2. call[r].op = "notify" /\ n = call[r].n /\ n \in told /\ phase[r] = "tasks" /\ queued[r] = {n}
    BY <2>1 DEF RequestOK, NotifyOK, RunTask
  <2>3. /\ OnlyRequest(r) /\ UNCHANGED <<table, call, written, told, phase>>
        /\ queued'[r] = {}
    BY <1>0, <1>6, <2>1, <2>2 DEF Deliver, RunTask, OnlyRequest
  <2>a. RequestOK(r)'
    BY <2>1, <2>2, <2>3 DEF RequestOK, NotifyOK, table
  <2>b. OneInbox(r)' /\ NotifiesAlone(r)'
    BY <2>2, <2>3 DEF OneInbox, NotifiesAlone
  <2>4. RequestOK(r)' /\ OneInbox(r)' /\ NotifiesAlone(r)'
    BY <2>a, <2>b
  <2>5. \A m \in Notes : rowLock[m] = r => HeldBy(m, r)'
    BY <1>0, <2>3 DEF HeldBy, HasConnection, table
  <2> QED
    BY <2>3, <2>4, <2>5, LocalStep
<1>7. CASE Commit(r)
  <2>1. TypeInv'
    BY <1>7, FinishTypeInv DEF Finish
  <2> QED
    BY <1>7, <2>1, ReleaseStep DEF Commit, EndCommitted, End, MoveTo
<1> QED
  BY <1>2, <1>3, <1>4, <1>5, <1>6, <1>7 DEF Finish

LEMMA StatementInboxInv == ASSUME IInv, NEW r \in Requests, Statement(r) PROVE InboxInv'
<1> DEFINE c == call[r]
<1> USE DEF IInv, InboxInv
<1>0. /\ c \in Call /\ Aimed(c) /\ RequestOK(r) /\ OneInbox(r) /\ NotifiesAlone(r) /\ r # NoRequest
      /\ queued \in [Requests -> SUBSET Tasks] /\ call \in [Requests -> Call]
      /\ row \in [Notes -> Row] /\ rowNew \in [Notes -> Row]
      /\ rowLock \in [Notes -> Requests \cup {NoRequest}]
      /\ delivered \subseteq told
      /\ \A n \in Notes : rowLock[n] = r => HeldBy(n, r)
  <2>1. \A n \in Notes : rowLock[n] = r => HeldBy(n, r)
    BY InboxAssumption DEF RowOK
  <2> QED
    BY <2>1, InboxAssumption DEF TypeInv, TypeOK, LifecycleType
<1>works. ASSUME NEW next, Works(r, next), UNCHANGED history,
                 queued' = queued \/ \E q : queued' = [queued EXCEPT ![r] = q]
          PROVE  /\ OnlyRequest(r) /\ call'[r] = next /\ phase[r] = "work" /\ phase' = phase
                 /\ UNCHANGED <<written, told, delivered>>
  BY <1>0, <1>works DEF Works, OnlyRequest, history
<1>lost. ASSUME Refuse(r) \/ DatabaseError(r) PROVE InboxInv'
  BY <1>lost, LoseInboxInv
<1>1. CASE Insert(r)
  <2> DEFINE n == c.n
  <2>1. /\ c.op = "notify" /\ c.stage = "write" /\ n \in Notes /\ n \in written
        /\ row[n].status = "absent" /\ queued[r] \subseteq {n}
    BY <1>0, <1>1 DEF Insert, RequestOK, NotifyOK, Aimed
  <2>2. [c EXCEPT !.stage = "done"].op = "notify" /\ [c EXCEPT !.stage = "done"].stage = "done"
        /\ [c EXCEPT !.stage = "done"].n = n
    BY <1>0, <2>1 DEF Call
  <2>3. /\ OnlyRequest(r) /\ call'[r] = [c EXCEPT !.stage = "done"] /\ phase[r] = "work"
        /\ phase' = phase /\ UNCHANGED <<written, told, delivered>>
    BY <1>1, <1>works DEF Insert
  <2>4. Write(r, n, Unread) /\ queued'[r] = {n}
    BY <1>0, <1>1, <2>1 DEF Insert
  <2>5. RequestOK(r)'
    BY <2>1, <2>2, <2>3, <2>4 DEF RequestOK, NotifyOK
  <2>6. OneInbox(r)' /\ NotifiesAlone(r)'
    BY <1>0, <2>1, <2>2, <2>3 DEF OneInbox, NotifiesAlone, OnlyRequest
  <2>7. \A m \in Notes : rowLock'[m] = r => m = n
    BY <1>0, <2>1, <2>4 DEF Write, HeldBy
  <2>8. rowNew'[n] = Unread /\ row' = row
    BY <1>0, <2>1, <2>4 DEF Write
  <2>9. \A m \in Notes : rowLock'[m] = r => HeldBy(m, r)'
    BY <2>1, <2>2, <2>3, <2>7, <2>8 DEF HeldBy, HasConnection
  <2>10. \A t \in Requests \ {r} : call[t].op = "notify" /\ call[t].stage = "write" => call[t].n # n
    BY <1>0, <2>1 DEF NotifiesAlone
  <2> QED
    BY <2>1, <2>3, <2>4, <2>5, <2>6, <2>9, <2>10, WriteStep
<1>2. CASE Load(r)
  <2>1. CASE Refuse(r)
    BY <1>lost, <2>1
  <2>2. CASE ~Refuse(r)
    <3> DEFINE next == [c EXCEPT !.saw = row[c.n], !.at = now, !.stage = AfterLoad(c.op, row[c.n])]
    <3>1. /\ Works(r, next) /\ UNCHANGED <<queued, table, history>> /\ Exists(row[c.n])
          /\ c.stage = "load" /\ c.op \in {"mark_read", "dismiss"}
      BY <1>2, <2>2 DEF Load
    <3>2. /\ next.op = c.op /\ next.stage = AfterLoad(c.op, row[c.n]) /\ next.saw = row[c.n] /\ next.n = c.n
      BY <1>0 DEF Call
    <3> HIDE DEF next
    <3>3. OnlyRequest(r) /\ call'[r] = next /\ phase[r] = "work" /\ phase' = phase /\ queued' = queued
      BY <1>works, <3>1
    <3>4. RequestOK(r)'
      <4>1. next.stage \in {"write", "done"} /\ (next.op = "mark_read" /\ next.stage = "write" => next.saw.status = "unread")
        BY <3>1, <3>2 DEF AfterLoad, Exists
      <4>2. row'[next.n].status # "absent" /\ queued'[r] = queued[r] /\ phase'[r] = "work"
        BY <3>1, <3>2, <3>3 DEF Exists, table
      <4> QED
        BY <1>0, <3>1, <3>2, <3>3, <4>1, <4>2 DEF RequestOK
    <3>5. OneInbox(r)' /\ NotifiesAlone(r)'
      BY <3>1, <3>2, <3>3 DEF OneInbox, NotifiesAlone
    <3>6. \A n \in Notes : rowLock[n] # r
      BY <1>0, <3>1 DEF HeldBy
    <3> QED
      BY <3>1, <3>3, <3>4, <3>5, <3>6, LocalStep
  <2> QED
    BY <2>1, <2>2
<1>3. CASE (MarkRead(r) \/ Dismiss(r)) /\ ~DatabaseError(r)
  <2> DEFINE n == c.n
  <2>1. PICK v :
          /\ Write(r, n, v) /\ Works(r, [c EXCEPT !.stage = "done"]) /\ UNCHANGED <<queued, history>>
          /\ c.stage = "write"
          /\ \/ c.op = "mark_read" /\ Exists(rowNew[n]) /\ v = ReadAt(c.at)
             \/ c.op = "dismiss" /\ v = Gone
    BY <1>3 DEF MarkRead, Dismiss
  <2>2. /\ n \in Notes /\ row[n].status # "absent" /\ queued[r] = {}
        /\ c.op = "mark_read" => c.saw.status = "unread"
    BY <1>0, <2>1 DEF Aimed, RequestOK
  <2>3. n \in written /\ rowLock[n] = NoRequest /\ rowNew[n] = row[n]
    BY <1>0, <2>1, <2>2 DEF Write, Granted, RowOK, HeldBy
  <2>4. /\ [c EXCEPT !.stage = "done"].op = c.op /\ [c EXCEPT !.stage = "done"].stage = "done"
        /\ [c EXCEPT !.stage = "done"].n = n /\ [c EXCEPT !.stage = "done"].saw = c.saw
    BY <1>0 DEF Call
  <2>5. /\ OnlyRequest(r) /\ call'[r] = [c EXCEPT !.stage = "done"] /\ phase[r] = "work"
        /\ phase' = phase /\ queued'[r] = {}
    BY <1>works, <2>1, <2>2
  <2>6. RequestOK(r)' /\ OneInbox(r)' /\ NotifiesAlone(r)'
    BY <2>1, <2>2, <2>4, <2>5 DEF RequestOK, OneInbox, NotifiesAlone
  <2>7. \A m \in Notes : rowLock'[m] = r => m = n
    BY <1>0, <2>1, <2>2 DEF Write, HeldBy
  <2>8. rowNew'[n] = v /\ row' = row
    BY <1>0, <2>1, <2>2 DEF Write
  <2>9. c.op = "mark_read" => v.status = "read"
    BY <2>1 DEF ReadAt
  <2>10. \A m \in Notes : rowLock'[m] = r => HeldBy(m, r)'
    BY <2>1, <2>2, <2>3, <2>4, <2>5, <2>7, <2>8, <2>9 DEF HeldBy, HasConnection
  <2>11. \A t \in Requests \ {r} : call[t].op = "notify" /\ call[t].stage = "write" => call[t].n # n
    BY <2>2 DEF RequestOK, NotifyOK
  <2> QED
    BY <2>1, <2>2, <2>3, <2>5, <2>6, <2>10, <2>11, WriteStep
<1>4. CASE Scan(r)
  <2>1. PICK person \in People : \E next \in Visit([c EXCEPT !.at = now], UnreadOf(person)) : Works(r, next)
    BY <1>4 DEF Scan
  <2>2. PICK next \in Visit([c EXCEPT !.at = now], UnreadOf(person)) : Works(r, next)
    BY <2>1
  <2>3. [c EXCEPT !.at = now] \in Call /\ [c EXCEPT !.at = now].op = "mark_all_read"
    BY <1>0, <1>4, CallEdits DEF Scan, TypeInv, TypeOK, Call
  <2>4. UnreadOf(person) \subseteq Notes /\ \A n \in UnreadOf(person) : AddresseeOf[n] = person
    BY DEF UnreadOf
  <2>5. /\ next.op = "mark_all_read" /\ next.stage \in {"done", "write"}
        /\ next.todo \subseteq UnreadOf(person) /\ next.n \in UnreadOf(person) \cup {NoNote}
    <3> DEFINE e == [c EXCEPT !.at = now]
    <3>1. e \in Call /\ e.op = "mark_all_read" /\ next \in Visit(e, UnreadOf(person))
          /\ UnreadOf(person) \in SUBSET Notes
      BY <2>2, <2>3, <2>4
    <3> HIDE DEF e
    <3> QED
      BY <3>1, VisitFacts
  <2>6. /\ OnlyRequest(r) /\ call'[r] = next /\ phase[r] = "work" /\ phase' = phase
        /\ UNCHANGED <<queued, table>> /\ c.op = "mark_all_read" /\ c.stage = "load"
    BY <1>4, <1>works, <2>2 DEF Scan
  <2>7. RequestOK(r)' /\ NotifiesAlone(r)'
    BY <1>0, <2>5, <2>6 DEF RequestOK, NotifiesAlone
  <2>8. \A n \in Notes : rowLock[n] # r
    BY <1>0, <2>6 DEF HeldBy
  <2>9. Visited(r)' \subseteq UnreadOf(person)
    BY <2>5, <2>6, <2>8, InboxAssumption DEF Visited, table
  <2>10. OneInbox(r)'
    BY <2>4, <2>9 DEF OneInbox
  <2> QED
    BY <2>6, <2>7, <2>8, <2>10, LocalStep
<1>5. CASE StampOne(r)
  <2> DEFINE n == c.n
  <2>1. PICK next \in Visit(c, c.todo) : Works(r, next)
    BY <1>5 DEF StampOne
  <2>2. c.op = "mark_all_read" /\ c.stage = "write" /\ n \in Notes /\ c.todo \subseteq Notes
    BY <1>0, <1>5 DEF StampOne, Aimed, Call
  <2>3. /\ next.op = "mark_all_read" /\ next.stage \in {"done", "write"}
        /\ next.todo \subseteq c.todo /\ next.n \in c.todo \cup {NoNote}
    BY <1>0, <2>2, VisitFacts
  <2>4. /\ OnlyRequest(r) /\ call'[r] = next /\ phase[r] = "work" /\ phase' = phase
        /\ UNCHANGED queued
    BY <1>5, <1>works, <2>1 DEF StampOne
  <2>5. RequestOK(r)' /\ NotifiesAlone(r)'
    BY <1>0, <2>2, <2>3, <2>4 DEF RequestOK, NotifiesAlone
  <2>6. CASE UNCHANGED table
    <3>1. Visited(r)' \subseteq Visited(r)
      BY <2>2, <2>3, <2>4, <2>6, InboxAssumption DEF Visited, table
    <3>2. OneInbox(r)'
      BY <1>0, <2>2, <3>1 DEF OneInbox
    <3>3. \A m \in Notes : rowLock[m] = r => HeldBy(m, r)'
      BY <1>0, <2>2, <2>3, <2>4, <2>6 DEF HeldBy, HasConnection, table
    <3> QED
      BY <2>4, <2>5, <2>6, <3>2, <3>3, LocalStep
  <2>7. CASE ~UNCHANGED table
    <3>1. Write(r, n, ReadAt(c.at)) /\ rowNew[n].status = "unread"
      BY <1>5, <2>7 DEF StampOne
    <3>2. rowLock[n] = NoRequest /\ row[n].status = "unread" /\ n \in written
      BY <1>0, <2>2, <3>1 DEF Write, Granted, RowOK, HeldBy
    <3>3. /\ row' = row /\ rowNew'[n].status = "read"
          /\ \A m \in Notes \ {n} : rowLock'[m] = rowLock[m] /\ rowNew'[m] = rowNew[m]
      BY <1>0, <2>2, <3>1 DEF Write, ReadAt
    <3>4. Visited(r)' \subseteq Visited(r)
      BY <2>2, <2>3, <2>4, <3>3, InboxAssumption DEF Visited
    <3>5. OneInbox(r)'
      BY <1>0, <2>2, <3>4 DEF OneInbox
    <3>6. \A m \in Notes : rowLock'[m] = r => HeldBy(m, r)'
      BY <1>0, <2>2, <2>3, <2>4, <3>2, <3>3 DEF HeldBy, HasConnection
    <3>7. \A t \in Requests \ {r} : call[t].op = "notify" /\ call[t].stage = "write" => call[t].n # n
      BY <3>2 DEF RequestOK, NotifyOK
    <3> QED
      BY <2>2, <2>4, <2>5, <3>1, <3>2, <3>5, <3>6, <3>7, WriteStep
  <2> QED
    BY <2>6, <2>7
<1> QED
  BY <1>lost, <1>1, <1>2, <1>3, <1>4, <1>5 DEF Statement

LEMMA NextInboxInv == IInv /\ [Next]_vars => IInv'
<1> SUFFICES ASSUME IInv, [Next]_vars PROVE InboxInv'
  BY NextTypeInv DEF IInv
<1>1. CASE Tick \/ UNCHANGED vars
  <2>1. UNCHANGED <<lifecycle, table, call, history>>
    BY <1>1 DEF Tick, vars
  <2> QED
    BY <2>1 DEF IInv, InboxInv, RowOK, HeldBy, RequestOK, NotifyOK, OneInbox, Visited, NotifiesAlone,
                HasConnection, lifecycle, table, history
<1>2. ASSUME NEW r \in Requests,
             Start(r) \/ TakeConnection(r) \/ Statement(r) \/ Finish(r) \/ Lose(r) \/ DatabaseError(r)
      PROVE  InboxInv'
  BY <1>2, StartInboxInv, FinishInboxInv, StatementInboxInv, LoseInboxInv
<1> QED
  BY <1>1, <1>2 DEF Next

LEMMA Inductive == Spec => []IInv
BY InitInboxInv, NextInboxInv, PTL DEF Spec

-----------------------------------------------------------------------------
(* What follows *)

\* A delivery never speaks of a call that was refused or not yet answered, and what
\* an inbox shows has been delivered: session.py:151 comes after tasks.py:82.
THEOREM DeliveryOrder == Spec => []AnsweredDeliveredCommitted
<1>1. IInv => AnsweredDeliveredCommitted
  BY DEF IInv, InboxInv, RowOK, AnsweredDeliveredCommitted
<1> QED
  BY <1>1, Inductive, PTL

\* Whatever the size of the pool, requests block each other for good only around
\* two mark_all_read(): who waits for a connection holds no row, and no other call
\* waits for a row while it holds one.
THEOREM Gridlock == Spec => []GridlockNeedsTwoBulkUpdates
<1>1. ASSUME IInv, NEW C \in SUBSET Requests, Gridlocked(C)
      PROVE  \E r, t \in C : r # t /\ call[r].op = "mark_all_read" /\ call[t].op = "mark_all_read"
  <2>1. ASSUME NEW r \in C, NEW n \in Notes, rowLock[n] = r
        PROVE  HasConnection(r) /\ (AwaitsRow(r) => call[r].op = "mark_all_read")
    <3>1. HeldBy(n, r)
      BY <1>1, <2>1, InboxAssumption DEF IInv, InboxInv, RowOK
    <3> QED
      BY <3>1 DEF HeldBy, AwaitsRow
  <2>2. ASSUME NEW r \in C, HasConnection(r)
        PROVE  AwaitsRow(r) /\ rowLock[call[r].n] \in C \ {r} /\ call[r].n \in Notes
    <3>1. AwaitsRow(r) /\ rowLock[call[r].n] \in C \ {r}
      BY <1>1, <2>2 DEF Gridlocked, HasConnection, NeedsConnection
    <3> QED
      BY <1>1, <3>1 DEF AwaitsRow, IInv, TypeInv, Aimed
  <2>3. \E r \in C : HasConnection(r)
    <3>1. PICK r \in C : TRUE
      BY <1>1 DEF Gridlocked
    <3>2. CASE AwaitsRow(r)
      BY <3>2 DEF AwaitsRow, HasConnection
    <3>3. CASE PoolIsEmpty /\ \A t \in Requests : HasConnection(t) => t \in C
      <4>1. {t \in Requests : HasConnection(t)} # {}
        BY <3>3, FS_EmptySet, LifecycleAssumption DEF PoolIsEmpty
      <4> QED
        BY <3>3, <4>1
    <3> QED
      BY <1>1, <3>2, <3>3 DEF Gridlocked
  <2>4. PICK r \in C : HasConnection(r)
    BY <2>3
  <2> DEFINE t == rowLock[call[r].n]
             u == rowLock[call[t].n]
  <2>5. call[r].n \in Notes /\ t \in C
    BY <2>2, <2>4
  <2>6. HasConnection(t)
    BY <2>1, <2>5
  <2>7. AwaitsRow(t) /\ call[t].n \in Notes /\ u \in C \ {t}
    BY <2>2, <2>5, <2>6
  <2>8. call[t].op = "mark_all_read"
    BY <2>1, <2>5, <2>7
  <2>9. HasConnection(u)
    BY <2>1, <2>7
  <2>10. AwaitsRow(u)
    BY <2>2, <2>7, <2>9
  <2>11. call[u].op = "mark_all_read"
    BY <2>1, <2>7, <2>10
  <2> QED
    BY <2>5, <2>7, <2>8, <2>11
<1>2. IInv => GridlockNeedsTwoBulkUpdates
  BY <1>1 DEF GridlockNeedsTwoBulkUpdates
<1> QED
  BY <1>2, Inductive, PTL

\* Only a commit changes what is committed, and only in the rows it holds.
LEMMA Committed ==
    ASSUME IInv, [Next]_vars, row' # row
    PROVE  \E r \in Requests :
              /\ phase[r] = "commit" /\ phase'[r] = "idle"
              /\ row' = [n \in Notes |-> IF rowLock[n] = r THEN rowNew[n] ELSE row[n]]
              /\ \A n \in Notes : rowLock[n] = r => HeldBy(n, r)
              /\ OneInbox(r)
<1>1. PICK r \in Requests : Commit(r)
  BY DEF Next, vars, table, Tick, Start, BeginNotify, BeginOne, BeginAll, Begin, TakeConnection,
         Statement, Insert, Load, MarkRead, Dismiss, Scan, StampOne, Refuse, DatabaseError, RollBack,
         Write, Finish, Answers, Deliver, FinishTasks, Flush, Lose
<1>2. \A n \in Notes : rowLock[n] = r => HeldBy(n, r)
  BY InboxAssumption DEF IInv, InboxInv, RowOK
<1>3. phase[r] = "commit" /\ phase'[r] = "idle"
  BY <1>1 DEF Commit, EndCommitted, End, MoveTo, IInv, TypeInv, TypeOK, LifecycleType
<1> QED
  BY <1>1, <1>2, <1>3 DEF Commit, IInv, InboxInv

\* notifications/service.py:120: the moment of the first read is rewritten only by a
\* mark_read() that had loaded the row before that read was committed.
THEOREM Rewrites == Spec => RewriteNeedsARace
<1>1. ASSUME IInv, [Next]_vars, NEW n \in Notes,
             row[n].status = "read", row'[n] # row[n], row'[n].status = "read"
      PROVE  \E r \in Requests :
                /\ phase[r] = "commit" /\ phase'[r] = "idle"
                /\ call[r].op = "mark_read" /\ call[r].n = n
                /\ call[r].saw.status = "unread"
  <2>1. PICK r \in Requests :
            /\ phase[r] = "commit" /\ phase'[r] = "idle"
            /\ row' = [m \in Notes |-> IF rowLock[m] = r THEN rowNew[m] ELSE row[m]]
            /\ \A m \in Notes : rowLock[m] = r => HeldBy(m, r)
    BY <1>1, Committed
  <2>2. rowLock[n] = r /\ rowNew[n].status = "read" /\ HeldBy(n, r)
    BY <1>1, <2>1
  <2>3. call[r].op = "mark_read" /\ call[r].n = n /\ call[r].saw.status = "unread"
    BY <1>1, <2>2 DEF HeldBy, Gone
  <2> QED
    BY <2>1, <2>3
<1>2. IInv /\ [Next]_vars =>
          [\A n \in Notes :
              row[n].status = "read" /\ row'[n] # row[n] /\ row'[n].status = "read" =>
                  \E r \in Requests :
                      /\ phase[r] = "commit" /\ phase'[r] = "idle"
                      /\ call[r].op = "mark_read" /\ call[r].n = n
                      /\ call[r].saw.status = "unread"]_vars
  BY <1>1
<1> QED
  BY <1>2, Inductive, PTL DEF Spec, RewriteNeedsARace

\* The inbox of overlapping requests implements the promise: a commit delivers one
\* notification, reads some of one person's, dismisses one, or changes nothing.
THEOREM Refinement == Spec => KeepsPromise
<1> DEFINE box == [n \in Notes |-> row[n].status]
<1>1. Init => Promise!Init
  BY DEF Init, Promise!Init, Absent
<1>2. ASSUME IInv, [Next]_vars PROVE [Promise!Next]_box
  <2>1. CASE row' = row
    BY <2>1
  <2>2. CASE row' # row
    <3>0. ASSUME NEW some \in SUBSET Notes, Promise!Read(some) PROVE Promise!Next
      BY <3>0 DEF Promise!Next
    <3>1. PICK r \in Requests :
            /\ row' = [n \in Notes |-> IF rowLock[n] = r THEN rowNew[n] ELSE row[n]]
            /\ \A n \in Notes : rowLock[n] = r => HeldBy(n, r)
            /\ OneInbox(r)
      BY <1>2, <2>2, Committed
    <3>2. \A n \in Notes : box[n] = row[n].status /\ box'[n] = row'[n].status
      OBVIOUS
    <3>3. box = [n \in Notes |-> box[n]] /\ box' = [n \in Notes |-> box'[n]]
      OBVIOUS
    <3>4. \A n \in Notes : box'[n] = IF rowLock[n] = r THEN rowNew[n].status ELSE box[n]
      BY <3>1, <3>2
    <3>5. CASE call[r].op = "mark_all_read"
      <4> DEFINE S == {n \in Notes : rowLock[n] = r}
      <4>1. \A n \in S : box[n] = "unread" /\ rowNew[n].status = "read"
        BY <3>1, <3>2, <3>5 DEF HeldBy
      <4>2. \A n, m \in S : AddresseeOf[n] = AddresseeOf[m]
        BY <3>1, <3>5 DEF OneInbox, Visited
      <4>3. box' = [n \in Notes |-> IF n \in S THEN "read" ELSE box[n]]
        BY <3>3, <3>4, <4>1
      <4>4. PICK some \in SUBSET Notes : some = S
        OBVIOUS
      <4>5. Promise!Read(some)
        BY <4>1, <4>2, <4>3, <4>4 DEF Promise!Read
      <4> QED
        BY <3>0, <4>5
    <3>6. CASE call[r].op # "mark_all_read"
      <4>1. PICK n \in Notes : rowLock[n] = r
        <5>1. row = [n \in Notes |-> row[n]]
          BY <1>2 DEF IInv, TypeInv, TypeOK
        <5> QED
          BY <2>2, <3>1, <5>1
      <4>2. /\ HeldBy(n, r)
            /\ \A m \in Notes : rowLock[m] = r => m = n
        BY <3>1, <3>6, <4>1 DEF HeldBy
      <4>3. /\ box' = [box EXCEPT ![n] = rowNew[n].status]
            /\ box' = [m \in Notes |-> IF m \in {n} THEN rowNew[n].status ELSE box[m]]
        BY <3>3, <3>4, <4>1, <4>2
      <4>4. row[n].status \in {"absent", "unread", "read", "gone"}
        <5>1. row[n] \in Row
          BY <1>2 DEF IInv, TypeInv, TypeOK
        <5> QED
          BY <5>1 DEF Row
      <4>5. CASE rowNew[n].status = box[n]
        BY <4>3, <4>5, <3>3
      <4>6. CASE box[n] = "absent" /\ rowNew[n].status = "unread"
        BY <4>3, <4>6 DEF Promise!Next, Promise!Receive
      <4>7. CASE box[n] = "unread" /\ rowNew[n].status = "read"
        <5>1. Promise!Read({n})
          BY <4>3, <4>7 DEF Promise!Read
        <5> QED
          BY <3>0, <5>1
      <4>8. CASE box[n] \in {"unread", "read"} /\ rowNew[n].status = "gone"
        BY <4>3, <4>8 DEF Promise!Next, Promise!Dismiss
      <4> HIDE DEF box
      <4>9. box[n] = row[n].status
        BY <3>2
      <4> QED
        BY <3>6, <4>2, <4>4, <4>5, <4>6, <4>7, <4>8, <4>9 DEF HeldBy, Exists, Unread, Gone
    <3> QED
      BY <3>5, <3>6
  <2> QED
    BY <2>1, <2>2
<1> QED
  BY <1>1, <1>2, Inductive, PTL DEF Spec, KeepsPromise, Promise!Spec

\* dismiss() and mark_read() of rows loaded earlier: what was dismissed stays gone,
\* and what was read is not unread again.
THEOREM NothingComesBack ==
    Spec => [][\A n \in Notes :
                 /\ row[n].status = "gone" => row'[n].status = "gone"
                 /\ row[n].status = "read" => row'[n].status \in {"read", "gone"}]_row
<1> DEFINE box == [n \in Notes |-> row[n].status]
<1>1. [Promise!Next]_box =>
        [\A n \in Notes :
           /\ row[n].status = "gone" => row'[n].status = "gone"
           /\ row[n].status = "read" => row'[n].status \in {"read", "gone"}]_row
  <2> SUFFICES ASSUME [Promise!Next]_box, NEW n \in Notes
               PROVE  /\ box[n] = "gone" => box'[n] = "gone"
                      /\ box[n] = "read" => box'[n] \in {"read", "gone"}
    OBVIOUS
  <2>1. ASSUME NEW m \in Notes, Promise!Receive(m) \/ Promise!Dismiss(m)
        PROVE  box'[n] = box[n] \/ (m = n /\ box[n] = "absent") \/ box'[n] = "gone"
    BY <2>1 DEF Promise!Receive, Promise!Dismiss
  <2>2. ASSUME NEW S \in SUBSET Notes, Promise!Read(S)
        PROVE  box'[n] = box[n] \/ box[n] = "unread"
    BY <2>2 DEF Promise!Read
  <2> QED
    BY <2>1, <2>2 DEF Promise!Next
<1> QED
  BY <1>1, Refinement, PTL DEF KeepsPromise, Promise!Spec
=============================================================================
