-------------------------------- MODULE Inbox --------------------------------
(***************************************************************************)
(* The notifications table under overlapping requests: a donation call     *)
(* inserts a notification and queues its delivery, the addressee marks it  *)
(* read, marks the whole inbox read, or dismisses it. Every request goes   *)
(* through RequestLifecycle, so what one has written is committed only     *)
(* after its client has the answer.                                        *)
(*                                                                         *)
(* PostgreSQL at READ COMMITTED, as in RequestTransactions: reads take no  *)
(* lock; UPDATE and DELETE wait for the row, keep its lock until the end   *)
(* of the transaction, and evaluate their WHERE clause again once they     *)
(* have it. A service call decides on the entity it loaded.                *)
(*                                                                         *)
(* A notification is known by its id, which is never used again. Its text, *)
(* kind and donation matter to nothing here.                               *)
(***************************************************************************)
EXTENDS RequestLifecycle

CONSTANTS
    Notes,         \* notifications that can be written
    AddresseeOf,   \* AddresseeOf[n]: whose inbox n is in
    Horizon,       \* the clock stops here: the bound of the model
    NoRequest, NoNote

People == {AddresseeOf[n] : n \in Notes}

ASSUME InboxAssumption ==
    /\ Tasks = Notes
    /\ Horizon \in Nat
    /\ NoRequest \notin Requests
    /\ NoNote \notin Notes

VARIABLES
    now,         \* utcnow()
    row,         \* row[n]: the committed row
    rowLock,     \* rowLock[n]: the request that holds the row's lock
    rowNew,      \* rowNew[n]: the row's latest version: its lock holder's, or the committed one
    call,        \* call[r]: what the handler in r does and has loaded
    written,     \* the ids that have been given out
    told,        \* told: the ids whose donation call was answered with success
    delivered    \* the ids whose delivery has run

table == <<row, rowLock, rowNew>>
history == <<written, told, delivered>>
vars == <<lifecycle, now, table, call, history>>

Time == 0..Horizon

\* Only a read row has a read_at.
Row == {r \in [status : {"absent", "unread", "read", "gone"}, readAt : Time] :
            r.status # "read" => r.readAt = 0}

Absent == [status |-> "absent", readAt |-> 0]

\* Mutant: a notification is inserted with its read_at set.
UnreadStamped == [status |-> "unread", readAt |-> Horizon]

Unread == [status |-> "unread", readAt |-> 0]

Gone == [status |-> "gone", readAt |-> 0]

ReadAt(t) == [status |-> "read", readAt |-> t]

Exists(entity) == entity.status \in {"unread", "read"}

Call ==
    [ op : {"none", "notify", "mark_read", "mark_all_read", "dismiss"},
      stage : {"load", "write", "done"},
      n : Notes \cup {NoNote},
      saw : Row,
      at : Time,
      todo : SUBSET Notes ]

NoCall == [op |-> "none", stage |-> "done", n |-> NoNote, saw |-> Absent, at |-> 0, todo |-> {}]

TypeOK ==
    /\ LifecycleType
    /\ now \in Time
    /\ row \in [Notes -> Row]
    /\ rowLock \in [Notes -> Requests \cup {NoRequest}]
    /\ rowNew \in [Notes -> Row]
    /\ call \in [Requests -> Call]
    /\ written \subseteq Notes
    /\ told \subseteq Notes
    /\ delivered \subseteq Notes

Init ==
    /\ LifecycleInit
    /\ now = 0
    /\ row = [n \in Notes |-> Absent]
    /\ rowLock = [n \in Notes |-> NoRequest]
    /\ rowNew = row
    /\ call = [r \in Requests |-> NoCall]
    /\ written = {}
    /\ told = {}
    /\ delivered = {}

-----------------------------------------------------------------------------
(* Requests and row locks *)

Begin(r, first) ==
    /\ Arrive(r)
    /\ call' = [call EXCEPT ![r] = first]
    /\ UNCHANGED <<now, table, told, delivered>>

TakeConnection(r) ==
    /\ Connect(r)
    /\ UNCHANGED <<now, table, call, history>>

\* The handler makes one statement, and stays in the handler.
Works(r, next) ==
    /\ phase[r] = "work"
    /\ call' = [call EXCEPT ![r] = next]
    /\ UNCHANGED <<phase, answer, now>>

Granted(n, r) == rowLock[n] \in {NoRequest, r}

Write(r, n, version) ==
    /\ Granted(n, r)
    /\ rowLock' = [rowLock EXCEPT ![n] = r]
    /\ rowNew' = [rowNew EXCEPT ![n] = version]
    /\ UNCHANGED row

\* What r holds goes: to the committed table first, when it commits.
Release(r) ==
    /\ rowLock' = [n \in Notes |-> IF rowLock[n] = r THEN NoRequest ELSE rowLock[n]]
    /\ rowNew' = [n \in Notes |-> IF rowLock[n] = r THEN row'[n] ELSE rowNew[n]]
    /\ call' = [call EXCEPT ![r] = NoCall]
    /\ UNCHANGED now

RollBack(r) ==
    /\ UNCHANGED <<row, history>>
    /\ Release(r)

Commit(r) ==
    /\ EndCommitted(r)
    /\ row' = [n \in Notes |-> IF rowLock[n] = r THEN rowNew[n] ELSE row[n]]
    /\ Release(r)
    /\ UNCHANGED history

Refuse(r) == Raise(r, "refused") /\ RollBack(r)

DatabaseError(r) == Raise(r, "unavailable") /\ RollBack(r)

-----------------------------------------------------------------------------
(* NotificationService._create, the last thing a donation call does *)

BeginNotify(r, n) ==
    /\ n \notin written
    /\ written' = written \cup {n}
    /\ Begin(r, [NoCall EXCEPT !.op = "notify", !.stage = "write", !.n = n])

\* Mutant: the email goes out at once, in place of being queued.
InsertAndSend(r) ==
    LET c == call[r] IN
    /\ c.op = "notify" /\ c.stage = "write"
    /\ Write(r, c.n, Unread)
    /\ delivered' = delivered \cup {c.n}
    /\ Works(r, [c EXCEPT !.stage = "done"])
    /\ UNCHANGED <<queued, written, told>>

\* The row is flushed and its delivery queued; nobody else sees the row yet.
Insert(r) ==
    LET c == call[r] IN
    /\ c.op = "notify" /\ c.stage = "write"
    /\ Write(r, c.n, Unread)
    /\ queued' = [queued EXCEPT ![r] = @ \cup {c.n}]
    /\ Works(r, [c EXCEPT !.stage = "done"])
    /\ UNCHANGED history

-----------------------------------------------------------------------------
(* mark_read and dismiss: load the entity, then write *)

BeginOne(r, op, n) ==
    /\ n \in written
    /\ Begin(r, [NoCall EXCEPT !.op = op, !.stage = "load", !.n = n])
    /\ UNCHANGED written

\* Mutant: read_at is always set.
AfterLoadAlways(op, entity) == "write"

\* mark_read() leaves a row alone that it has seen read.
AfterLoad(op, entity) ==
    IF op = "mark_read" /\ entity.status = "read" THEN "done" ELSE "write"

\* get() returns None, or the entity (somebody else's is refused like none at all); utcnow() is evaluated for the UPDATE.
Load(r) ==
    LET c == call[r] IN
    /\ c.stage = "load" /\ c.op \in {"mark_read", "dismiss"}
    /\ \/ ~Exists(row[c.n]) /\ Refuse(r)
       \/ /\ Exists(row[c.n])
          /\ Works(r, [c EXCEPT !.saw = row[c.n], !.at = now,
                                !.stage = AfterLoad(c.op, row[c.n])])
          /\ UNCHANGED <<queued, table, history>>

\* Mutant: session.merge() of the loaded entity: a row that is gone is inserted again.
MarkReadMerged(r) ==
    LET c == call[r] IN
    /\ c.stage = "write" /\ c.op = "mark_read"
    /\ Write(r, c.n, ReadAt(c.at))
    /\ Works(r, [c EXCEPT !.stage = "done"])
    /\ UNCHANGED <<queued, history>>

\* UPDATE ... WHERE id: no row matched means StaleDataError.
MarkRead(r) ==
    LET c == call[r] IN
    /\ c.stage = "write" /\ c.op = "mark_read"
    /\ Granted(c.n, r)
    /\ \/ ~Exists(rowNew[c.n]) /\ DatabaseError(r)
       \/ /\ Exists(rowNew[c.n])
          /\ Write(r, c.n, ReadAt(c.at))
          /\ Works(r, [c EXCEPT !.stage = "done"])
          /\ UNCHANGED <<queued, history>>

\* DELETE ... WHERE id: no row matched is only a warning.
Dismiss(r) ==
    LET c == call[r] IN
    /\ c.stage = "write" /\ c.op = "dismiss"
    /\ Write(r, c.n, Gone)
    /\ Works(r, [c EXCEPT !.stage = "done"])
    /\ UNCHANGED <<queued, history>>

-----------------------------------------------------------------------------
(* mark_all_read: one UPDATE over what its snapshot shows unread *)

UnreadOf(person) ==
    {n \in Notes : AddresseeOf[n] = person /\ row[n].status = "unread"}

BeginAll(r) ==
    /\ Begin(r, [NoCall EXCEPT !.op = "mark_all_read", !.stage = "load"])
    /\ UNCHANGED written

\* Visit the next row of the snapshot, or be done.
Visit(c, todo) ==
    IF todo = {} THEN {[c EXCEPT !.n = NoNote, !.todo = {}, !.stage = "done"]}
    ELSE {[c EXCEPT !.n = n, !.todo = todo \ {n}, !.stage = "write"] : n \in todo}

Scan(r) ==
    LET c == call[r] IN
    /\ c.stage = "load" /\ c.op = "mark_all_read"
    /\ \E person \in People : \E next \in Visit([c EXCEPT !.at = now], UnreadOf(person)) :
          Works(r, next)
    /\ UNCHANGED <<queued, table, history>>

StampOne(r) ==
    LET c == call[r] IN
    /\ c.stage = "write" /\ c.op = "mark_all_read"
    /\ Granted(c.n, r)
    /\ IF rowNew[c.n].status = "unread"
       THEN Write(r, c.n, ReadAt(c.at))
       ELSE UNCHANGED table
    /\ \E next \in Visit(c, c.todo) : Works(r, next)
    /\ UNCHANGED <<queued, history>>

-----------------------------------------------------------------------------
(* The rest of the request *)

Answers(r) ==
    /\ Respond(r)
    /\ call[r].stage = "done"
    /\ told' = IF call[r].op = "notify" THEN told \cup {call[r].n} ELSE told
    /\ UNCHANGED <<now, table, call, written, delivered>>

Deliver(r) ==
    \E n \in queued[r] :
        /\ RunTask(r, n)
        /\ delivered' = delivered \cup {n}
        /\ UNCHANGED <<now, table, call, written, told>>

FinishTasks(r) ==
    /\ EndTasks(r)
    /\ UNCHANGED <<now, table, call, history>>

\* Nothing is pending: every statement was flushed by the repository.
Flush(r) ==
    /\ Flushed(r)
    /\ UNCHANGED <<now, table, call, history>>

\* Everything that undoes a request from outside its handler.
Lose(r) ==
    /\ PoolTimeout(r) \/ TaskRaises(r) \/ CommitFails(r) \/ Die(r)
    /\ RollBack(r)

Tick ==
    /\ now < Horizon
    /\ now' = now + 1
    /\ UNCHANGED <<lifecycle, table, call, history>>

Start(r) ==
    \/ \E n \in Notes : \/ BeginNotify(r, n)
                        \/ \E op \in {"mark_read", "dismiss"} : BeginOne(r, op, n)
    \/ BeginAll(r)

Statement(r) ==
    \/ Insert(r)
    \/ Load(r)
    \/ MarkRead(r)
    \/ Dismiss(r)
    \/ Scan(r)
    \/ StampOne(r)

Finish(r) ==
    \/ Answers(r)
    \/ Deliver(r)
    \/ FinishTasks(r)
    \/ Flush(r)
    \/ Commit(r)

Next ==
    \/ Tick
    \/ \E r \in Requests :
        \/ Start(r) \/ TakeConnection(r) \/ Statement(r) \/ Finish(r)
        \/ Lose(r) \/ DatabaseError(r)

Spec == Init /\ [][Next]_vars

-----------------------------------------------------------------------------
(* Waiting *)

AwaitsRow(r) ==
    phase[r] = "work" /\ call[r].stage = "write" /\ call[r].op # "notify"

\* Nobody in C can go on before somebody in C does: the row each waits for is
\* held inside C, or the pool is empty and every connection is.
Gridlocked(C) ==
    /\ C # {}
    /\ \A r \in C :
        \/ AwaitsRow(r) /\ rowLock[call[r].n] \in C \ {r}
        \/ /\ NeedsConnection(r) /\ PoolIsEmpty
           /\ \A t \in Requests : HasConnection(t) => t \in C

-----------------------------------------------------------------------------
(* What holds *)

\* The order of session.py:151 and tasks.py:82 as FastAPI runs them: answer, then
\* delivery, then commit. No delivery speaks of a call that was refused, however
\* late the refusal; no notification is in an inbox whose delivery was skipped.
AnsweredDeliveredCommitted ==
    /\ delivered \subseteq told
    /\ \A n \in Notes : row[n].status # "absent" => n \in delivered

\* notifications/service.py:120 "already-read notifications keep their original
\* read_at": kept, unless a mark_read() loaded the row before the first read was
\* committed. Neither mark_all_read() nor a later mark_read() rewrites it.
RewriteNeedsARace ==
    [][\A n \in Notes :
        row[n].status = "read" /\ row'[n] # row[n] /\ row'[n].status = "read" =>
            \E r \in Requests :
                /\ phase[r] = "commit" /\ phase'[r] = "idle"
                /\ call[r].op = "mark_read" /\ call[r].n = n
                /\ call[r].saw.status = "unread"]_vars

\* The pool and the row locks together: requests block each other for good only
\* when two bulk UPDATEs do. A request that waits for a connection holds no row,
\* and no other service call waits for a row while it holds one.
GridlockNeedsTwoBulkUpdates ==
    \A C \in SUBSET Requests :
        Gridlocked(C) =>
            \E r, t \in C :
                r # t /\ call[r].op = "mark_all_read" /\ call[t].op = "mark_all_read"

\* However requests overlap, the committed rows are an inbox that keeps its promise.
Promise == INSTANCE InboxPromise WITH box <- [n \in Notes |-> row[n].status]

KeepsPromise == Promise!Spec

-----------------------------------------------------------------------------
(* A statement of the code's documentation that the order refutes *)

\* notifications/tasks.py:113 "By the time this runs, the request's session is
\* committed and closed."
DeliveredIsCommitted == \A n \in delivered : row[n].status # "absent"
=============================================================================
