--------------------------- MODULE RequestLifecycle --------------------------
(***************************************************************************)
(* The life of one HTTP request around its handler: a database connection  *)
(* from the pool, the handler, the answer, the background tasks it queued, *)
(* and the end of its transaction, in the order FastAPI runs them: the     *)
(* response is sent and its background tasks run inside the exit stack     *)
(* that holds get_db, so get_db commits last. When the handler raises, the *)
(* stack unwinds first (get_db rolls back) and the exception handlers      *)
(* answer afterwards; the queued tasks are dropped with the response they  *)
(* belonged to.                                                            *)
(*                                                                         *)
(* A session takes its connection with its first statement and gives it    *)
(* back when it is closed. The engine hands out PoolSize of them           *)
(* (pool_size + max_overflow); a request waits for one, at most            *)
(* pool_timeout seconds.                                                   *)
(*                                                                         *)
(* What the handler does is for the modules that extend this one: each     *)
(* gives the steps of "work" and "flush" and says what a commit publishes. *)
(***************************************************************************)
EXTENDS Naturals, FiniteSets

CONSTANTS
    Requests,      \* requests that can be in flight at once
    PoolSize,      \* connections the engine hands out
    Tasks,         \* background tasks that can be queued
    TasksMayFail   \* whether a background task can raise

ASSUME LifecycleAssumption ==
    /\ PoolSize \in Nat \ {0}
    /\ TasksMayFail \in BOOLEAN

VARIABLES
    phase,     \* phase[r]: how far the request in r has come
    answer,    \* answer[r]: what its client has been told
    queued     \* queued[r]: the tasks BackgroundTasks holds for it

lifecycle == <<phase, answer, queued>>

Phase == {"idle", "connect", "work", "tasks", "flush", "commit"}

\* ok; the 4xx of an AppError; the 5xx of anything else, the database first.
Answer == {"none", "ok", "refused", "unavailable"}

LifecycleType ==
    /\ phase \in [Requests -> Phase]
    /\ answer \in [Requests -> Answer]
    /\ queued \in [Requests -> SUBSET Tasks]

LifecycleInit ==
    /\ phase = [r \in Requests |-> "idle"]
    /\ answer = [r \in Requests |-> "none"]
    /\ queued = [r \in Requests |-> {}]

-----------------------------------------------------------------------------
(* The pool *)

\* Mutant: a background task that needs the database opens a session of its own.
TasksNeedConnection(r) ==
    \/ phase[r] = "connect"
    \/ phase[r] = "tasks" /\ queued[r] # {}

NeedsConnection(r) == phase[r] = "connect"

HasConnection(r) == phase[r] \in {"work", "tasks", "flush", "commit"}

PoolIsEmpty == Cardinality({r \in Requests : HasConnection(r)}) >= PoolSize

-----------------------------------------------------------------------------
(* One request *)

MoveTo(r, p) == phase' = [phase EXCEPT ![r] = p]

Tell(r, what) == answer' = [answer EXCEPT ![r] = what]

Arrive(r) ==
    /\ phase[r] = "idle"
    /\ MoveTo(r, "connect")
    /\ Tell(r, "none")
    /\ UNCHANGED queued

Connect(r) ==
    /\ phase[r] = "connect"
    /\ ~PoolIsEmpty
    /\ MoveTo(r, "work")
    /\ UNCHANGED <<answer, queued>>

\* The session is closed: connection, uncommitted rows and queued tasks go.
End(r) ==
    /\ MoveTo(r, "idle")
    /\ queued' = [queued EXCEPT ![r] = {}]

\* get_db rolls back, then the handler for the exception's class answers.
Raise(r, what) ==
    /\ phase[r] = "work"
    /\ End(r)
    /\ Tell(r, what)

\* sqlalchemy.exc.TimeoutError, before the handler ran.
PoolTimeout(r) ==
    /\ phase[r] = "connect"
    /\ PoolIsEmpty
    /\ End(r)
    /\ Tell(r, "unavailable")

\* The handler has returned; the response goes out.
Respond(r) ==
    /\ phase[r] = "work"
    /\ MoveTo(r, "tasks")
    /\ Tell(r, "ok")
    /\ UNCHANGED queued

RunTask(r, t) ==
    /\ phase[r] = "tasks"
    /\ t \in queued[r]
    /\ queued' = [queued EXCEPT ![r] = @ \ {t}]
    /\ UNCHANGED <<phase, answer>>

\* All tasks have run; session.commit() begins by flushing what is pending.
EndTasks(r) ==
    /\ phase[r] = "tasks"
    /\ queued[r] = {}
    /\ MoveTo(r, "flush")
    /\ UNCHANGED <<answer, queued>>

\* The exception of a task unwinds the same stack: get_db rolls back, and the
\* client keeps the answer it has.
TaskRaises(r) ==
    /\ TasksMayFail
    /\ phase[r] = "tasks"
    /\ queued[r] # {}
    /\ End(r)
    /\ UNCHANGED answer

Flushed(r) ==
    /\ phase[r] = "flush"
    /\ MoveTo(r, "commit")
    /\ UNCHANGED <<answer, queued>>

EndCommitted(r) ==
    /\ phase[r] = "commit"
    /\ End(r)
    /\ UNCHANGED answer

\* The flush or the COMMIT fails: too late to tell the client.
CommitFails(r) ==
    /\ phase[r] \in {"flush", "commit"}
    /\ End(r)
    /\ UNCHANGED answer

\* The process dies, or the request is cancelled, anywhere.
Die(r) ==
    /\ phase[r] # "idle"
    /\ End(r)
    /\ UNCHANGED answer
=============================================================================
