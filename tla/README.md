# Specifications of the Food Waste App

TLA+ specifications of the FastAPI service under `src/app`: people list surplus
food, others ask for it, the two agree on a handover, and each is notified. The
modules are translated from the Python code; TLC checks them on small instances
and TLAPS proves the theorems of the `*_proofs` modules for every instance.

Run inside this directory:

    tlc -config MCFoodSharing.cfg MCFoodSharing.tla
    tlapm FoodSharing_proofs.tla

## 1. The system

All state lives in PostgreSQL (users, food_items, donations, notifications) and
in Redis (list cache, token denylist, rate-limit counters). The Python process
keeps none between requests. A request is one coroutine of the event loop with
one `AsyncSession`, hence one transaction at READ COMMITTED
(`shared/db/session.py`, `get_db`): commit after the handler returned, the answer
was sent and the background tasks have run; rollback when anything raises or the
request is cancelled. Several processes may run.

| Component | State | Operations | Interacts with |
|---|---|---|---|
| Food items (`modules/food_items`) | `food_items` rows: status, expires_at, is_deleted | create, update, cancel, soft_delete, reserve, release, mark_donated, sweep, list | called by donations (reserve, release, mark_donated); invalidates the list cache |
| Donations (`modules/donations`) | `donations` rows: status | request, accept, decline, complete, cancel | food items and notifications, in one transaction |
| Notifications (`modules/notifications`) | `notifications` rows, read_at; the tasks queued for a request | one `notify_*` per donation event; mark_read, mark_all_read, dismiss, cleanup; background delivery | written by donations; delivered after the response, before the commit |
| Users and tokens (`modules/users`, `core/security.py`) | `users` rows; denylist entries in Redis | register, login, refresh, logout, profile, password, role, deactivate | every other route authenticates through it |
| List cache (`shared/cache`) | pages in Redis with a TTL | get, set, delete_prefix | read through by the food-item list, invalidated by its writers |
| Sessions (`shared/db`, `shared/repository`) | row locks, uncommitted rows, the identity map, the connection pool | begin, flush, SELECT FOR UPDATE, commit, rollback | under all of the above |
| Exception mapping (`core/exceptions.py`) | none | which answer an exception becomes, after the rollback | around every handler |
| Authorization (`shared/security`) | none | ownership, administrator override, active account | before every handler |
| Migrations (`migrations`) | the schema, its unique index, the seeded administrator | run once | the initial states |
| Rate limits, middleware, configuration, logging, start-up | counters of a library; none | | not modelled, see section 8 |

What is hard about it, and what makes each part correct:

- **Donations and food items.** Two rows, two state machines, one promise: food is
  promised to at most one person, and the two rows tell the same story. Hazards:
  requests that overlap at any SQL statement; entities read before a row lock was
  waited for and used afterwards; a second write that fails after the first; the
  sweep, which changes items without looking at donations; deletion at any time;
  the clock reaching `expires_at` at any point.
- **Notifications.** Written in the same transaction as the change they announce.
- **Sessions.** Every path must end the transaction, locks must be taken in an order
  that cannot deadlock, a rollback must leave nothing.
- **Tokens.** A JWT cannot be taken back, so all of revocation rests on Redis entries
  with a limited life, checked before and written after other awaits. A rotation or a
  sign-out must be effective by the time it is answered and stay so; a deactivated
  account must be out.
- **List cache.** Invalidated before the commit, filled without a version, so a stale
  page may be stored after the invalidation; then only its TTL removes it.
- **Request lifecycle.** The client has its answer, and the delivery has run, when the
  commit begins; connections are a limited pool, held from the first statement to the end.
  What fails late must fail consistently, and nobody may wait for a connection while he
  holds a row.
- **Inbox.** `read_at` written once, a dismissed row gone for good, with several requests
  of one person at a time; a bulk UPDATE locks rows in any order.
- **Accounts.** One account per address under concurrent registration; a caller's rights are
  those of the table, not of the token; requests that loaded one row write it back side by
  side and must not undo each other.

PROJECT.json lists each hazard with its line and the properties aimed at it.

## 2. The plan

1. `FoodDomain`, `FoodSharing`: the promise of the donation flow, atomic. *Done, proved.*
2. `RequestTransactions`: the same flow statement by statement, with locks, identity
   map, rollbacks. *Done; all safety properties and the serial refinement proved, and that only
   stale reads make overlapping requests deviate from it.*
3. `TokenLifecycle`: token pairs, denylist, deactivation. *Done, proved.*
4. `ListCache`: cache-aside browse list, invalidation before commit, late fills,
   SCAN while pages are stored, Redis failures. *Done, proved.*
5. `RequestLifecycle`: connection, handler, answer, tasks and commit in the order FastAPI
   runs them; extended by the next two. *Done.*
6. `InboxPromise`, `Inbox`: mark_read, mark_all_read, dismiss and the insertion they meet,
   overlapping. *Done; the refinement and all properties proved.*
7. `UserDirectory`, `Accounts`: e-mail uniqueness under concurrent registration, login with
   rehashing, password, role and activity under overlapping requests, the guards. *Done; the
   refinement and all properties proved.*
8. Left: the profile name as a column of `Accounts`.

## 3. Modules and code

**FoodDomain** — rows, the two transition tables (`food_items/models.py:54`,
`donations/models.py:51`), the expiry test, soft-delete filter, ownership. An item's
owner and a donation's item and recipient are fixed at insertion, so they are constants
indexed by primary key; a key not inserted yet has status UNLISTED or NONE. Titles,
quantities, addresses and messages are left out: no decision depends on them.

**FoodSharing** — every service call as one atomic action: the donation row, the item
row and the notification row it writes. `RequestDonation`, `Accept`, `Decline`,
`Complete`, `Cancel` are `DonationService`; `CreateItem`, `UpdateItem`, `CancelItem`,
`SoftDelete`, `ExpireStaleItems` are `FoodItemService`, with `Release` the call the
donation service makes. A rejected call changes nothing and is no step. This is what
the program does when requests do not overlap, and the abstract specification of the
next module.

**RequestTransactions** — the same calls statement by statement. `session[s]` is what
one request holds in memory: which statement comes next, the entities as it first loaded
them (`sawItem`, `sawDonation`), the instant it read the clock, a sweep's remaining rows,
the notification it inserted. `item`, `donation`, `notices` are the committed tables;
`itemLock`/`itemNew` and `donationLock`/`donationNew` are the row locks and the latest
row versions. Reads take no lock; UPDATE and SELECT FOR UPDATE wait for it. PostgreSQL
is external: READ COMMITTED rows, row locks until the end of the transaction, WHERE
re-evaluated on the fresh row after a wait. SQLAlchemy's identity map is what makes the
interesting behaviour: `SELECT ... FOR UPDATE` without `populate_existing` returns the
entity the session already has, with the attributes it already had, and `reserve()`,
`release()` and `mark_donated()` decide on those (`MayReserve`, `MaySettle`), whereas a
row deleted meanwhile is not returned at all. An INSERT is taken together with the
statement before it, because nobody sees or waits for it until the commit. `Rollback`
may happen at any statement: an exception, a disconnected client, a dead process.

**TokenLifecycle** — `pair[p]` is an access and a refresh token issued together (to whom,
when, in exchange for which pair), `deny[t]` when the Redis entry of a token ends,
`call[c]` a request between its awaits: denylist, user row, SET, answer. Time is counted
in ticks, `Second` to the second: `exp` is truncated to whole seconds when the token is
made, `seconds_until` truncates again, while PyJWT compares with the full clock. Redis is
external: EXISTS and SET EX are atomic, the life of an entry counts from the execution of
the SET, an unreachable Redis refuses (both calls raise or count as revoked). `Fail` ends a
call at any await. A logout's second token comes from the request body: with `MixedPairs`
it may be any token, without it is the refresh token of the same pair (the proofs cover
both). Credentials and signatures are not modelled: a token exists because it was issued.

**ListCache** — `cache[k]` is a page in Redis and when it ends, `browse[b]` a list request
that has missed and what its two queries have read, `write[w]` a listing write between the
start of its invalidation and its commit. All a page keeps of its content is the version of
`food_items` that was committed when it was read (`rows` and `total` separately, being two
snapshots); every commit of a write makes a new version. `browse[b]` goes through
`list_available` (`ReadRows`, `ReadTotal`) and `cache_available_page` (`Store`); the eight
writers of `FoodItemService` all do `Begin` (row written, SCAN starts), `DeletePage` per
key, `EndScan` or `LoseScan` (a Redis error, swallowed), then `Commit` or `Rollback` in
`get_db`. Redis is external: single commands are atomic, keys end at their time, and SCAN
owes exactly the keys that are there from its start to its end (`todo`) and may return
others. `fill`, `lag`, `since` and `lost` are histories that the properties speak of.

**RequestLifecycle** — `phase[r]` is how far a request has come (waiting for a connection,
in its handler, running its tasks, flushing, committing), `answer[r]` what its client has been
told, `queued[r]` its background tasks. The version of `uv.lock` (fastapi 0.140) sends the
response, and runs the tasks, inside the exit stack that holds `get_db`, so `session.commit()`
is the last thing; an exception in the handler unwinds that stack first and is answered
afterwards, an exception of a task unwinds it after the answer. `Raise`, `PoolTimeout`,
`TaskRaises`, `CommitFails` and `Die` are the ways not to commit. `pyproject.toml` allows
fastapi from 0.115 on, and versions before 0.118 leave the stack before they send the response;
the model is of the pinned one. FastAPI is external, the pool is `create_engine`'s.

**Inbox** (over **InboxPromise**) — `row`, `rowLock`, `rowNew` are the notifications table as in
`RequestTransactions`; `call[r]` is the handler: what it does, the entity it loaded, the instant it
read, the rows a bulk UPDATE still has to visit. `mark_read` and `dismiss` are `Load`, then
`MarkRead` or `Dismiss` (an UPDATE that matches no row raises `StaleDataError`, a DELETE only
warns); `mark_all_read` is `Scan`, then `StampOne` per row of its snapshot, the WHERE evaluated
again on each; a donation call is its last step, `Insert`, which writes the row and queues the
delivery. Somebody else's notification is refused like one that does not exist, by the same path
of the handler. `written`, `told` and `delivered` are histories. `InboxPromise` is the inbox with
one request at a time.

**Accounts** (over **UserDirectory**) — the users table in the same way. `call[r].to` is the entity
the handler loaded, changed in place; the UPDATE carries the changed column only (`Updated`),
and is not sent when the value is the one that was loaded. `Auth` is
`authenticate_access_token` with the guards: it reads the caller's row, and nothing else of the
token than its owner counts. `EmailExists` and `Insert` are the two uniqueness checks of
`register`; the second waits for whoever has the address in hand and loses, or not, when he
ends. `Authenticate` sets a stronger hash on the entity when the stored one is weak, and `Flush`
writes it, after the answer. `entitled[r]` is a history: since the request arrived, the committed
row of its caller has allowed what it does. Credentials are abstract: any login of an active account
may succeed or be refused. The role RECIPIENT differs from DONOR for no guard and is left to the
constant `Roles`.

The `MC*` modules give the constants values; the `*_proofs` modules hold the proofs.
Operators introduced by a "Mutant:" comment are deliberately wrong variants of the definition
that follows them; no specification uses them. They exist to show that the properties can fail.

## 4. What the runs check

| Run | Question | Result |
|---|---|---|
| `serial` | Without overlap, do item, donation and notices agree? `SoleClaim`, `ClaimsMatchItems`, `HandoverRecorded`, `NoticesAgree`, `FinalIsFinal` | hold |
| `overlap` | What survives any interleaving of two requests on one item? `LockDiscipline` (who holds which row, and why, at each statement), `NoStrandedReservation`, `EveryStatusWasAnnounced`, `DonatedWasHandedOver`; and who is to blame for the rest: `OnlyStaleReadsDeviate` (a commit is an atomic step of `FoodSharing` unless something its session had read has changed), `EndedMovesNeedARace` (a terminal donation or item moves only by a call that had loaded it before it ended) | hold |
| `sweep_races` | Two items, sweeps that lock several rows, dates moved, listings removed: `DeadlockNeedsTwoSweeps` (nothing else blocks in a circle), `OwnerEditsSurvive` (a removed listing stays removed, a date moves only with the commit of an update) | hold |
| `serial_requests` | Does the statement-level model implement `FoodSharing` when requests do not overlap? (`Atomic`) | holds |
| `requests_end` | Does every request that has begun end? (`RequestsEnd`, under fairness) | holds |
| `tokens` | `RotatedIsSpent`, `SignedOutIsSpent`, `SpentForGood` (a later SET never shortens a revocation), `InactiveIsOut` with overlapping calls and a clock finer than a second | hold |
| `list_cache` | Whose fault is a stale page, and for how long is it served? `StaleNeedsARace`, `TtlCapsStaleness` | hold |
| `inbox` | Three requests, two connections, tasks that may raise: `AnsweredDeliveredCommitted` (order of answer, delivery and commit), `GridlockNeedsTwoBulkUpdates` (who can block whom for good), `RewriteNeedsARace` (when a read_at is replaced), `KeepsPromise` (refines `InboxPromise`) | hold |
| `accounts` | Everything that writes a user row, overlapping: `OneAccountPerAddress`, `AdmittedByTheTable`, `WaitersHoldNothing` (no deadlock), `ChangesOneColumn` (refines `UserDirectory`) | hold |
| `double_reservation` | "Two simultaneous requests for the last loaf cannot both succeed" | refuted |
| `sweep_claimed` | declining takes the item to "AVAILABLE (or EXPIRED, if it went off while reserved)" | refuted |
| `delivered_before_commit` | "By the time this runs, the request's session is committed and closed" | refuted |

### The refuted statements

- **double_reservation.** `request_donation()` loads the item (`get_by_id`) and later calls
  `reserve()`, which locks the row but decides on the loaded entity. Both requests load
  AVAILABLE; the second waits, is granted the lock, still sees AVAILABLE, and both commit. `FreshClaimsAreEnough` says what would
  make the sentence true: to test the item's status in `reserve()`, and the donation's in the four
  answers, on the row as it is. Both are needed: with the first alone, an accept that overlaps a
  cancel reopens a donation whose item is free again.
- **sweep_claimed.** Needs no overlap: the sweep expires RESERVED items too, and
  `release()` and `mark_donated()` then refuse them, so the donation stays open for good.
- **delivered_before_commit.** The tasks of a request run when its answer has been sent, and
  `get_db` commits after them. A delivery therefore speaks of a row nobody else can see yet, and of
  one that will never be there if the commit fails or the process dies in between. What does hold
  is `AnsweredDeliveredCommitted`: nothing is delivered of a call that was refused. The same
  belief is in `notifications/tasks.py:28-30`, `notifications/service.py:269-275` ("a possible
  email about a donation that never happened"), `notifications/README.md:69` and
  `docs/adr/0004-backgroundtasks-behind-protocol.md:60` ("committed in the request transaction,
  *before* dispatch").

### Observed, without a run

These follow from the same steps of the models; they are not runs of their own. Those of the
donation flow that need an overlap are all commits on a stale read: `OnlyStaleReadsMatter` proves
that there are no others.

- Answers to a request read the donation without a lock and test the transition table on what
  they read, so an accept that overlaps a decline writes ACCEPTED over CANCELLED on an item that
  has been released. `donations/service.py:34` says "there is no path to "accepted donation, still
  AVAILABLE item"".
- Cancelling a listing is likewise a plain read and a later UPDATE: a request that commits in
  between keeps an open donation of a CANCELLED item, though "An owner may not cancel a RESERVED
  item" (`food_items/service.py:231`).
- `refresh()` checks, awaits, then revokes with a plain SET: two overlapping exchanges of one
  token both get a pair, against "each refresh token works exactly once"
  (`users/service.py:371`).
- `mark_read()` that loaded the row unread rewrites the instant another request committed
  meanwhile; "already-read notifications keep their original `read_at`, so a double-click cannot
  rewrite" (`notifications/service.py:103`) holds only for clicks one after the other.
  `RewriteNeedsARace` says exactly when.
- A login that rehashes leaves its UPDATE to the commit, after the answer: a password change that
  commits in between is overwritten with the old password's new hash. Needs `BCRYPT_ROUNDS` raised
  and both at once. `tests/modules/users/test_service.py:420` has "the old password stops working".
- Two overlapping password changes both verify the old password; the later one stays.
- `register` answers with tokens before the commit: a first call made with them may find no row and
  be refused (401), and if the commit fails the tokens belong to nobody. For the same reason the
  access log writes "request_completed" of requests that may still be rolled back.
- A background task that raises is not just logged and dropped, as `notifications/tasks.py:119`
  says: the exception leaves through `get_db`, which rolls the request back after its client was
  told it succeeded. The tasks of this code only write a log line.
- A connection is held through the response and the tasks, so a slow client keeps one of the pool.
- A role change to the value the entity was loaded with sends no UPDATE, so it does not undo a
  change that commits in between, though its caller is told the role is set.
- Nothing keeps the last administrator from demoting or deactivating itself.
- By the same race as in accept and decline, a `cancel()` that has read ACCEPTED before a
  completion commits overwrites COMPLETED, which `donations/models.py:47` calls terminal. `EndedMovesNeedARace` says
  exactly who can.
- `docs/CACHING.md:81` knows "two ways staleness can appear": a lost invalidation, and a
  write between a read and its cache write. There is a third: pages are invalidated before
  the commit, so a browse may both read and store the old rows between the two
  (`fill = "early"`). And the bound of the second is not "same": the page lives one TTL from
  the store, so the time from read to store comes on top (`lag` in `TtlCapsStaleness`).
- A slow browse can store its page over a newer one; `rows` and `total` of one page can be
  of different versions.
- `soft_delete()` consults no status: an owner can delete food somebody was promised
  (`food_items/README.md:58` against `food_items/service.py:255`). The models include it,
  which is why the properties about open donations speak of items that may be deleted.
- The notice of a withdrawal always says the food is available again, while `release()`
  may have expired it (`notifications/service.py:230`).
- `mark_donated()` ignores the date: a handover may be recorded after expiry.
- `reserve()` tests a date it read before waiting, against the clock of after it: when an owner
  moves the date closer meanwhile, food past its date can be reserved.
- `seconds_until()` says a denylist entry should expire "exactly when the token itself
  does"; it may end up to a second before, and in a token's last second nothing is stored.
  `Spent` in `TokenLifecycle` says exactly that much.
- Two sweeps can lock rows in different orders and deadlock; PostgreSQL then aborts one.

## 5. Bounds

- `serial`: two items of two owners, three donations (two compete for one item, one owner
  is also a recipient), an administrator, instants 0..2. Two competitors are the least for
  `SoleClaim`; a second item shows that a step touches only its own.
- `overlap`: two requests in flight, two donations of one item, one instant to pass, all
  operations except editing the date. Every race found has two actors; a third session
  could only act as one of the two between their statements, which the second slot, free
  again after each request, does as well.
- `sweep_races`: two items, so that a sweep can hold one row and wait for another, and
  instants 0..2, so that a date can be moved past a sweep in flight, both ways. Sessions are
  symmetric. Accept, complete and withdraw are left to `overlap`.
- `serial_requests`: all operations, one item, instants 0..2, dates moved both ways.
- `requests_end`: one item and one donation, the liveness graph being much larger; with one
  item a sweep holds a single row, so no deadlock is possible and nothing needs PostgreSQL's
  deadlock detector.
- `tokens`: two pairs, two calls, two ticks to a second, lifetimes of one and two seconds,
  the clock up to an instant past the access token's life: enough for an entry to be rounded
  down, for a token to be revoked in its last second, and for one exchange between any
  two awaits of another call.
- `list_cache`: one page, two browses, two writes, two commits, a TTL of two instants and a
  clock that passes it. No action looks at two keys (a SCAN deletes them one by one, and
  which it has passed is in `todo` per key), so one page shows what each would do; two browses
  can overwrite each other's page, two writes can scan at once. With two pages, and one
  browse, the run passes too; the proofs cover any number.
- `inbox`: two notifications of one person, so that two bulk updates can meet in opposite
  orders, three requests, so that a third waits for one of two connections (and times out),
  one instant to pass, so that a read_at can be told from a later one.
- `delivered_before_commit`: one notification suffices.
- `accounts`: the administrator with a weak hash, two sign-ups with one address, two roles, two
  passwords, two requests, two connections. A race here has two actors, as in `overlap`; a
  request that waits for a connection is left to `inbox`.
- Symmetry is used in no run with a liveness property: sessions, requests and calls are
  interchangeable, so are pairs, the two sign-ups of one address, and two donations of one item,
  where only the recipients' names differ.

CHECK_DEADLOCK is FALSE everywhere, because with all keys used, all donations closed and
the clock at its horizon the system may really stop.

## 6. Fairness

Only `requests_end` assumes any: strong fairness of `Continue(s)`, one request making its
next statement. The event loop resumes every coroutine whose await has completed, and
PostgreSQL queues the waiters of a row, so a request that is enabled again and again
(whenever the row is free) is served in the end; weak fairness would not say so, since the
lock can be taken and released by others in between. Nothing is assumed about `Start`,
`Tick`, or failures.

The serial refinement (`Atomic`) constrains the schedule, not the code: one session at a
time, no listing inserted during it, and a clock that moves only between requests. With a
clock that moves during one, `release()` may see a later instant than the request's commit,
which is a different atomic step and not a different program.

## 7. What is proved

The theorems hold for any number of users, items, donations, sessions, pairs, calls, pages,
browses, writes, notifications, accounts, requests and connections, assuming
`DomainAssumption` (owners, items and recipients exist), `SessionAssumption`,
`TokenAssumption`, `CacheAssumption`, `LifecycleAssumption`, `InboxAssumption` and
`AccountsAssumption` (the null values are not members; a second is at least one tick; a TTL at
least one instant; the pool has a connection; the seeded administrators have different
addresses).

- `FoodSharing_proofs`: `TypeOK`, `SoleClaim`, `ClaimsMatchItems`, `HandoverRecorded`,
  `FinalIsFinal`, `NoticesAgree`. The inductive invariant is `ClaimInv`, the conjunction of
  the first four: `SoleClaim` alone is not inductive, because that a new request meets no
  other follows from the item being AVAILABLE, hence claimed by nobody
  (`ClaimsMatchItems`), and that releasing or donating an item disturbs no other donation
  follows from `SoleClaim`; each holds the others up. Steps are grouped first
  (`ListingStep`, and the effect of a donation step), so that each conjunct is shown once per
  group. `FinalIsFinal` additionally needs that a key not inserted is not deleted.
- `RequestTransactions_proofs`: `TypeOK`, `LockDiscipline`, `DeadlockNeedsTwoSweeps`,
  `NoStrandedReservation`, `OwnerEditsSurvive`, `EveryStatusWasAnnounced`, `DonatedWasHandedOver`.
  The inductive invariant is `LockInv`: types, the statements each
  operation goes through (`PhaseOK`), and for each locked row, what its holder's statement
  accounts for. Absence of deadlock follows because a service call that waits for an item
  holds no item, and one that waits for a donation holds nothing at all; so a circle would
  need an item's holder that still waits, and only a sweep does; whoever it waits for holds an
  item and waits too, and so is a second sweep. `NoStrandedReservation` rests
  on it: when a session commits a donation that is no longer open, it holds the
  item's lock and its version of the item is not RESERVED. `OwnerEditsSurvive` needs `VersionInv`:
  a deleted row is deleted in every version, only an update's version has another date, and only
  that of complete() becomes DONATED, whatever their writers had loaded. The other two need `NoticeInv`:
  a donation that a request has inserted is nobody else's until it commits, and what an answer
  has read of a donation was announced, although the donation may have moved on since.
- `SerialRequests_proofs`: `Atomic`. `SerialInv` adds to `LockInv`, for the one session there is:
  what it has read is still true, what its checks have found still holds, and the rows it has
  written are those of the atomic step (of a sweep: exactly the due rows it has visited). Its
  commit is then that step, and every other statement a stutter. `SerialRequestsKeepPromises` takes
  the theorems of `FoodSharing_proofs` (`INSTANCE`) through the refinement: the five properties of
  the atomic flow, terminal states and notices included, hold of serial requests statement by
  statement.
- `StaleReads_proofs`: `OnlyStaleReadsDeviate`, for `Spec`, with any overlap. `CheckedInv` adds to
  `NoticeInv` that every session keeps to what it checked: what it is about to commit is the
  committed row with its one change, decided on the entities it loaded. A commit whose
  reads are still true (`StillTrue`) is therefore the atomic step, and no other statement
  publishes anything. `EndedMovesNeedARace` is from the same invariant: an
  answer at its commit has loaded an open donation, a request or an answer a listed item,
  and the rows of a sweep were due in the version it locked. `FreshClaimsAreEnough` and `GivenOnce` have
  a hypothesis on commits (`FreshClaims`), which the code as it is does not ensure: the refuting run is a
  behaviour without it. They say which two of the stale reads are to blame: if a request's
  commit finds the item still AVAILABLE, and an answer's the donation as it was loaded, no item has
  two claims, however stale everything else is (dates, owners' edits, sweeps). The invariant is
  `SoleInv`: at most one open or completed donation per item, and a claimed item does not read
  AVAILABLE. Overlaps satisfy the hypothesis unless two requests take one item, two answers move one
  donation, or an item is withdrawn or swept while it is asked for.
- `TokenLifecycle_proofs`: `TypeOK`, `RotatedIsSpent`, `SignedOutIsSpent`, `SpentForGood`, `InactiveIsOut`. "Spent"
  is a statement about the clock, so it has to be shown to last. `TokenInv` adds that
  every denylist entry reaches its token's last second, that an entry about to be stored
  still will (its life was computed before the SET was sent; the clock has only moved on),
  and that a call that has passed the account check began while the account was active.
  `Frame` says what no step disturbs; with it, other calls and old pairs keep their facts. That the
  SET of a second revocation replaces a longer entry by a shorter one only within the token's last second
  (`SpentForGood`) rests on the same bound.
- `ListCache_proofs`: `TypeOK`, `StaleNeedsARace`, `TtlCapsStaleness`. `CacheInv` adds what
  dates an entry (`ReadsAreOld`, `EntriesAreBounded`) and what clears a write of blame
  (`QuietPagesAreScanned`): a page stored while no write was in flight is, to every write that
  began since, either still owed by its SCAN or evidence that the SCAN gave up.
- `Inbox_proofs`: `TypeOK`, `AnsweredDeliveredCommitted`, `GridlockNeedsTwoBulkUpdates`,
  `RewriteNeedsARace`, `KeepsPromise`. The inductive invariant says, per row, what its lock holder's
  version can be (the committed row one step on: inserted, read, dismissed) and whose stage
  accounts for it, and, per request, how its answer, its queue and the histories go together with its
  phase. The refinement maps a commit to `Receive`, `Read` of a set, or `Dismiss`, because a request
  that holds several rows is a bulk update of one person. Only a bulk update waits for a row while it holds
  another, and a request without a connection holds none; hence the form of a gridlock. `NothingComesBack`
  (a dismissed row stays gone, a read one is not unread) is read off the refinement.
- `Accounts_proofs`: `TypeOK`, `OneAccountPerAddress`, `AdmittedByTheTable`, `WaitersHoldNothing`,
  `ChangesOneColumn`. The inductive invariant: a locked row is held by a request whose stage
  accounts for it, at most one per request, and its latest version is the committed one with one
  column changed, or a sign-up where there was no row (`RowOK`); a request past its checks is
  entitled; no two latest versions have one address. The last is what makes a sign-up's commit a
  `SignUp` of the directory. `DisabledForGood` (no late write enables an account again) is read off the
  refinement.

Only model-checked: `RequestsEnd`, since liveness under fairness is beyond the prover. Every other
property of a run that holds is a theorem.

## 8. Not modelled, and why

- Statement timeouts, PostgreSQL's deadlock detector, recycling and pinging of pooled connections:
  the models say when a request waits, not how long. The pool is in `RequestLifecycle`; the
  donation flow (`RequestTransactions`) is checked without it.
- Redis eviction (`allkeys-lru` may drop a denylist entry under memory pressure), its
  replication and loss on restart: properties of a deployment.
- Profile names: `update_profile` writes one column as `change_password` does, and nothing reads it.
  `list_users`, the list and the counts of notifications change nothing; their two statements may
  see different tables.
- `delete_read_older_than`, `hard_delete_by_id`, `add_all`: nothing calls them.
- That a registered account is visible to the first call made with its tokens is assumed in
  `TokenLifecycle`, not in `Accounts`.
- What a delivery does outside the process: a stub in the code.
- A cached page of food that reaches its date without any write, eviction of undecodable
  entries, `delete()` and `clear()` of the cache (`ListCache` follows writes only).
- Rate limits: the counters are the `limits` library; this code picks keys and limits.
- Middleware, DTOs, pagination, configuration, logging, start-up: no shared state, or run once.
  Of the migrations, what they leave (schema, unique index, administrator) is in the initial
  states.
