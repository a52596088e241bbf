------------------------------ MODULE ListCache ------------------------------
(***************************************************************************)
(* The public list of available food, cached in Redis page by page:        *)
(* cache-aside reads (food_items/service.py list_available, food_items/    *)
(* api.py list_available_food) against the writers that invalidate every   *)
(* page and then commit (food_items/service.py, shared/cache/cache.py).    *)
(*                                                                         *)
(* What a page shows is the version of food_items its two queries read:    *)
(* each commit of a listing write makes a new version. Redis commands are  *)
(* atomic; its SCAN returns every key that is there from its start to its  *)
(* end, and may or may not return others. Every method of the cache        *)
(* swallows Redis errors. (A page also ages without a write, when food on  *)
(* it reaches its date; that is not modelled.)                             *)
(***************************************************************************)
EXTENDS Naturals

CONSTANTS
    Pages,        \* cache keys: a page number, a page size and a search
    Browses,      \* list requests that can be in flight at once
    Writes,       \* write requests that can be in flight at once
    Ttl,          \* CACHE_DEFAULT_TTL_SECONDS
    Horizon,      \* the clock's last instant (bounds the model)
    MaxVersion,   \* the last version of the table (bounds the model)
    NoPage

ASSUME CacheAssumption ==
    /\ Ttl \in Nat \ {0} /\ Horizon \in Nat /\ MaxVersion \in Nat
    /\ NoPage \notin Pages

VARIABLES
    now,       \* the clock of Redis
    version,   \* the committed version of food_items
    since,     \* since[v]: when version v was committed
    lost,      \* lost[v]: whether the write that committed v gave up its invalidation
    cache,     \* cache[k]: the entry of a key, there until the instant `until`
    browse,    \* browse[b]: what a list request that missed has read so far
    write      \* write[w]: how far a write has come, and which keys SCAN still owes it

vars == <<now, version, since, lost, cache, browse, write>>

Time == 0..Horizon

Version == 0..MaxVersion

\* Two histories of the model: fill, whether the entry was stored while no write was
\* in flight, early (during a write that had not committed) or late (after a commit
\* its queries did not see); and lag, how long after the query for its rows.
Entry == [rows : Version, total : Version, until : 0..(Horizon + Ttl),
          fill : {"quiet", "early", "late"}, lag : Time]

NoEntry == [rows |-> 0, total |-> 0, until |-> 0, fill |-> "quiet", lag |-> 0]

IdleBrowse == [stage |-> "idle", page |-> NoPage, rows |-> 0, total |-> 0, read |-> 0]

\* read: when the rows were read, a history too.
Browse == [stage : {"total", "store"}, page : Pages,
           rows : Version, total : Version, read : Time] \cup {IdleBrowse}

Write == [stage : {"idle", "scan", "commit"}, todo : SUBSET Pages, lost : BOOLEAN]

IdleWrite == [stage |-> "idle", todo |-> {}, lost |-> FALSE]

TypeOK ==
    /\ now \in Time
    /\ version \in Version
    /\ since \in [Version -> Time]
    /\ lost \in [Version -> BOOLEAN]
    /\ cache \in [Pages -> Entry]
    /\ browse \in [Browses -> Browse]
    /\ write \in [Writes -> Write]

Init ==
    /\ now = 0
    /\ version = 0
    /\ since = [v \in Version |-> 0]
    /\ lost = [v \in Version |-> FALSE]
    /\ cache = [k \in Pages |-> NoEntry]
    /\ browse = [b \in Browses |-> IdleBrowse]
    /\ write = [w \in Writes |-> IdleWrite]

Live(k) == now < cache[k].until

-----------------------------------------------------------------------------
(* GET /food-items *)

\* Mutant: the router writes through whatever it answers, hits included.
ReadRowsOrHit(b, k) ==
    /\ browse[b] = IdleBrowse
    /\ \/ browse' = [browse EXCEPT ![b] =
                        [stage |-> "total", page |-> k, rows |-> version, total |-> 0,
                      read |-> now]]
       \/ /\ Live(k)
          /\ browse' = [browse EXCEPT ![b] =
                           [stage |-> "store", page |-> k,
                            rows |-> cache[k].rows, total |-> cache[k].total,
                            read |-> now]]
    /\ UNCHANGED <<now, version, since, lost, cache, write>>

\* A cache hit answers and changes nothing, so every browse that begins here has
\* missed: the key is not there, or Redis did not answer. The miss is taken
\* together with the query for the rows.
ReadRows(b, k) ==
    /\ browse[b] = IdleBrowse
    /\ browse' = [browse EXCEPT ![b] =
                     [stage |-> "total", page |-> k, rows |-> version, total |-> 0,
                      read |-> now]]
    /\ UNCHANGED <<now, version, since, lost, cache, write>>

\* count_available: a query, and at READ COMMITTED a snapshot, of its own.
ReadTotal(b) ==
    /\ browse[b].stage = "total"
    /\ browse' = [browse EXCEPT ![b].stage = "store", ![b].total = version]
    /\ UNCHANGED <<now, version, since, lost, cache, write>>

\* Mutant: a life of twice the setting.
StoredUntilTwice == now + Ttl + Ttl

StoredUntil == now + Ttl

Fill(b) ==
    IF browse[b].rows # version THEN "late"
    ELSE IF \E w \in Writes : write[w] # IdleWrite THEN "early" ELSE "quiet"

\* cache_available_page. A SCAN under way owes nobody a key that was not there.
Store(b) ==
    LET k == browse[b].page IN
    /\ browse[b].stage = "store"
    /\ cache' = [cache EXCEPT ![k] = [rows |-> browse[b].rows, total |-> browse[b].total,
                                      until |-> StoredUntil, fill |-> Fill(b),
                                      lag |-> now - browse[b].read]]
    /\ write' = IF Live(k) THEN write
                ELSE [w \in Writes |-> [write[w] EXCEPT !.todo = @ \ {k}]]
    /\ browse' = [browse EXCEPT ![b] = IdleBrowse]
    /\ UNCHANGED <<now, version, since, lost>>

\* The client goes away, a query fails, or Redis does not take the page.
GiveUp(b) ==
    /\ browse[b] # IdleBrowse
    /\ browse' = [browse EXCEPT ![b] = IdleBrowse]
    /\ UNCHANGED <<now, version, since, lost, cache, write>>

-----------------------------------------------------------------------------
(* A listing write: the row is written, _invalidate_list_cache() scans and  *)
(* deletes, and the session commits when the handler has returned. The     *)
(* write of the row shows to nobody, so it is taken together with the      *)
(* start of the scan.                                                      *)

\* Mutant: the method never calls _invalidate_list_cache().
BeginUninvalidated(w) ==
    /\ write[w] = IdleWrite
    /\ write' = [write EXCEPT ![w].stage = "scan"]
    /\ UNCHANGED <<now, version, since, lost, cache, browse>>

Begin(w) ==
    /\ write[w] = IdleWrite
    /\ write' = [write EXCEPT ![w].stage = "scan", ![w].todo = {k \in Pages : Live(k)}]
    /\ UNCHANGED <<now, version, since, lost, cache, browse>>

\* scan_iter has returned the key, now or a while ago.
DeletePage(w, k) ==
    /\ write[w].stage = "scan"
    /\ Live(k)
    /\ cache' = [cache EXCEPT ![k] = NoEntry]
    /\ write' = [write EXCEPT ![w].todo = @ \ {k}]
    /\ UNCHANGED <<now, version, since, lost, browse>>

EndScan(w) ==
    /\ write[w].stage = "scan"
    /\ \A k \in write[w].todo : ~Live(k)
    /\ write' = [write EXCEPT ![w].stage = "commit", ![w].todo = {}]
    /\ UNCHANGED <<now, version, since, lost, cache, browse>>

\* A RedisError in the middle: logged, and the write goes on.
LoseScan(w) ==
    /\ write[w].stage = "scan"
    /\ write' = [write EXCEPT ![w].stage = "commit", ![w].todo = {}, ![w].lost = TRUE]
    /\ UNCHANGED <<now, version, since, lost, cache, browse>>

Commit(w) ==
    /\ write[w].stage = "commit"
    /\ version < MaxVersion
    /\ version' = version + 1
    /\ since' = [since EXCEPT ![version + 1] = now]
    /\ lost' = [lost EXCEPT ![version + 1] = write[w].lost]
    /\ write' = [write EXCEPT ![w] = IdleWrite]
    /\ UNCHANGED <<now, cache, browse>>

\* What follows the invalidation may still fail: the pages stay deleted.
Rollback(w) ==
    /\ write[w] # IdleWrite
    /\ write' = [write EXCEPT ![w] = IdleWrite]
    /\ UNCHANGED <<now, version, since, lost, cache, browse>>

-----------------------------------------------------------------------------

\* Redis drops a key when its time has come.
Tick ==
    /\ now < Horizon
    /\ now' = now + 1
    /\ cache' = [k \in Pages |-> IF cache[k].until <= now + 1 THEN NoEntry ELSE cache[k]]
    /\ UNCHANGED <<version, since, lost, browse, write>>

Next ==
    \/ Tick
    \/ \E b \in Browses :
        \/ \E k \in Pages : ReadRows(b, k)
        \/ ReadTotal(b)
        \/ Store(b)
        \/ GiveUp(b)
    \/ \E w \in Writes :
        \/ Begin(w)
        \/ \E k \in Pages : DeletePage(w, k)
        \/ EndScan(w)
        \/ LoseScan(w)
        \/ Commit(w)
        \/ Rollback(w)

Spec == Init /\ [][Next]_vars

-----------------------------------------------------------------------------
(* Safety *)

\* A page that is still served although its rows have changed since they were read.
Stale(k) == Live(k) /\ cache[k].rows # version

\* A stale page is never the fault of an invalidation that went through: either the
\* browse that stored it overlapped a write, or the write that first made it stale
\* gave up its invalidation. Pages stored while others are being scanned and deleted,
\* and rewritten under a running scan, are what could break it.
StaleNeedsARace ==
    \A k \in Pages : Stale(k) /\ cache[k].fill = "quiet" => lost[cache[k].rows + 1]

\* docs/CACHING.md "The 60-second TTL caps the damage": a page is served for less than
\* one TTL after the commit that made it stale, plus the time its browse took from
\* reading the rows to storing them; lost invalidations, races and refills included.
TtlCapsStaleness ==
    \A k \in Pages :
        Stale(k) => now < since[cache[k].rows + 1] + Ttl + cache[k].lag
=============================================================================
