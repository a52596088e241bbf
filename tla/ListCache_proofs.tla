--------------------------- MODULE ListCache_proofs ---------------------------
(***************************************************************************)
(* How stale the cached list can be, for any number of pages, browses and  *)
(* writes and any TTL.                                                     *)
(*                                                                         *)
(* ReadsAreOld and EntriesAreBounded date every entry, which gives the     *)
(* TTL's bound; QuietPagesAreScanned says that a write that is about to    *)
(* commit has met every page it could be blamed for.                       *)
(***************************************************************************)
EXTENDS ListCache, TLAPS

-----------------------------------------------------------------------------
(* The inductive invariant *)

\* Versions are committed in the past, and what a browse has read was current then.
ReadsAreOld ==
    /\ \A v \in Version : since[v] <= now
    /\ \A b \in Browses :
        /\ browse[b].read <= now
        /\ browse[b].rows <= version
        /\ browse[b].rows < version => browse[b].read <= since[browse[b].rows + 1]

\* An entry lives for one TTL, counted from lag after the query for its rows.
EntriesAreBounded ==
    \A k \in Pages :
        /\ cache[k].until <= now + Ttl + cache[k].lag
        /\ cache[k].rows <= version
        /\ cache[k].rows < version =>
               cache[k].until <= since[cache[k].rows + 1] + Ttl + cache[k].lag

\* A page that was stored while no write was in flight is known to every write that
\* has begun since, until that write deletes it or gives up.
QuietPagesAreScanned ==
    \A w \in Writes, k \in Pages :
        Live(k) /\ cache[k].fill = "quiet" =>
            /\ write[w].stage = "scan" => k \in write[w].todo
            /\ write[w].stage = "commit" => write[w].lost

CacheInv ==
    /\ TypeOK
    /\ ReadsAreOld
    /\ EntriesAreBounded
    /\ QuietPagesAreScanned
    /\ StaleNeedsARace

-----------------------------------------------------------------------------
(* Types *)

LEMMA InitTypes == Init => TypeOK
BY CacheAssumption DEF Init, TypeOK, Time, Version, Entry, NoEntry, Browse, IdleBrowse,
   Write, IdleWrite

LEMMA BrowseType ==
    ASSUME TypeOK, NEW b \in Browses, NEW x \in Browse, browse' = [browse EXCEPT ![b] = x]
    PROVE  browse' \in [Browses -> Browse]
BY DEF TypeOK

LEMMA WriteType ==
    ASSUME TypeOK, NEW w \in Writes, NEW x \in Write, write' = [write EXCEPT ![w] = x]
    PROVE  write' \in [Writes -> Write]
BY DEF TypeOK

LEMMA CacheType ==
    ASSUME TypeOK, NEW k \in Pages, NEW x \in Entry, cache' = [cache EXCEPT ![k] = x]
    PROVE  cache' \in [Pages -> Entry]
BY DEF TypeOK

LEMMA NullTypes ==
    /\ NoEntry \in Entry
    /\ IdleBrowse \in Browse
    /\ IdleWrite \in Write
BY CacheAssumption DEF NoEntry, Entry, IdleBrowse, Browse, IdleWrite, Write, Time, Version

LEMMA StepTypes ==
    ASSUME TypeOK, ReadsAreOld, [Next]_vars
    PROVE  TypeOK'
<1> USE CacheAssumption
<1>1. CASE Tick
  <2>1. cache' \in [Pages -> Entry]
    BY <1>1, NullTypes DEF Tick, TypeOK
  <2> QED
    BY <1>1, <2>1 DEF Tick, TypeOK, Time
<1>2. ASSUME NEW b \in Browses, NEW k \in Pages, ReadRows(b, k)
      PROVE  TypeOK'
  <2> DEFINE x == [stage |-> "total", page |-> k, rows |-> version, total |-> 0, read |-> now]
  <2>1. x \in Browse
    BY DEF Browse, TypeOK, Version, Time
  <2>2. browse' \in [Browses -> Browse]
    BY <1>2, <2>1, BrowseType DEF ReadRows
  <2> QED
    BY <1>2, <2>2 DEF ReadRows, TypeOK
<1>3. ASSUME NEW b \in Browses, ReadTotal(b)
      PROVE  TypeOK'
  <2> DEFINE x == [browse[b] EXCEPT !.stage = "store", !.total = version]
  <2>1. x \in Browse
    <3>1. browse[b] \in [stage : {"total", "store"}, page : Pages,
                         rows : Version, total : Version, read : Time]
      BY <1>3 DEF ReadTotal, TypeOK, Browse, IdleBrowse
    <3>2. x \in [stage : {"total", "store"}, page : Pages,
                 rows : Version, total : Version, read : Time]
      BY <3>1 DEF TypeOK
    <3> QED
      BY <3>2 DEF Browse
  <2>2. browse' = [browse EXCEPT ![b] = x]
    BY <1>3 DEF ReadTotal
  <2>3. browse' \in [Browses -> Browse]
    BY <2>1, <2>2, BrowseType
  <2> QED
    BY <1>3, <2>3 DEF ReadTotal, TypeOK
<1>4. ASSUME NEW b \in Browses, Store(b)
      PROVE  TypeOK'
  <2> DEFINE k == browse[b].page
             x == [rows |-> browse[b].rows, total |-> browse[b].total,
                   until |-> StoredUntil, fill |-> Fill(b), lag |-> now - browse[b].read]
  <2>1. browse' \in [Browses -> Browse]
    BY <1>4, NullTypes, BrowseType DEF Store
  <2>2. write' \in [Writes -> Write]
    BY <1>4 DEF Store, TypeOK, Write
  <2>3. k \in Pages /\ x \in Entry
    <3>1. browse[b] \in [stage : {"total", "store"}, page : Pages,
                         rows : Version, total : Version, read : Time]
      BY <1>4 DEF Store, TypeOK, Browse, IdleBrowse
    <3>2. StoredUntil \in 0..(Horizon + Ttl) /\ now - browse[b].read \in Time
      BY <3>1 DEF StoredUntil, TypeOK, ReadsAreOld, Time
    <3>3. Fill(b) \in {"quiet", "early", "late"}
      BY DEF Fill
    <3> QED
      BY <3>1, <3>2, <3>3 DEF Entry
  <2>4. cache' \in [Pages -> Entry]
    BY <1>4, <2>3, CacheType DEF Store
  <2> QED
    BY <1>4, <2>1, <2>2, <2>4 DEF Store, TypeOK
<1>5. ASSUME NEW b \in Browses, GiveUp(b)
      PROVE  TypeOK'
  BY <1>5, NullTypes, BrowseType DEF GiveUp, TypeOK
<1>6. ASSUME NEW w \in Writes, Begin(w)
      PROVE  TypeOK'
  <2> DEFINE x == [write[w] EXCEPT !.stage = "scan", !.todo = {k \in Pages : Live(k)}]
  <2>1. x \in Write
    BY DEF Write, TypeOK
  <2>2. write' = [write EXCEPT ![w] = x]
    BY <1>6 DEF Begin
  <2> QED
    BY <1>6, <2>1, <2>2, WriteType DEF Begin, TypeOK
<1>7. ASSUME NEW w \in Writes, NEW k \in Pages, DeletePage(w, k)
      PROVE  TypeOK'
  <2> DEFINE x == [write[w] EXCEPT !.todo = @ \ {k}]
  <2>1. x \in Write
    BY DEF Write, TypeOK
  <2>2. write' = [write EXCEPT ![w] = x]
    BY <1>7 DEF DeletePage
  <2>3. write' \in [Writes -> Write]
    BY <2>1, <2>2, WriteType
  <2>4. cache' \in [Pages -> Entry]
    BY <1>7, NullTypes, CacheType DEF DeletePage
  <2> QED
    BY <1>7, <2>3, <2>4 DEF DeletePage, TypeOK
<1>8. ASSUME NEW w \in Writes, EndScan(w)
      PROVE  TypeOK'
  <2> DEFINE x == [write[w] EXCEPT !.stage = "commit", !.todo = {}]
  <2>1. x \in Write
    BY DEF Write, TypeOK
  <2>2. write' = [write EXCEPT ![w] = x]
    BY <1>8 DEF EndScan
  <2> QED
    BY <1>8, <2>1, <2>2, WriteType DEF EndScan, TypeOK
<1>9. ASSUME NEW w \in Writes, LoseScan(w)
      PROVE  TypeOK'
  <2> DEFINE x == [write[w] EXCEPT !.stage = "commit", !.todo = {}, !.lost = TRUE]
  <2>1. x \in Write
    BY DEF Write, TypeOK
  <2>2. write' = [write EXCEPT ![w] = x]
    BY <1>9 DEF LoseScan
  <2> QED
    BY <1>9, <2>1, <2>2, WriteType DEF LoseScan, TypeOK
<1>10. ASSUME NEW w \in Writes, Commit(w)
       PROVE  TypeOK'
  <2>1. write' \in [Writes -> Write]
    BY <1>10, NullTypes, WriteType DEF Commit
  <2>2. version' \in Version /\ write[w].lost \in BOOLEAN
    BY <1>10 DEF Commit, TypeOK, Version, Write
  <2> QED
    BY <1>10, <2>1, <2>2 DEF Commit, TypeOK
<1>11. ASSUME NEW w \in Writes, Rollback(w)
       PROVE  TypeOK'
  BY <1>11, NullTypes, WriteType DEF Rollback, TypeOK
<1>12. CASE UNCHANGED vars
  BY <1>12 DEF vars, TypeOK
<1> QED
  BY <1>1, <1>2, <1>3, <1>4, <1>5, <1>6, <1>7, <1>8, <1>9, <1>10, <1>11, <1>12 DEF Next

\* The parts of the types that the arithmetic below needs.
LEMMA Numbers ==
    ASSUME TypeOK
    PROVE  /\ now \in Nat /\ version \in Nat /\ Ttl \in Nat /\ version <= MaxVersion
           /\ \A v \in Version : v \in Nat /\ since[v] \in Nat
           /\ \A k \in Pages : /\ cache[k].until \in Nat
                               /\ cache[k].lag \in Nat
                               /\ cache[k].rows \in Version
           /\ \A b \in Browses : browse[b].read \in Nat /\ browse[b].rows \in Version
BY CacheAssumption DEF TypeOK, Time, Version, Entry, Browse, IdleBrowse

-----------------------------------------------------------------------------
(* How old what is read, and what is stored, can be *)

LEMMA ReadsStep ==
    ASSUME TypeOK, ReadsAreOld, [Next]_vars
    PROVE  ReadsAreOld'
<1> USE Numbers DEF ReadsAreOld
<1>1. CASE Tick
  BY <1>1 DEF Tick
<1>2. ASSUME NEW b \in Browses, NEW k \in Pages, ReadRows(b, k)
      PROVE  ReadsAreOld'
  BY <1>2 DEF ReadRows, TypeOK
<1>3. ASSUME NEW b \in Browses, ReadTotal(b)
      PROVE  ReadsAreOld'
  BY <1>3 DEF ReadTotal, TypeOK
<1>4. ASSUME NEW b \in Browses, Store(b) \/ GiveUp(b)
      PROVE  ReadsAreOld'
  <2>1. /\ browse' = [browse EXCEPT ![b] = IdleBrowse]
        /\ now' = now /\ version' = version /\ since' = since
    BY <1>4 DEF Store, GiveUp
  <2>2. version > 0 => 1 \in Version
    BY CacheAssumption DEF Version
  <2> QED
    BY <2>1, <2>2 DEF IdleBrowse, TypeOK
<1>5. ASSUME NEW w \in Writes, Commit(w)
      PROVE  ReadsAreOld'
  <2>1. version + 1 \in Version
    BY <1>5, CacheAssumption DEF Commit, Version
  <2>2. \A v \in Version : since'[v] = IF v = version + 1 THEN now ELSE since[v]
    BY <1>5 DEF Commit, TypeOK
  <2>3. now' = now /\ browse' = browse /\ version' = version + 1
    BY <1>5 DEF Commit
  <2>4. ASSUME NEW b \in Browses, browse[b].rows < version + 1
        PROVE  browse[b].read <= since'[browse[b].rows + 1]
    <3>1. browse[b].rows + 1 \in Version
      BY <2>1, <2>4, CacheAssumption DEF Version
    <3> QED
      BY <2>2, <2>4, <3>1
  <2> QED
    BY <2>1, <2>2, <2>3, <2>4
<1>6. CASE UNCHANGED <<now, version, since, browse>>
  BY <1>6
<1>7. ASSUME NEW w \in Writes, NEW k \in Pages, DeletePage(w, k)
      PROVE  UNCHANGED <<now, version, since, browse>>
  BY <1>7 DEF DeletePage
<1>8. CASE UNCHANGED vars
  BY <1>6, <1>8 DEF vars
<1>9. ASSUME NEW w \in Writes, Begin(w) \/ EndScan(w) \/ LoseScan(w) \/ Rollback(w)
      PROVE  UNCHANGED <<now, version, since, browse>>
  BY <1>9 DEF Begin, EndScan, LoseScan, Rollback
<1> QED
  BY <1>1, <1>2, <1>3, <1>4, <1>5, <1>6, <1>7, <1>8, <1>9 DEF Next

LEMMA EntriesStep ==
    ASSUME TypeOK, ReadsAreOld, EntriesAreBounded, [Next]_vars
    PROVE  EntriesAreBounded'
<1> USE Numbers DEF EntriesAreBounded
<1>1. CASE Tick
  <2>1. ASSUME NEW k \in Pages
        PROVE  cache'[k] = NoEntry \/ cache'[k] = cache[k]
    BY <1>1 DEF Tick
  <2>2. version > 0 => 1 \in Version
    BY CacheAssumption DEF Version
  <2> QED
    BY <1>1, <2>1, <2>2 DEF Tick, NoEntry
<1>2. ASSUME NEW b \in Browses, Store(b)
      PROVE  EntriesAreBounded'
  <2> DEFINE p == browse[b].page
  <2>1. now' = now /\ version' = version /\ since' = since
    BY <1>2 DEF Store
  <2>2. \A k \in Pages : k # p => cache'[k] = cache[k]
    BY <1>2 DEF Store, TypeOK
  <2>3. p \in Pages => /\ cache'[p].until = now + Ttl
                       /\ cache'[p].rows = browse[b].rows
                       /\ cache'[p].lag = now - browse[b].read
    BY <1>2 DEF Store, StoredUntil, TypeOK
  <2>4. /\ browse[b].read <= now
        /\ browse[b].rows <= version
        /\ browse[b].rows < version => browse[b].read <= since[browse[b].rows + 1]
    BY DEF ReadsAreOld
  <2>5. browse[b].rows < version => browse[b].rows + 1 \in Version
    BY CacheAssumption DEF Version
  <2> QED
    BY <2>1, <2>2, <2>3, <2>4, <2>5
<1>3. ASSUME NEW w \in Writes, Commit(w)
      PROVE  EntriesAreBounded'
  <2>1. version + 1 \in Version
    BY <1>3, CacheAssumption DEF Commit, Version
  <2>2. \A v \in Version : since'[v] = IF v = version + 1 THEN now ELSE since[v]
    BY <1>3 DEF Commit, TypeOK
  <2>3. now' = now /\ cache' = cache /\ version' = version + 1
    BY <1>3 DEF Commit
  <2>4. ASSUME NEW k \in Pages, cache[k].rows < version + 1
        PROVE  cache[k].until <= since'[cache[k].rows + 1] + Ttl + cache[k].lag
    <3>1. cache[k].rows + 1 \in Version
      BY <2>1, <2>4, CacheAssumption DEF Version
    <3> QED
      BY <2>2, <2>4, <3>1
  <2> QED
    BY <2>3, <2>4
<1>4. ASSUME NEW w \in Writes, NEW k \in Pages, DeletePage(w, k)
      PROVE  EntriesAreBounded'
  <2>1. version > 0 => 1 \in Version
    BY CacheAssumption DEF Version
  <2> QED
    BY <1>4, <2>1 DEF DeletePage, NoEntry, TypeOK
<1>5. CASE UNCHANGED <<now, version, since, cache>>
  BY <1>5
<1>6. ASSUME NEW b \in Browses, NEW k \in Pages, ReadRows(b, k)
      PROVE  UNCHANGED <<now, version, since, cache>>
  BY <1>6 DEF ReadRows
<1>7. ASSUME NEW b \in Browses, ReadTotal(b) \/ GiveUp(b)
      PROVE  UNCHANGED <<now, version, since, cache>>
  BY <1>7 DEF ReadTotal, GiveUp
<1>8. ASSUME NEW w \in Writes, Begin(w) \/ EndScan(w) \/ LoseScan(w) \/ Rollback(w)
      PROVE  UNCHANGED <<now, version, since, cache>>
  BY <1>8 DEF Begin, EndScan, LoseScan, Rollback
<1>9. CASE UNCHANGED vars
  BY <1>5, <1>9 DEF vars
<1> QED
  BY <1>1, <1>2, <1>3, <1>4, <1>5, <1>6, <1>7, <1>8, <1>9 DEF Next

-----------------------------------------------------------------------------
(* Who is to blame for a stale page *)

\* Time passing takes pages away and revives none.
LEMMA TickKeeps ==
    ASSUME TypeOK, Tick, NEW k \in Pages, Live(k)'
    PROVE  Live(k) /\ cache'[k] = cache[k]
<1>1. now \in Nat /\ now' = now + 1
  BY Numbers DEF Tick
<1>2. cache'[k] = NoEntry \/ cache'[k] = cache[k]
  BY DEF Tick
<1>3. NoEntry.until = 0
  BY DEF NoEntry
<1> QED
  BY <1>1, <1>2, <1>3, Numbers DEF Live

LEMMA QuietStep ==
    ASSUME TypeOK, QuietPagesAreScanned, [Next]_vars
    PROVE  QuietPagesAreScanned'
<1> USE DEF QuietPagesAreScanned
<1>1. CASE Tick
  <2>1. write' = write
    BY <1>1 DEF Tick
  <2> QED
    BY <1>1, <2>1, TickKeeps
<1>2. ASSUME NEW b \in Browses, Store(b)
      PROVE  QuietPagesAreScanned'
  <2> DEFINE p == browse[b].page
  <2>1. now' = now
    BY <1>2 DEF Store
  <2>2. \A k \in Pages : k # p => cache'[k] = cache[k]
    BY <1>2 DEF Store, TypeOK
  <2>3. \A w \in Writes : /\ write'[w].stage = write[w].stage
                          /\ write'[w].lost = write[w].lost
                          /\ \A k \in write[w].todo : k # p => k \in write'[w].todo
    BY <1>2 DEF Store, TypeOK, Write
  <2>4. p \in Pages /\ cache'[p].fill = "quiet" => \A w \in Writes : write[w] = IdleWrite
    BY <1>2 DEF Store, Fill, TypeOK
  <2>5. IdleWrite.stage = "idle"
    BY DEF IdleWrite
  <2>6. ASSUME NEW w \in Writes, NEW k \in Pages, Live(k)', cache'[k].fill = "quiet"
        PROVE  /\ write'[w].stage = "scan" => k \in write'[w].todo
               /\ write'[w].stage = "commit" => write'[w].lost
    <3>1. CASE k = p
      BY <2>3, <2>4, <2>5, <2>6, <3>1
    <3>2. CASE k # p
      BY <2>1, <2>2, <2>3, <2>6, <3>2 DEF Live
    <3> QED
      BY <3>1, <3>2
  <2> QED
    BY <2>6
<1>3. ASSUME NEW w \in Writes, Begin(w)
      PROVE  QuietPagesAreScanned'
  <2>1. /\ write'[w].stage = "scan" /\ write'[w].todo = {k \in Pages : Live(k)}
        /\ \A x \in Writes : x # w => write'[x] = write[x]
    BY <1>3 DEF Begin, TypeOK, Write
  <2> QED
    BY <1>3, <2>1 DEF Begin, Live
<1>4. ASSUME NEW w \in Writes, NEW p \in Pages, DeletePage(w, p)
      PROVE  QuietPagesAreScanned'
  <2>1. \A x \in Writes : /\ write'[x].stage = write[x].stage
                          /\ write'[x].lost = write[x].lost
                          /\ \A k \in write[x].todo : k # p => k \in write'[x].todo
    BY <1>4 DEF DeletePage, TypeOK, Write
  <2>2. ~Live(p)' /\ \A k \in Pages : k # p => cache'[k] = cache[k] /\ (Live(k)' => Live(k))
    BY <1>4, Numbers DEF DeletePage, TypeOK, Live, NoEntry
  <2> QED
    BY <2>1, <2>2
<1>5. ASSUME NEW w \in Writes, EndScan(w)
      PROVE  QuietPagesAreScanned'
  <2>1. \A x \in Writes : x # w => write'[x] = write[x]
    BY <1>5 DEF EndScan, TypeOK
  <2>2. \A k \in Pages : Live(k)' = Live(k) /\ cache'[k] = cache[k]
    BY <1>5 DEF EndScan, Live
  <2>3. \A k \in Pages : Live(k) => cache[k].fill # "quiet"
    BY <1>5 DEF EndScan
  <2> QED
    BY <2>1, <2>2, <2>3
<1>6. ASSUME NEW w \in Writes, LoseScan(w)
      PROVE  QuietPagesAreScanned'
  <2>1. /\ write'[w].stage = "commit" /\ write'[w].lost
        /\ \A x \in Writes : x # w => write'[x] = write[x]
    BY <1>6 DEF LoseScan, TypeOK, Write
  <2> QED
    BY <1>6, <2>1 DEF LoseScan, Live
<1>7. ASSUME NEW w \in Writes, Commit(w) \/ Rollback(w)
      PROVE  QuietPagesAreScanned'
  <2>1. /\ write'[w].stage = "idle" /\ now' = now /\ cache' = cache
        /\ \A x \in Writes : x # w => write'[x] = write[x]
    BY <1>7 DEF Commit, Rollback, IdleWrite, TypeOK
  <2> QED
    BY <2>1 DEF Live
<1>8. CASE UNCHANGED <<now, cache, write>>
  BY <1>8 DEF Live
<1>9. ASSUME NEW b \in Browses, NEW k \in Pages, ReadRows(b, k)
      PROVE  UNCHANGED <<now, cache, write>>
  BY <1>9 DEF ReadRows
<1>10. ASSUME NEW b \in Browses, ReadTotal(b) \/ GiveUp(b)
       PROVE  UNCHANGED <<now, cache, write>>
  BY <1>10 DEF ReadTotal, GiveUp
<1>11. CASE UNCHANGED vars
  BY <1>8, <1>11 DEF vars
<1> QED
  BY <1>1, <1>2, <1>3, <1>4, <1>5, <1>6, <1>7, <1>8, <1>9, <1>10, <1>11 DEF Next

LEMMA StaleStep ==
    ASSUME TypeOK, ReadsAreOld, EntriesAreBounded, QuietPagesAreScanned,
           StaleNeedsARace, [Next]_vars
    PROVE  StaleNeedsARace'
<1> USE DEF StaleNeedsARace
<1>1. CASE Tick
  <2>1. version' = version /\ lost' = lost
    BY <1>1 DEF Tick
  <2> QED
    BY <1>1, <2>1, TickKeeps DEF Stale
<1>2. ASSUME NEW b \in Browses, Store(b)
      PROVE  StaleNeedsARace'
  <2> DEFINE p == browse[b].page
  <2>1. now' = now /\ version' = version /\ lost' = lost
    BY <1>2 DEF Store
  <2>2. \A k \in Pages : k # p => cache'[k] = cache[k]
    BY <1>2 DEF Store, TypeOK
  <2>3. p \in Pages => (cache'[p].fill = "quiet" => cache'[p].rows = version)
    BY <1>2 DEF Store, Fill, TypeOK
  <2> QED
    BY <2>1, <2>2, <2>3 DEF Stale, Live
<1>3. ASSUME NEW w \in Writes, Commit(w)
      PROVE  StaleNeedsARace'
  <2>1. version + 1 \in Version
    BY <1>3, Numbers, CacheAssumption DEF Commit, Version
  <2>2. \A v \in Version : lost'[v] = IF v = version + 1 THEN write[w].lost ELSE lost[v]
    BY <1>3 DEF Commit, TypeOK
  <2>3. now' = now /\ cache' = cache /\ version' = version + 1 /\ write[w].stage = "commit"
    BY <1>3 DEF Commit
  <2>4. ASSUME NEW k \in Pages, Live(k), cache[k].fill = "quiet"
        PROVE  lost'[cache[k].rows + 1]
    <3>1. write[w].lost
      BY <2>3, <2>4 DEF QuietPagesAreScanned
    <3>2. CASE cache[k].rows = version
      BY <2>1, <2>2, <3>1, <3>2
    <3>3. CASE cache[k].rows # version
      <4>1. cache[k].rows < version /\ cache[k].rows + 1 # version + 1
        BY <3>3, Numbers DEF EntriesAreBounded, Version
      <4>2. cache[k].rows + 1 \in Version
        BY <4>1, Numbers, CacheAssumption DEF Version
      <4>3. lost[cache[k].rows + 1]
        BY <2>4, <3>3 DEF Stale
      <4> QED
        BY <2>2, <4>1, <4>2, <4>3
    <3> QED
      BY <3>2, <3>3
  <2> QED
    BY <2>3, <2>4 DEF Stale, Live
<1>4. ASSUME NEW w \in Writes, NEW p \in Pages, DeletePage(w, p)
      PROVE  StaleNeedsARace'
  <2>1. ~Live(p)' /\ \A k \in Pages : k # p => cache'[k] = cache[k]
    BY <1>4, Numbers DEF DeletePage, TypeOK, Live, NoEntry
  <2>2. now' = now /\ version' = version /\ lost' = lost
    BY <1>4 DEF DeletePage
  <2> QED
    BY <2>1, <2>2 DEF Stale, Live
<1>5. CASE UNCHANGED <<now, version, lost, cache>>
  BY <1>5 DEF Stale, Live
<1>6. ASSUME NEW b \in Browses, NEW k \in Pages, ReadRows(b, k)
      PROVE  UNCHANGED <<now, version, lost, cache>>
  BY <1>6 DEF ReadRows
<1>7. ASSUME NEW b \in Browses, ReadTotal(b) \/ GiveUp(b)
      PROVE  UNCHANGED <<now, version, lost, cache>>
  BY <1>7 DEF ReadTotal, GiveUp
<1>8. ASSUME NEW w \in Writes, Begin(w) \/ EndScan(w) \/ LoseScan(w) \/ Rollback(w)
      PROVE  UNCHANGED <<now, version, lost, cache>>
  BY <1>8 DEF Begin, EndScan, LoseScan, Rollback
<1>9. CASE UNCHANGED vars
  BY <1>5, <1>9 DEF vars
<1> QED
  BY <1>1, <1>2, <1>3, <1>4, <1>5, <1>6, <1>7, <1>8, <1>9 DEF Next

-----------------------------------------------------------------------------
(* The theorems *)

LEMMA InitCache == Init => CacheInv
<1> SUFFICES ASSUME Init
             PROVE  CacheInv
  OBVIOUS
<1>1. TypeOK
  BY InitTypes
<1>2. ReadsAreOld /\ EntriesAreBounded
  BY CacheAssumption, Numbers, <1>1
  DEF Init, ReadsAreOld, EntriesAreBounded, IdleBrowse, NoEntry
<1>3. ASSUME NEW k \in Pages
      PROVE  ~Live(k)
  <2>1. now = 0 /\ cache[k].until = 0
    BY DEF Init, NoEntry
  <2> QED
    BY <2>1 DEF Live
<1>4. QuietPagesAreScanned
  BY <1>3 DEF QuietPagesAreScanned
<1>5. StaleNeedsARace
  BY <1>3 DEF StaleNeedsARace, Stale
<1> QED
  BY <1>1, <1>2, <1>4, <1>5 DEF CacheInv

LEMMA CacheInvariant == Spec => []CacheInv
<1>1. CacheInv /\ [Next]_vars => CacheInv'
  <2> SUFFICES ASSUME CacheInv, [Next]_vars
               PROVE  CacheInv'
    OBVIOUS
  <2>1. /\ TypeOK /\ ReadsAreOld /\ EntriesAreBounded
        /\ QuietPagesAreScanned /\ StaleNeedsARace
    BY DEF CacheInv
  <2>2. TypeOK' /\ ReadsAreOld'
    BY <2>1, StepTypes, ReadsStep
  <2>3. EntriesAreBounded'
    BY <2>1, EntriesStep
  <2>4. QuietPagesAreScanned' /\ StaleNeedsARace'
    BY <2>1, QuietStep, StaleStep
  <2> QED
    BY <2>2, <2>3, <2>4 DEF CacheInv
<1> QED
  BY InitCache, <1>1, PTL DEF Spec

\* Clock, versions, pages, browses and writes keep their types.
THEOREM TypeCorrect == Spec => []TypeOK
<1>1. CacheInv => TypeOK
  BY DEF CacheInv
<1> QED
  BY <1>1, CacheInvariant, PTL

\* _invalidate_list_cache(): a page that no write overlapped when it was stored goes
\* stale only through a write whose invalidation gave up.
THEOREM StaleNeedsARaceHolds == Spec => []StaleNeedsARace
<1>1. CacheInv => StaleNeedsARace
  BY DEF CacheInv
<1> QED
  BY <1>1, CacheInvariant, PTL

\* RedisCache.set(): one TTL, plus the time from reading to storing, bounds how long
\* a page is served after the commit that made it stale.
THEOREM TtlCapsStalenessHolds == Spec => []TtlCapsStaleness
<1>1. CacheInv => TtlCapsStaleness
  <2> SUFFICES ASSUME CacheInv, NEW k \in Pages, Stale(k)
               PROVE  now < since[cache[k].rows + 1] + Ttl + cache[k].lag
    BY DEF TtlCapsStaleness
  <2>1. TypeOK /\ EntriesAreBounded
    BY DEF CacheInv
  <2>2. /\ cache[k].rows \in Version /\ cache[k].rows < version
        /\ now < cache[k].until
    BY <2>1, Numbers DEF EntriesAreBounded, Stale, Live, Version
  <2>3. cache[k].rows + 1 \in Version
    BY <2>1, <2>2, Numbers, CacheAssumption DEF Version
  <2> QED
    BY <2>1, <2>2, <2>3, Numbers DEF EntriesAreBounded
<1> QED
  BY <1>1, CacheInvariant, PTL
=============================================================================
