------------------------------- MODULE Cache -------------------------------
(* pantry/cache: readers that go through GetOrSet or the response middleware
   (look up, compute on a miss, store), the direct operations of the cache,
   the cleanup goroutine of the memory cache and Close, over a source whose
   value changes.  A value is the version of the source it was computed from. *)
EXTENDS Integers, FiniteSets, GoMap

CONSTANTS Readers, CKeys,
          CacheTTL,          \* ticks a stored value lives; direct sets may also use 0: no expiry
          Slow,         \* ticks a computation may take
          MaxTime,      \* bound: ticks
          MaxVersion    \* bound: changes of the source

ASSUME CacheAssumption == {CacheTTL, Slow, MaxTime, MaxVersion} \subseteq Nat /\ CKeys # {}

VARIABLES kind,         \* "memory", "memory without cleanup" (CleanupInterval 0) or "redis"
          mu,           \* who holds the write lock across steps: "free" or "close"
          closed, cleaner,
          items,        \* key -> [ver, exp, noExpiry]
          sweep,        \* keys a Redis Clear has still to scan
          reader,       \* the readers
          version, replaced,   \* current version; version -> time it was replaced
          clock,
          served        \* the last value a reader got from the cache, and when

cacheVars == <<kind, mu, closed, cleaner, items, sweep, reader, version, replaced, clock, served>>

Memory == kind # "redis"
NotServed == [ver |-> 0, at |-> 0]
IdleReader == [pc |-> "idle", key |-> CHOOSE k \in CKeys : TRUE, ver |-> 0, since |-> 0]

CacheTypeOK == /\ mu \in {"free", "close"} /\ cleaner \in {"none", "select", "lock", "done"}
               /\ DOMAIN items \subseteq CKeys /\ sweep \subseteq CKeys
               /\ \A r \in Readers : reader[r].pc \in {"idle", "compute", "store"}

CacheInit == /\ kind \in {"memory", "memory without cleanup", "redis"}
             /\ mu = "free" /\ closed = FALSE
             /\ cleaner = IF kind = "memory" THEN "select" ELSE "none"
             /\ items = << >> /\ sweep = {} /\ reader = [r \in Readers |-> IdleReader]
             /\ version = 0 /\ replaced = << >> /\ clock = 0 /\ served = NotServed

-----------------------------------------------------------------------------
(* Every operation takes the lock, then looks whether the cache is closed.
   Redis has neither; after Close its client fails every command. *)
Open == (Memory => mu = "free") /\ ~closed
Refused == (Memory => mu = "free") /\ closed

(* Mutant: an expired item is still served. *)
LiveForever(k) == k \in DOMAIN items
Live(k) == k \in DOMAIN items /\ (items[k].noExpiry \/ clock <= items[k].exp)

(* Set: a ttl of zero never expires. *)
SetItems(ks, v, ttl) == Merge([k \in ks |-> [ver |-> v, exp |-> clock + ttl, noExpiry |-> ttl = 0]], items)
Removed(ks) == Drop(items, ks)

(* GetOrSet, GetOrSetJSON and the middleware: Get.  An error other than a miss
   is returned; the middleware goes on without the cache. *)
Get(r, k) ==
    /\ reader[r].pc = "idle" /\ Open
    /\ IF Live(k)
       THEN /\ served' = IF items[k].noExpiry THEN served ELSE [ver |-> items[k].ver, at |-> clock]
            /\ UNCHANGED reader
       ELSE /\ reader' = [reader EXCEPT ![r] = [pc |-> "compute", key |-> k, ver |-> 0, since |-> clock]]
            /\ UNCHANGED served
    /\ UNCHANGED <<kind, mu, closed, cleaner, items, sweep, version, replaced, clock>>

(* compute(), or the handler behind the middleware: it reads the source. *)
Compute(r) ==
    /\ reader[r].pc = "compute"
    /\ reader' = [reader EXCEPT ![r] = [pc |-> "store", key |-> reader[r].key, ver |-> version, since |-> reader[r].since]]
    /\ UNCHANGED <<kind, mu, closed, cleaner, items, sweep, version, replaced, clock, served>>

(* The value is stored, or not: compute failed, or the middleware found an
   error status, Cache-Control no-store or private, or Vary: *. *)
Store(r, cacheable) ==
    /\ reader[r].pc = "store"
    /\ cacheable => Open \/ Refused
    /\ items' = IF cacheable /\ Open THEN SetItems({reader[r].key}, reader[r].ver, CacheTTL) ELSE items
    /\ reader' = [reader EXCEPT ![r] = IdleReader]
    /\ UNCHANGED <<kind, mu, closed, cleaner, sweep, version, replaced, clock, served>>

(* The application changes the source; whether it tells the cache is its own
   affair: Set, SetMulti, Delete, DeleteMulti and Clear. *)
Update == /\ version < MaxVersion /\ version' = version + 1
          /\ replaced' = Put(replaced, version, clock)
          /\ UNCHANGED <<kind, mu, closed, cleaner, items, sweep, reader, clock, served>>
SetMulti(ks, ttl) == /\ Open /\ items' = SetItems(ks, version, ttl)
                     /\ UNCHANGED <<kind, mu, closed, cleaner, sweep, reader, version, replaced, clock, served>>
DeleteMulti(ks) == /\ Open /\ items' = Removed(ks)
                   /\ UNCHANGED <<kind, mu, closed, cleaner, sweep, reader, version, replaced, clock, served>>

(* Clear: one step in memory; with a Redis prefix a scan, batch by batch. *)
ClearCache ==
         /\ Open /\ sweep = {}
         /\ IF Memory THEN items' = << >> /\ UNCHANGED sweep
                      ELSE sweep' = CKeys /\ UNCHANGED items
         /\ UNCHANGED <<kind, mu, closed, cleaner, reader, version, replaced, clock, served>>
ClearBatch(k) == /\ k \in sweep /\ ~closed /\ items' = Removed({k}) /\ sweep' = sweep \ {k}
                 /\ UNCHANGED <<kind, mu, closed, cleaner, reader, version, replaced, clock, served>>

(* The cleanup goroutine: removeExpired takes the lock that Close may hold. *)
CleanerTick == /\ cleaner = "select" /\ cleaner' = "lock"
               /\ UNCHANGED <<kind, mu, closed, items, sweep, reader, version, replaced, clock, served>>
removeExpiredItems ==
                 /\ cleaner = "lock" /\ mu = "free" /\ cleaner' = "select"
                 /\ items' = Removed({k \in DOMAIN items : ~Live(k)})
                 /\ UNCHANGED <<kind, mu, closed, sweep, reader, version, replaced, clock, served>>
CleanerStops == /\ cleaner = "select" /\ closed /\ cleaner' = "done"
                /\ UNCHANGED <<kind, mu, closed, items, sweep, reader, version, replaced, clock, served>>
Cleaner == CleanerTick \/ removeExpiredItems \/ CleanerStops

(* Close holds the lock while it waits for the cleanup goroutine. *)
CacheClose == /\ Open /\ closed' = TRUE /\ mu' = IF Memory THEN "close" ELSE mu
              /\ UNCHANGED <<kind, cleaner, items, sweep, reader, version, replaced, clock, served>>
CloseReturn == /\ mu = "close" /\ cleaner = "done" /\ mu' = "free"
               /\ UNCHANGED <<kind, closed, cleaner, items, sweep, reader, version, replaced, clock, served>>

CacheTick == /\ clock < MaxTime /\ clock' = clock + 1
             /\ \A r \in Readers : reader[r].pc # "idle" => clock - reader[r].since < Slow
             /\ UNCHANGED <<kind, mu, closed, cleaner, items, sweep, reader, version, replaced, served>>

CacheNext ==
    \/ \E r \in Readers : \/ Compute(r)
                          \/ \E k \in CKeys : Get(r, k)
                          \/ \E c \in BOOLEAN : Store(r, c)
    \/ \E ks \in SUBSET CKeys \ {{}} : DeleteMulti(ks) \/ \E ttl \in {0, CacheTTL} : SetMulti(ks, ttl)
    \/ \E k \in CKeys : ClearBatch(k)
    \/ Update \/ ClearCache \/ Cleaner \/ CacheClose \/ CloseReturn \/ CacheTick

CacheSpec == CacheInit /\ [][CacheNext]_cacheVars

-----------------------------------------------------------------------------
(* Computing and storing are two steps, so a reader may put back a value that
   was replaced, or deleted from the cache, in between.  Still, what a reader
   gets from the cache was the source's value at most TTL plus one computation
   ago; only what was set without expiry may be older. *)
StaleIsBounded ==
    served.ver \in DOMAIN replaced => served.at <= replaced[served.ver] + CacheTTL + Slow

(* Close stops the cleanup goroutine and comes back. *)
CacheCloseReturns == mu = "close" ~> mu = "free"
=============================================================================
