---------------------------- MODULE CachedStore ----------------------------
(***************************************************************************)
(* The feature store in front of a persistent backend (store.c with        *)
(* LDStore.backend set), for one feature kind.  The backend is read and    *)
(* written with no lock held; the hash, now a cache whose items expire, is *)
(* updated in a second step under the write lock.  Between the two another *)
(* thread may do anything.  The network thread is the one writer; readers  *)
(* are application threads in LDStoreGet and LDStoreAll.                   *)
(*                                                                         *)
(* Ages replace the monotonic clock: an item's age counts the ticks since  *)
(* its updatedOn and stops one past the time to live.                      *)
(***************************************************************************)
EXTENDS Integers, Sequences, FiniteSets

CONSTANTS
    Keys, Versions, NULL,
    Readers,
    InOrder,        \* the service never sends a version of a feature older
                    \* than one it sent before
    CacheTTL,       \* storeCacheMilliseconds, in ticks; 0 disables the cache
    MaxStall,       \* bound: ticks from a backend read to its cache fill
    MaxAlls         \* bound: "all" items the hash may accumulate

ASSUME Bounds == InOrder \in BOOLEAN /\ CacheTTL \in Nat /\ MaxStall \in Nat /\ MaxAlls \in Nat
ASSUME VersionsArePositive == Versions \subseteq Nat \ {0}

Feature == [version : Versions \cup {0}, deleted : BOOLEAN]
Item == [feature : Feature, age : Nat]

ASSUME NULLAssumption == NULL \notin Feature \cup Item
Collection == [Keys -> Feature \cup {NULL}]
Empty == [key \in Keys |-> NULL]
Zero == [key \in Keys |-> 0]
Ages == 0..(CacheTTL + 1)

VARIABLES
    backend,        \* the persistent store's collection
    items,          \* items[key]: [feature, age], or NULL
    alls,           \* the "all" items of the hash, [features, age] each, the
                    \* one HASH_FIND meets first at the head
    held,           \* the cache's lock was left locked by a call that is over
    writer,         \* what the network thread has yet to do to the cache
    pc, key, data, stall,   \* per reader: its call, its backend read and
                            \* that read's age
    sent,           \* history: newest version of each feature sent so far
    floor,          \* history: version of the last completed write
    need, got       \* history: floor when a read began, and what it returned

cache == <<items, alls>>
hash == <<items, alls, held>>
readers == <<pc, key, data, stall, need, got>>
vars == <<backend, hash, writer, readers, sent, floor>>

NoWork == [op |-> "none"]

Init ==
    /\ backend = Empty
    /\ items = Empty
    /\ alls = <<>>
    /\ held = FALSE
    /\ writer = NoWork
    /\ pc = [r \in Readers |-> "idle"]
    /\ key = [r \in Readers |-> NULL]
    /\ data = [r \in Readers |-> NULL]
    /\ stall = [r \in Readers |-> 0]
    /\ sent = Zero
    /\ floor = Zero
    /\ need = [r \in Readers |-> Zero]
    /\ got = [r \in Readers |-> NULL]

-----------------------------------------------------------------------------
(* The cache.                                                              *)

\* Fault: a time to live of 0 does not disable the cache.
isExpiredByAgeOnly(item) == item.age > CacheTTL

isExpired(item) == CacheTTL = 0 \/ item.age > CacheTTL

ItemFresh(k) == items[k] # NULL /\ ~isExpired(items[k])
\* Fault: the listing is used however old it is.
AllFreshForever == alls # <<>>

AllFresh == alls # <<>> /\ ~isExpired(Head(alls))

\* Fault: the current item's version is not looked at.
KeptNever(k, replacement) == FALSE

\* upsertMemory keeps the current item.
Kept(k, replacement) ==
    /\ ItemFresh(k)
    /\ items[k].feature.version >= replacement.version

\* The backend's answer as upsertMemory is given it: a missing feature is
\* cached as a tombstone of version 0.
OrTombstone(answer) ==
    IF answer = NULL THEN [version |-> 0, deleted |-> TRUE] ELSE answer

\* upsertMemory: replace the item, drop the "all" item that is found.
upsertMemory(k, replacement) ==
    IF Kept(k, replacement)
      THEN UNCHANGED cache
      ELSE /\ items' = [items EXCEPT ![k] = [feature |-> replacement, age |-> 0]]
           /\ alls' = IF alls = <<>> THEN <<>> ELSE Tail(alls)

\* Features of a collection that a reader may be given.
Live(features) ==
    [k \in Keys |-> IF features[k] # NULL /\ features[k].deleted
                      THEN NULL ELSE features[k]]

Present(features) == {k \in Keys : features[k] # NULL}

\* filterAndCacheItems: each feature goes through upsertMemory, which drops
\* an "all" item whenever it replaces one.
Replaced(features, keys) == {k \in keys : ~Kept(k, features[k])}

filterAndCacheItems(features, keys) ==
    items' = [k \in Keys |-> IF k \in Replaced(features, keys)
                THEN [feature |-> features[k], age |-> 0] ELSE items[k]]

AllsLeft(features, keys) ==
    SubSeq(alls, Cardinality(Replaced(features, keys)) + 1, Len(alls))

\* With HASH_ADD in tryGetAllBackend: the listing is added whatever
\* upsertMemory kept.
cacheAll(features) ==
    /\ filterAndCacheItems(features, Present(features))
    /\ alls' = <<[features |-> features, age |-> 0]>>
                 \o AllsLeft(features, Present(features))

\* memoryInit: flush everything, cache the payload, no listing.
memoryInit(sets) ==
    /\ items' = [k \in Keys |-> IF sets[k] = NULL THEN NULL
                                ELSE [feature |-> sets[k], age |-> 0]]
    /\ alls' = <<>>

-----------------------------------------------------------------------------
(* The backend, by the contract of LDStoreInterface.upsert: only a newer   *)
(* feature replaces the current one.                                       *)

BackendHasNewer(k, feature) ==
    backend[k] # NULL /\ backend[k].version >= feature.version

backendUpsert(k, feature) ==
    backend' = IF BackendHasNewer(k, feature)
                 THEN backend ELSE [backend EXCEPT ![k] = feature]

-----------------------------------------------------------------------------
(* The network thread.  A backend that reports failure ends the call with  *)
(* the cache untouched, which is no step here.                             *)

Sent(k, feature) ==
    [sent EXCEPT ![k] = IF @ > feature.version THEN @ ELSE feature.version]

\* LDStoreUpsert, and LDStoreRemove when the feature is a tombstone.
LDStoreUpsert(k, feature) ==
    /\ writer = NoWork
    /\ InOrder => feature.version > sent[k]
    /\ sent' = Sent(k, feature)
    /\ backendUpsert(k, feature)
    /\ writer' = [op |-> "upsert", key |-> k, feature |-> feature]
    /\ UNCHANGED <<hash, readers, floor>>

\* Fault: the backend is written and the cache is not.
upsertSkipsCache ==
    /\ writer.op = "upsert"
    /\ writer' = NoWork
    /\ floor' = [floor EXCEPT ![writer.key] =
                   IF @ > writer.feature.version THEN @
                   ELSE writer.feature.version]
    /\ UNCHANGED <<backend, hash, readers, sent>>

upsertCompletes ==
    /\ writer.op = "upsert" /\ ~held
    /\ upsertMemory(writer.key, writer.feature)
    /\ writer' = NoWork
    /\ floor' = [floor EXCEPT ![writer.key] =
                   IF @ > writer.feature.version THEN @
                   ELSE writer.feature.version]
    /\ UNCHANGED <<backend, held, readers, sent>>

\* A new data set may be older: earlier writes bind no read any more.
LDStoreInit(sets) ==
    /\ writer = NoWork
    /\ InOrder => \A k \in Present(sets) : sets[k].version >= sent[k]
    /\ sent' = [k \in Keys |-> IF k \in Present(sets) /\ sets[k].version > sent[k]
                              THEN sets[k].version ELSE sent[k]]
    /\ backend' = sets
    /\ writer' = [op |-> "init", sets |-> sets]
    /\ floor' = Zero
    /\ need' = [r \in Readers |-> Zero]
    /\ UNCHANGED <<hash, pc, key, data, stall, got>>

initCompletes ==
    /\ writer.op = "init" /\ ~held
    /\ memoryInit(writer.sets)
    /\ writer' = NoWork
    /\ floor' = [k \in Keys |->
                   IF writer.sets[k] = NULL THEN 0 ELSE writer.sets[k].version]
    /\ UNCHANGED <<backend, held, readers, sent>>

-----------------------------------------------------------------------------
(* Readers.                                                                *)

Begin(r, call) ==
    /\ pc[r] = "idle" /\ ~held
    /\ pc' = [pc EXCEPT ![r] = call]
    /\ need' = [need EXCEPT ![r] = floor]

\* LDStoreGet on a hit, deleted or not.
getHit(r, k) ==
    /\ ItemFresh(k)
    /\ Begin(r, "got")
    /\ key' = [key EXCEPT ![r] = k]
    /\ got' = [got EXCEPT ![r] = items[k].feature]
    /\ UNCHANGED <<backend, hash, writer, data, stall, floor, sent>>

getMiss(r, k) ==
    /\ ~ItemFresh(k)
    /\ Begin(r, "get")
    /\ key' = [key EXCEPT ![r] = k]
    /\ UNCHANGED <<backend, hash, writer, data, stall, floor, sent, got>>

\* LDStoreAll on a hit.
allHit(r) ==
    /\ AllFresh
    /\ Begin(r, "listed")
    /\ got' = [got EXCEPT ![r] = Head(alls).features]
    /\ UNCHANGED <<backend, hash, writer, key, data, stall, floor, sent>>

allMiss(r) ==
    /\ ~AllFresh
    /\ Begin(r, "all")
    /\ UNCHANGED <<backend, hash, writer, key, data, stall, floor, sent, got>>

\* The call of backend->get or backend->all, no lock held.
readBackend(r) ==
    /\ pc[r] \in {"get", "all"}
    /\ pc' = [pc EXCEPT ![r] = IF pc[r] = "get" THEN "getFill" ELSE "allFill"]
    /\ data' = [data EXCEPT ![r] =
                  IF pc[r] = "get" THEN backend[key[r]] ELSE Live(backend)]
    /\ stall' = [stall EXCEPT ![r] = 0]
    /\ UNCHANGED <<backend, hash, writer, key, floor, sent, need, got>>

\* It failed, or what it returned did not parse or validate: LDBooleanFalse.
backendFails(r) ==
    /\ pc[r] \in {"get", "all"}
    /\ pc' = [pc EXCEPT ![r] = "idle"]
    /\ key' = [key EXCEPT ![r] = NULL]
    /\ need' = [need EXCEPT ![r] = Zero]
    /\ UNCHANGED <<backend, hash, writer, data, stall, floor, sent, got>>

\* tryGetBackend after the read: the caller gets what was read, even when
\* upsertMemory kept a newer item.
tryGetBackend(r) ==
    /\ pc[r] = "getFill" /\ ~held
    /\ upsertMemory(key[r], OrTombstone(data[r]))
    /\ pc' = [pc EXCEPT ![r] = "got"]
    /\ got' = [got EXCEPT ![r] = OrTombstone(data[r])]
    /\ data' = [data EXCEPT ![r] = NULL]
    /\ stall' = [stall EXCEPT ![r] = 0]
    /\ UNCHANGED <<backend, held, writer, key, floor, sent, need>>

\* tryGetAllBackend after the read.
tryGetAllBackend(r) ==
    /\ pc[r] = "allFill" /\ ~held
    /\ Len(alls) < MaxAlls
    /\ cacheAll(data[r])
    /\ pc' = [pc EXCEPT ![r] = "listed"]
    /\ got' = [got EXCEPT ![r] = data[r]]
    /\ data' = [data EXCEPT ![r] = NULL]
    /\ stall' = [stall EXCEPT ![r] = 0]
    /\ UNCHANGED <<backend, held, writer, key, floor, sent, need>>

\* No memory while the features are cached: those before stay, and the lock
\* is given up.  No memory for the listing after them: the lock is kept.
tryGetAllBackendFails(r) ==
    /\ pc[r] = "allFill" /\ ~held
    /\ \E keys \in SUBSET Present(data[r]) :
         /\ filterAndCacheItems(data[r], keys)
         /\ alls' = AllsLeft(data[r], keys)
         /\ held' = (keys = Present(data[r]))
    /\ pc' = [pc EXCEPT ![r] = "idle"]
    /\ data' = [data EXCEPT ![r] = NULL]
    /\ stall' = [stall EXCEPT ![r] = 0]
    /\ need' = [need EXCEPT ![r] = Zero]
    /\ UNCHANGED <<backend, writer, key, floor, sent, got>>

return(r) ==
    /\ pc[r] \in {"got", "listed"}
    /\ pc' = [pc EXCEPT ![r] = "idle"]
    /\ key' = [key EXCEPT ![r] = NULL]
    /\ need' = [need EXCEPT ![r] = Zero]
    /\ got' = [got EXCEPT ![r] = NULL]
    /\ UNCHANGED <<backend, hash, writer, data, stall, floor, sent>>

-----------------------------------------------------------------------------
(* Time.  No read sits between the backend and the cache for longer than   *)
(* MaxStall, unless it waits for a lock that is never given up.            *)

Filling(r) == pc[r] \in {"getFill", "allFill"}
Older(age) == IF age > CacheTTL THEN age ELSE age + 1

Tick ==
    /\ \A r \in Readers : Filling(r) /\ ~held => stall[r] < MaxStall
    /\ items' = [k \in Keys |-> IF items[k] = NULL THEN NULL
                   ELSE [items[k] EXCEPT !.age = Older(@)]]
    /\ alls' = [i \in DOMAIN alls |-> [alls[i] EXCEPT !.age = Older(@)]]
    /\ stall' = [r \in Readers |->
                   IF Filling(r) /\ stall[r] < MaxStall THEN stall[r] + 1
                                                        ELSE stall[r]]
    /\ UNCHANGED <<backend, held, writer, pc, key, data, floor, sent, need, got>>

Written == [version : Versions, deleted : BOOLEAN]

Next ==
    \/ \E k \in Keys, feature \in Written : LDStoreUpsert(k, feature)
    \/ upsertCompletes
    \/ \E sets \in [Keys -> Written \cup {NULL}] : LDStoreInit(sets)
    \/ initCompletes
    \/ \E r \in Readers, k \in Keys : getHit(r, k) \/ getMiss(r, k)
    \/ \E r \in Readers : allHit(r) \/ allMiss(r)
    \/ \E r \in Readers : readBackend(r) \/ backendFails(r)
    \/ \E r \in Readers : tryGetBackend(r) \/ tryGetAllBackend(r)
                          \/ tryGetAllBackendFails(r) \/ return(r)
    \/ Tick

Spec == Init /\ [][Next]_vars

-----------------------------------------------------------------------------
(* Properties.                                                             *)

(* What the cache holds for a feature the backend does not have is a       *)
(* tombstone, and what a reader in LDStoreGet holds is a feature.          *)
TypeOK ==
    /\ backend \in Collection
    /\ items \in [Keys -> [feature : Feature, age : Ages] \cup {NULL}]
    /\ alls \in Seq([features : Collection, age : Ages])
    /\ held \in BOOLEAN
    /\ writer.op \in {"none", "upsert", "init"}
    /\ pc \in [Readers -> {"idle", "get", "getFill", "got",
                           "all", "allFill", "listed"}]
    /\ key \in [Readers -> Keys \cup {NULL}]
    /\ \A r \in Readers :
         CASE pc[r] = "getFill" -> data[r] \in Feature \cup {NULL}
           [] pc[r] = "allFill" -> data[r] \in Collection
           [] OTHER -> data[r] = NULL
    /\ stall \in [Readers -> 0..MaxStall]
    /\ {sent, floor} \subseteq [Keys -> Versions \cup {0}]
    /\ need \in [Readers -> [Keys -> Versions \cup {0}]]
    /\ \A r \in Readers :
         CASE pc[r] = "got" -> got[r] \in Feature
           [] pc[r] = "listed" -> got[r] \in Collection
           [] OTHER -> got[r] = NULL

(* LDStoreGet called after LDStoreUpsert or LDStoreRemove of version v has *)
(* returned yields that version or a newer one, or the tombstone of one,   *)
(* though slower readers fill the cache with what they read before it.     *)
(* Needs MaxStall <= CacheTTL and InOrder.                                 *)
GetSeesCompletedWrites ==
    \A r \in Readers : pc[r] = "got" => got[r].version >= need[r][key[r]]

(* The same of LDStoreAll: no listing shows an older version of a feature, *)
(* or a removed one, after the write has returned.                         *)
AllSeesCompletedWrites ==
    \A r \in Readers : pc[r] = "listed" =>
        \A k \in Present(got[r]) : got[r][k].version >= need[r][k]

(* No call returns with the cache's lock in its hands.                     *)
LockReleased == ~held

(* An item that has not expired is never exchanged for an older version    *)
(* except by an init, whatever stale reads arrive.                         *)
FreshItemsNeverRegress ==
    [][\A k \in Keys :
         (ItemFresh(k) /\ writer.op # "init")
           => items'[k] # NULL
              /\ items'[k].feature.version >= items[k].feature.version]_items

-----------------------------------------------------------------------------
(* The inductive invariant.                                                *)

WriterOK ==
    \/ writer = NoWork
    \/ writer \in [op : {"upsert"}, key : Keys, feature : Written]
    \/ writer \in [op : {"init"}, sets : [Keys -> Written \cup {NULL}]]

Types ==
    /\ backend \in Collection
    /\ items \in [Keys -> Item \cup {NULL}]
    /\ held \in BOOLEAN
    /\ WriterOK
    /\ pc \in [Readers -> {"idle", "get", "getFill", "got", "all", "allFill", "listed"}]
    /\ key \in [Readers -> Keys \cup {NULL}]
    /\ data = [r \in Readers |-> data[r]] /\ got = [r \in Readers |-> got[r]]
    /\ \A r \in Readers :
         /\ pc[r] \in {"get", "getFill", "got"} => key[r] \in Keys
         /\ pc[r] = "getFill" => data[r] \in Feature \cup {NULL}
         /\ pc[r] = "allFill" => data[r] \in Collection
         /\ pc[r] = "got" => got[r] \in Feature
    /\ stall \in [Readers -> 0..MaxStall]
    /\ sent \in [Keys -> Nat] /\ floor \in [Keys -> Nat]
    /\ need \in [Readers -> [Keys -> Nat]]

\* The reader is about to store feature k, in this version.
Fills(r, k) == \/ pc[r] = "getFill" /\ key[r] = k
               \/ pc[r] = "allFill" /\ data[r][k] # NULL

Filled(r, k) == IF pc[r] = "getFill" THEN OrTombstone(data[r]) ELSE data[r][k]

\* Nothing is newer than what was sent.
OnlyWhatWasSent ==
    \A k \in Keys :
      /\ backend[k] # NULL => backend[k].version <= sent[k]
      /\ items[k] # NULL => items[k].feature.version <= sent[k]
      /\ floor[k] <= sent[k]
      /\ \A r \in Readers : Fills(r, k) => Filled(r, k).version <= sent[k]

\* The backend has what was written, and what is being written.
BackendCurrent ==
    /\ \A k \in Keys : floor[k] # 0 =>
         backend[k] # NULL /\ backend[k].version >= floor[k]
    /\ writer.op = "upsert" =>
         /\ backend[writer.key] # NULL
         /\ backend[writer.key].version >= writer.feature.version
         /\ writer.feature.version <= sent[writer.key]
         /\ InOrder => floor[writer.key] <= writer.feature.version
    /\ writer.op = "init" => backend = writer.sets /\ floor = Zero

\* No read asks for more than was written, and those under way have it.
ReadsCurrent ==
    \A r \in Readers :
      /\ \A k \in Keys : need[r][k] <= floor[k]
      /\ pc[r] = "getFill" => OrTombstone(data[r]).version >= need[r][key[r]]

\* A read that is older than the last write finds the item of that write, or
\* a newer one, still there: it has waited at least as long.
LateFills ==
    \A r \in Readers, k \in Keys :
      (~held /\ Fills(r, k) /\ Filled(r, k).version < floor[k]) =>
        /\ items[k] # NULL
        /\ items[k].feature.version >= floor[k]
        /\ items[k].age <= stall[r]

\* So it is when another read has already cached what is being written.
PendingFills ==
    \A r \in Readers, k \in Keys :
      (/\ ~held /\ writer.op = "upsert" /\ writer.key = k
       /\ Fills(r, k) /\ Filled(r, k).version < writer.feature.version
       /\ items[k] # NULL /\ items[k].feature.version >= writer.feature.version)
         => items[k].age <= stall[r]

\* What the cache answers with is no older than the last write.
CacheCurrent ==
    \A k \in Keys : ItemFresh(k) => items[k].feature.version >= floor[k]

StoreInv == Types /\ OnlyWhatWasSent /\ BackendCurrent /\ ReadsCurrent

CacheInv == StoreInv /\ LateFills /\ PendingFills /\ CacheCurrent

=============================================================================
