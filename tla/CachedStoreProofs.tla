-------------------------- MODULE CachedStoreProofs --------------------------
(***************************************************************************)
(* What a reader of the cached store may count on, for every set of keys,  *)
(* versions and readers and every time to live.  The backend always has    *)
(* the last write (StoreInv).  The cache has it too because a read that    *)
(* comes late with older data still finds the item of the write, which is  *)
(* no older than the read (CacheInv): that takes a service that sends      *)
(* versions in order, and reads that do not outlast the items.             *)
(***************************************************************************)
EXTENDS CachedStore, TLAPS

USE DEF Feature, Collection, Item, NoWork

Caching == InOrder /\ MaxStall <= CacheTTL /\ 0 < CacheTTL

(* A write's feature is a feature, and so is what stands for none.         *)
LEMMA WrittenIsFeature ==
    ASSUME NEW f \in Written
    PROVE  f \in Feature /\ f.version \in Nat /\ f.version > 0
<1>1. f.version \in Versions /\ f \in Feature
  BY DEF Written
<1>2. \A v \in Versions : v \in Nat /\ v > 0
  BY VersionsArePositive
<1> QED
  BY <1>1, <1>2, Zenon

LEMMA FeatureVersion ==
    ASSUME NEW f \in Feature
    PROVE  f.version \in Nat
<1>1. f.version \in Versions \cup {0}
  OBVIOUS
<1>2. \A v \in Versions \cup {0} : v \in Nat
  BY VersionsArePositive
<1> QED
  BY <1>1, <1>2, Zenon

LEMMA OrTombstoneType ==
    ASSUME NEW f \in Feature \cup {NULL}
    PROVE  OrTombstone(f) \in Feature
BY DEF OrTombstone

(* What a reader stores is a feature.                                      *)
LEMMA FilledType ==
    ASSUME Types, NEW r \in Readers, NEW k \in Keys, Fills(r, k)
    PROVE  Filled(r, k) \in Feature /\ Filled(r, k).version \in Nat
<1>1. CASE pc[r] = "getFill"
  BY <1>1, OrTombstoneType, FeatureVersion DEF Types, Filled
<1>2. CASE pc[r] = "allFill"
  <2>1. data[r][k] \in Feature
    BY <1>2 DEF Types, Fills
  <2> QED
    BY <1>2, <2>1, FeatureVersion DEF Filled
<1> QED
  BY <1>1, <1>2 DEF Fills

LEMMA ItemType ==
    ASSUME Types, NEW k \in Keys, items[k] # NULL
    PROVE  /\ items[k] \in Item
           /\ items[k].feature \in Feature /\ items[k].feature.version \in Nat
           /\ items[k].age \in Nat
BY FeatureVersion DEF Types

LEMMA BackendType ==
    ASSUME Types, NEW k \in Keys, backend[k] # NULL
    PROVE  backend[k] \in Feature /\ backend[k].version \in Nat
BY FeatureVersion DEF Types

-----------------------------------------------------------------------------
(* Steps of one reader.                                                    *)

\* The rest of the world does not see the reader's own variables change.
Untouched(q) ==
    pc'[q] = pc[q] /\ key'[q] = key[q] /\ data'[q] = data[q] /\ stall'[q] = stall[q]

\* The item stays, or the reader replaces it with what it read.
FillsItem(r, k) ==
    \/ items'[k] = items[k]
    \/ /\ ~held /\ Fills(r, k) /\ ~Kept(k, Filled(r, k))
       /\ items'[k] = [feature |-> Filled(r, k), age |-> 0]

\* Any step of a reader but the read of the backend.
ReaderStep(r) ==
    /\ \A q \in Readers \ {r} : Untouched(q) /\ need'[q] = need[q]
    /\ pc'[r] \notin {"getFill", "allFill"}
    /\ need'[r] \in {need[r], floor, Zero}
    /\ \A k \in Keys : FillsItem(r, k)
    /\ held => held'
    /\ UNCHANGED <<backend, writer, floor, sent>>

LEMMA UntouchedFills ==
    ASSUME NEW q, Untouched(q), NEW k
    PROVE  (Fills(q, k)' <=> Fills(q, k)) /\ Filled(q, k)' = Filled(q, k)
BY DEF Untouched, Fills, Filled, OrTombstone

LEMMA OtherFills ==
    ASSUME NEW r \in Readers, ReaderStep(r), NEW q \in Readers, NEW k, Fills(q, k)'
    PROVE  /\ q # r /\ Fills(q, k) /\ Filled(q, k)' = Filled(q, k)
           /\ stall'[q] = stall[q]
<1>1. q # r
  BY DEF ReaderStep, Fills
<1>2. Untouched(q)
  BY <1>1 DEF ReaderStep
<1> QED
  BY <1>1, <1>2, UntouchedFills DEF Untouched

(* The backend, and what may be asked of it, are not the reader's to change. *)
LEMMA ReaderKeepsStore ==
    ASSUME StoreInv, NEW r \in Readers, ReaderStep(r), Types'
    PROVE  StoreInv'
<1>1. OnlyWhatWasSent'
  <2> SUFFICES ASSUME NEW k \in Keys
               PROVE  (/\ backend[k] # NULL => backend[k].version <= sent[k]
                       /\ items[k] # NULL => items[k].feature.version <= sent[k]
                       /\ floor[k] <= sent[k]
                       /\ \A q \in Readers : Fills(q, k) =>
                            Filled(q, k).version <= sent[k])'
    BY DEF OnlyWhatWasSent
  <2>1. /\ UNCHANGED <<backend, floor, sent>>
        /\ backend[k] # NULL => backend[k].version <= sent[k]
        /\ floor[k] <= sent[k]
    BY DEF StoreInv, OnlyWhatWasSent, ReaderStep
  <2>2. items'[k] # NULL => items'[k].feature.version <= sent[k]
    <3>1. FillsItem(r, k)
      BY DEF ReaderStep
    <3>2. CASE items'[k] = items[k]
      BY <3>2 DEF StoreInv, OnlyWhatWasSent
    <3>3. CASE Fills(r, k) /\ items'[k] = [feature |-> Filled(r, k), age |-> 0]
      <4>1. items'[k].feature = Filled(r, k)
        BY <3>3
      <4>2. Filled(r, k).version <= sent[k]
        BY <3>3 DEF StoreInv, OnlyWhatWasSent
      <4> QED
        BY <4>1, <4>2
    <3> QED
      BY <3>1, <3>2, <3>3 DEF FillsItem
  <2>3. \A q \in Readers : Fills(q, k)' => Filled(q, k)'.version <= sent[k]
    BY OtherFills DEF StoreInv, OnlyWhatWasSent
  <2> QED
    BY <2>1, <2>2, <2>3
<1>2. BackendCurrent'
  BY DEF StoreInv, BackendCurrent, ReaderStep
<1>3. ReadsCurrent'
  <2> SUFFICES ASSUME NEW q \in Readers
               PROVE  (/\ \A k \in Keys : need[q][k] <= floor[k]
                       /\ pc[q] = "getFill" =>
                            OrTombstone(data[q]).version >= need[q][key[q]])'
    BY DEF ReadsCurrent
  <2>1. CASE q = r
    <3>1. need'[r] \in {need[r], floor, Zero} /\ floor' = floor
      BY DEF ReaderStep
    <3>2. \A k \in Keys : floor[k] \in Nat /\ need[r][k] <= floor[k] /\ Zero[k] = 0
      BY DEF StoreInv, Types, ReadsCurrent, Zero
    <3>3. \A k \in Keys : need'[r][k] <= floor'[k]
      BY <3>1, <3>2
    <3> QED
      BY <2>1, <3>3 DEF ReaderStep
  <2>2. CASE q # r
    <3>1. Untouched(q) /\ need'[q] = need[q] /\ floor' = floor
      BY <2>2 DEF ReaderStep
    <3> QED
      BY <3>1 DEF Untouched, StoreInv, ReadsCurrent, OrTombstone
  <2> QED
    BY <2>1, <2>2
<1> QED
  BY <1>1, <1>2, <1>3 DEF StoreInv

(* A fill that is older than the last write is not stored: the item it     *)
(* finds is fresh.                                                         *)
LEMMA LateFillIsKept ==
    ASSUME CacheInv, Caching, ~held, NEW r \in Readers, NEW k \in Keys,
           Fills(r, k), Filled(r, k).version < floor[k]
    PROVE  Kept(k, Filled(r, k)) /\ ItemFresh(k)
<1>1. Types
  BY DEF CacheInv, StoreInv
<1>2. items[k] # NULL /\ items[k].feature.version >= floor[k] /\ items[k].age <= stall[r]
  BY DEF CacheInv, LateFills
<1>3. stall[r] \in 0..MaxStall /\ floor[k] \in Nat
  BY <1>1 DEF Types
<1>4. items[k].age \in Nat /\ items[k].feature.version \in Nat /\ Filled(r, k).version \in Nat
  BY <1>1, <1>2, ItemType, FilledType
<1>5. ~isExpired(items[k])
  BY <1>2, <1>3, <1>4, Bounds DEF isExpired, Caching
<1> QED
  BY <1>2, <1>3, <1>4, <1>5 DEF Kept, ItemFresh

(* Nor does a reader take away what the cache knows of the last write.     *)
LEMMA ReaderKeepsCache ==
    ASSUME CacheInv, Caching, NEW r \in Readers, ReaderStep(r), Types'
    PROVE  CacheInv'
<1> USE DEF CacheInv
<1>0. Types
  BY DEF StoreInv
<1>1. StoreInv'
  BY ReaderKeepsStore
<1>2. UNCHANGED <<writer, floor>> /\ (~held' => ~held)
  BY DEF ReaderStep
<1>3. ASSUME NEW k \in Keys, items'[k] # items[k]
      PROVE  /\ ~held /\ Fills(r, k) /\ ~Kept(k, Filled(r, k))
             /\ items'[k].feature = Filled(r, k) /\ items'[k].age = 0
             /\ items'[k] # NULL
             /\ Filled(r, k).version \in Nat /\ floor[k] \in Nat
             /\ Filled(r, k).version >= floor[k]
  <2>1. /\ ~held /\ Fills(r, k) /\ ~Kept(k, Filled(r, k))
        /\ items'[k] = [feature |-> Filled(r, k), age |-> 0]
    BY <1>3 DEF ReaderStep, FillsItem
  <2>2. Filled(r, k) \in Feature /\ Filled(r, k).version \in Nat
    BY <1>0, <2>1, FilledType
  <2>3. items'[k] \in Item
    BY <2>1, <2>2
  <2>4. floor[k] \in Nat
    BY <1>0 DEF Types
  <2>5. ~(Filled(r, k).version < floor[k])
    BY <2>1, LateFillIsKept
  <2> QED
    BY <2>1, <2>2, <2>3, <2>4, <2>5, NULLAssumption
<1>4. LateFills'
  <2> SUFFICES ASSUME NEW q \in Readers, NEW k \in Keys,
                      ~held', Fills(q, k)', Filled(q, k)'.version < floor'[k]
               PROVE  /\ items'[k] # NULL
                      /\ items'[k].feature.version >= floor'[k]
                      /\ items'[k].age <= stall'[q]
    BY DEF LateFills
  <2>1. Fills(q, k) /\ Filled(q, k).version < floor[k] /\ stall'[q] = stall[q]
    BY <1>2, OtherFills
  <2>2. stall[q] \in Nat
    BY <1>0, Bounds DEF Types
  <2>3. CASE items'[k] = items[k]
    BY <1>2, <2>1, <2>3 DEF LateFills
  <2>4. CASE items'[k] # items[k]
    BY <1>2, <1>3, <2>1, <2>2, <2>4
  <2> QED
    BY <2>3, <2>4
<1>5. PendingFills'
  <2> SUFFICES ASSUME NEW q \in Readers, NEW k \in Keys,
                      ~held', writer'.op = "upsert", writer'.key = k,
                      Fills(q, k)', Filled(q, k)'.version < writer'.feature.version,
                      items'[k] # NULL,
                      items'[k].feature.version >= writer'.feature.version
               PROVE  items'[k].age <= stall'[q]
    BY DEF PendingFills
  <2>1. Fills(q, k) /\ Filled(q, k)' = Filled(q, k) /\ stall'[q] = stall[q]
    BY OtherFills
  <2>2. stall[q] \in Nat
    BY <1>0, Bounds DEF Types
  <2>3. CASE items'[k] = items[k]
    BY <1>2, <2>1, <2>3 DEF PendingFills
  <2>4. CASE items'[k] # items[k]
    BY <1>3, <2>1, <2>2, <2>4
  <2> QED
    BY <2>3, <2>4
<1>6. CacheCurrent'
  <2> SUFFICES ASSUME NEW k \in Keys, ItemFresh(k)'
               PROVE  items'[k].feature.version >= floor'[k]
    BY DEF CacheCurrent
  <2>1. CASE items'[k] = items[k]
    <3>1. ItemFresh(k)
      BY <2>1 DEF ItemFresh, isExpired
    <3> QED
      BY <1>2, <2>1, <3>1 DEF CacheCurrent
  <2>2. CASE items'[k] # items[k]
    BY <1>2, <1>3, <2>2
  <2> QED
    BY <2>1, <2>2
<1> QED
  BY <1>1, <1>4, <1>5, <1>6

-----------------------------------------------------------------------------
(* The actions of a reader are such steps.                                 *)

LEMMA ItemsStayItems ==
    ASSUME Types, NEW r \in Readers, \A k \in Keys : FillsItem(r, k),
           DOMAIN items' = Keys, items' = [k \in Keys |-> items'[k]]
    PROVE  items' \in [Keys -> Item \cup {NULL}]
<1> SUFFICES ASSUME NEW k \in Keys
             PROVE  items'[k] \in Item \cup {NULL}
  OBVIOUS
<1>1. CASE items'[k] = items[k]
  BY <1>1 DEF Types
<1>2. CASE Fills(r, k) /\ items'[k] = [feature |-> Filled(r, k), age |-> 0]
  <2>1. Filled(r, k) \in Feature
    BY <1>2, FilledType
  <2> QED
    BY <1>2, <2>1
<1> QED
  BY <1>1, <1>2 DEF FillsItem

\* What a step leaves of the types when only the reader's call changes.
LEMMA ReaderTypes ==
    ASSUME Types, NEW r \in Readers, ReaderStep(r), NEW p, NEW x, NEW d, NEW n, NEW g,
           pc' = [pc EXCEPT ![r] = p], key' = [key EXCEPT ![r] = x],
           data' = [data EXCEPT ![r] = d], got' = [got EXCEPT ![r] = g],
           need' = [need EXCEPT ![r] = n], n \in {need[r], floor, Zero},
           stall' = stall \/ stall' = [stall EXCEPT ![r] = 0],
           held' \in BOOLEAN, items' \in [Keys -> Item \cup {NULL}],
           p \in {"idle", "get", "got", "all", "listed"},
           x \in Keys \cup {NULL}, p \in {"get", "got"} => x \in Keys,
           p = "got" => g \in Feature
    PROVE  Types'
<1>1. UNCHANGED <<backend, writer, floor, sent>>
  BY DEF ReaderStep
<1>2. pc' \in [Readers -> {"idle", "get", "getFill", "got", "all", "allFill", "listed"}]
  BY DEF Types
<1>3. stall' \in [Readers -> 0..MaxStall]
  <2>1. 0 \in 0..MaxStall
    BY Bounds
  <2>2. stall \in [Readers -> 0..MaxStall]
    BY DEF Types
  <2>3. CASE stall' = [stall EXCEPT ![r] = 0]
    BY <2>1, <2>2, <2>3
  <2> QED
    BY <2>2, <2>3
<1>4. need' \in [Readers -> [Keys -> Nat]]
  <2>1. n \in [Keys -> Nat]
    BY DEF Types, Zero
  <2> QED
    BY <2>1 DEF Types
<1>5. /\ key' \in [Readers -> Keys \cup {NULL}]
      /\ data' = [q \in Readers |-> data'[q]] /\ got' = [q \in Readers |-> got'[q]]
  BY DEF Types
<1>6. ASSUME NEW q \in Readers
      PROVE  /\ pc'[q] \in {"get", "getFill", "got"} => key'[q] \in Keys
             /\ pc'[q] = "getFill" => data'[q] \in Feature \cup {NULL}
             /\ pc'[q] = "allFill" => data'[q] \in Collection
             /\ pc'[q] = "got" => got'[q] \in Feature
  <2>1. CASE q = r
    <3>1. pc'[q] = p /\ key'[q] = x /\ got'[q] = g
      BY <2>1 DEF Types
    <3> QED
      BY <3>1
  <2>2. CASE q # r
    <3>1. pc'[q] = pc[q] /\ key'[q] = key[q] /\ data'[q] = data[q] /\ got'[q] = got[q]
      BY <2>2 DEF Types
    <3> QED
      BY <3>1 DEF Types
  <2> QED
    BY <2>1, <2>2
<1>7. WriterOK'
  BY <1>1 DEF Types, WriterOK
<1> QED
  BY <1>1, <1>2, <1>3, <1>4, <1>5, <1>6, <1>7 DEF Types

\* A step that leaves the cache alone.
LEMMA CallStep ==
    ASSUME Types, NEW r \in Readers, NEW p, NEW x, NEW n, NEW g,
           pc' = [pc EXCEPT ![r] = p], key' = [key EXCEPT ![r] = x],
           got' = [got EXCEPT ![r] = g], need' = [need EXCEPT ![r] = n],
           n \in {need[r], floor, Zero},
           p \in {"idle", "get", "got", "all", "listed"},
           x \in Keys \cup {NULL}, p \in {"get", "got"} => x \in Keys,
           p = "got" => g \in Feature,
           UNCHANGED <<backend, items, held, writer, data, stall, floor, sent>>
    PROVE  ReaderStep(r) /\ Types'
<1>1. ReaderStep(r)
  <2>1. ASSUME NEW q \in Readers \ {r}
        PROVE  Untouched(q) /\ need'[q] = need[q]
    BY DEF Types, Untouched
  <2>2. pc'[r] = p /\ need'[r] = n
    BY DEF Types
  <2>3. \A k \in Keys : FillsItem(r, k)
    BY DEF FillsItem
  <2> QED
    BY <2>1, <2>2, <2>3 DEF ReaderStep
<1>2. data' = [data EXCEPT ![r] = data[r]]
  BY DEF Types
<1>3. held' \in BOOLEAN /\ items' \in [Keys -> Item \cup {NULL}]
  BY DEF Types
<1> QED
  BY <1>1, <1>2, <1>3, ReaderTypes

LEMMA CallActions ==
    ASSUME Types, NEW r \in Readers,
           \/ \E k \in Keys : getHit(r, k) \/ getMiss(r, k)
           \/ allHit(r) \/ allMiss(r) \/ backendFails(r) \/ return(r)
    PROVE  ReaderStep(r) /\ Types'
<1>0. /\ key = [key EXCEPT ![r] = key[r]] /\ key[r] \in Keys \cup {NULL}
      /\ got = [got EXCEPT ![r] = got[r]]
      /\ need = [need EXCEPT ![r] = need[r]]
  BY DEF Types
<1>1. ASSUME NEW k \in Keys, getHit(r, k) PROVE ReaderStep(r) /\ Types'
  <2>1. items[k].feature \in Feature
    BY <1>1, ItemType DEF getHit, ItemFresh
  <2>2. /\ pc' = [pc EXCEPT ![r] = "got"] /\ key' = [key EXCEPT ![r] = k]
        /\ got' = [got EXCEPT ![r] = items[k].feature] /\ need' = [need EXCEPT ![r] = floor]
        /\ UNCHANGED <<backend, items, held, writer, data, stall, floor, sent>>
    BY <1>1 DEF getHit, Begin, hash
  <2> QED
    BY <2>1, <2>2, CallStep
<1>2. ASSUME NEW k \in Keys, getMiss(r, k) PROVE ReaderStep(r) /\ Types'
  <2>1. /\ pc' = [pc EXCEPT ![r] = "get"] /\ key' = [key EXCEPT ![r] = k]
        /\ got' = got /\ need' = [need EXCEPT ![r] = floor]
        /\ UNCHANGED <<backend, items, held, writer, data, stall, floor, sent>>
    BY <1>2 DEF getMiss, Begin, hash
  <2> QED
    BY <1>0, <2>1, CallStep
<1>3. CASE allHit(r)
  <2>1. /\ pc' = [pc EXCEPT ![r] = "listed"] /\ key' = key
        /\ got' = [got EXCEPT ![r] = Head(alls).features]
        /\ need' = [need EXCEPT ![r] = floor]
        /\ UNCHANGED <<backend, items, held, writer, data, stall, floor, sent>>
    BY <1>3 DEF allHit, Begin, hash
  <2> QED
    BY <1>0, <2>1, CallStep
<1>4. CASE allMiss(r)
  <2>1. /\ pc' = [pc EXCEPT ![r] = "all"] /\ key' = key /\ got' = got
        /\ need' = [need EXCEPT ![r] = floor]
        /\ UNCHANGED <<backend, items, held, writer, data, stall, floor, sent>>
    BY <1>4 DEF allMiss, Begin, hash
  <2> QED
    BY <1>0, <2>1, CallStep
<1>5. CASE backendFails(r)
  <2>1. /\ pc' = [pc EXCEPT ![r] = "idle"] /\ key' = [key EXCEPT ![r] = NULL]
        /\ got' = got /\ need' = [need EXCEPT ![r] = Zero]
        /\ UNCHANGED <<backend, items, held, writer, data, stall, floor, sent>>
    BY <1>5 DEF backendFails, hash
  <2> QED
    BY <1>0, <2>1, CallStep
<1>6. CASE return(r)
  <2>1. /\ pc' = [pc EXCEPT ![r] = "idle"] /\ key' = [key EXCEPT ![r] = NULL]
        /\ got' = [got EXCEPT ![r] = NULL] /\ need' = [need EXCEPT ![r] = Zero]
        /\ UNCHANGED <<backend, items, held, writer, data, stall, floor, sent>>
    BY <1>6 DEF return, hash
  <2> QED
    BY <2>1, CallStep
<1> QED
  BY <1>1, <1>2, <1>3, <1>4, <1>5, <1>6

\* A step that ends a fill.
LEMMA FillStep ==
    ASSUME Types, NEW r \in Readers, NEW p, NEW n, NEW g,
           pc' = [pc EXCEPT ![r] = p], key' = key,
           data' = [data EXCEPT ![r] = NULL], stall' = [stall EXCEPT ![r] = 0],
           got' = [got EXCEPT ![r] = g], need' = [need EXCEPT ![r] = n],
           n \in {need[r], Zero},
           p \in {"idle", "got", "listed"},
           p = "got" => key[r] \in Keys /\ g \in Feature,
           ~held, held' \in BOOLEAN,
           \A k \in Keys : FillsItem(r, k),
           DOMAIN items' = Keys, items' = [k \in Keys |-> items'[k]],
           UNCHANGED <<backend, writer, floor, sent>>
    PROVE  ReaderStep(r) /\ Types'
<1>1. ReaderStep(r)
  <2>1. ASSUME NEW q \in Readers \ {r}
        PROVE  Untouched(q) /\ need'[q] = need[q]
    BY DEF Types, Untouched
  <2>2. pc'[r] = p /\ need'[r] = n
    BY DEF Types
  <2> QED
    BY <2>1, <2>2 DEF ReaderStep
<1>2. key' = [key EXCEPT ![r] = key[r]] /\ key[r] \in Keys \cup {NULL}
  BY DEF Types
<1>3. items' \in [Keys -> Item \cup {NULL}]
  BY ItemsStayItems
<1> QED
  BY <1>1, <1>2, <1>3, ReaderTypes

\* filterAndCacheItems stores what the reader has listed.
LEMMA ListingFills ==
    ASSUME Types, NEW r \in Readers, pc[r] = "allFill", ~held,
           NEW keys \in SUBSET Present(data[r]), filterAndCacheItems(data[r], keys)
    PROVE  /\ \A k \in Keys : FillsItem(r, k)
           /\ DOMAIN items' = Keys /\ items' = [k \in Keys |-> items'[k]]
<1>1. items' = [k \in Keys |-> IF k \in Replaced(data[r], keys)
                  THEN [feature |-> data[r][k], age |-> 0] ELSE items[k]]
  BY DEF filterAndCacheItems
<1>2. ASSUME NEW k \in Keys PROVE FillsItem(r, k)
  <2>1. CASE k \in Replaced(data[r], keys)
    <3>1. data[r][k] # NULL /\ ~Kept(k, data[r][k])
      BY <2>1 DEF Replaced, Present
    <3>2. Fills(r, k) /\ Filled(r, k) = data[r][k]
      BY <3>1 DEF Fills, Filled
    <3>3. items'[k] = [feature |-> data[r][k], age |-> 0]
      BY <1>1, <2>1
    <3> QED
      BY <3>1, <3>2, <3>3 DEF FillsItem
  <2>2. CASE k \notin Replaced(data[r], keys)
    BY <1>1, <2>2 DEF FillsItem
  <2> QED
    BY <2>1, <2>2
<1> QED
  BY <1>1, <1>2

LEMMA FillActions ==
    ASSUME Types, NEW r \in Readers,
           tryGetBackend(r) \/ tryGetAllBackend(r) \/ tryGetAllBackendFails(r)
    PROVE  ReaderStep(r) /\ Types'
<1>0. need = [need EXCEPT ![r] = need[r]] /\ got = [got EXCEPT ![r] = got[r]]
  BY DEF Types
<1>1. CASE tryGetBackend(r)
  <2> DEFINE f == OrTombstone(data[r])
  <2>1. /\ pc[r] = "getFill" /\ ~held /\ upsertMemory(key[r], f)
        /\ pc' = [pc EXCEPT ![r] = "got"] /\ key' = key
        /\ got' = [got EXCEPT ![r] = f] /\ need' = need /\ held' = held
        /\ data' = [data EXCEPT ![r] = NULL] /\ stall' = [stall EXCEPT ![r] = 0]
        /\ UNCHANGED <<backend, writer, floor, sent>>
    BY <1>1 DEF tryGetBackend
  <2>2. key[r] \in Keys /\ f \in Feature
    BY <2>1, OrTombstoneType DEF Types
  <2>3. Fills(r, key[r]) /\ Filled(r, key[r]) = f
    BY <2>1 DEF Fills, Filled
  <2>4. /\ \A k \in Keys : FillsItem(r, k)
        /\ DOMAIN items' = Keys /\ items' = [k \in Keys |-> items'[k]]
    <3> HIDE DEF f
    <3>1. CASE Kept(key[r], f)
      BY <2>1, <3>1 DEF upsertMemory, cache, FillsItem, Types
    <3>2. CASE ~Kept(key[r], f)
      <4>1. items' = [items EXCEPT ![key[r]] = [feature |-> f, age |-> 0]]
        BY <2>1, <3>2 DEF upsertMemory
      <4> QED
        BY <2>1, <2>2, <2>3, <3>2, <4>1 DEF FillsItem, Types
    <3> QED
      BY <3>1, <3>2
  <2>5. held' \in BOOLEAN
    BY <2>1 DEF Types
  <2> HIDE DEF f
  <2> QED
    BY <1>0, <2>1, <2>2, <2>4, <2>5, FillStep
<1>2. CASE tryGetAllBackend(r)
  <2>1. /\ pc[r] = "allFill" /\ ~held
        /\ filterAndCacheItems(data[r], Present(data[r]))
        /\ pc' = [pc EXCEPT ![r] = "listed"] /\ key' = key
        /\ got' = [got EXCEPT ![r] = data[r]] /\ need' = need /\ held' = held
        /\ data' = [data EXCEPT ![r] = NULL] /\ stall' = [stall EXCEPT ![r] = 0]
        /\ UNCHANGED <<backend, writer, floor, sent>>
    BY <1>2 DEF tryGetAllBackend, cacheAll
  <2>2. /\ \A k \in Keys : FillsItem(r, k)
        /\ DOMAIN items' = Keys /\ items' = [k \in Keys |-> items'[k]]
    BY <2>1, ListingFills
  <2>3. held' \in BOOLEAN
    BY <2>1 DEF Types
  <2> QED
    BY <1>0, <2>1, <2>2, <2>3, FillStep
<1>3. CASE tryGetAllBackendFails(r)
  <2>1. /\ pc[r] = "allFill" /\ ~held
        /\ pc' = [pc EXCEPT ![r] = "idle"] /\ key' = key
        /\ got' = got /\ need' = [need EXCEPT ![r] = Zero]
        /\ data' = [data EXCEPT ![r] = NULL] /\ stall' = [stall EXCEPT ![r] = 0]
        /\ UNCHANGED <<backend, writer, floor, sent>>
    BY <1>3 DEF tryGetAllBackendFails
  <2>2. PICK keys \in SUBSET Present(data[r]) :
          /\ filterAndCacheItems(data[r], keys)
          /\ held' = (keys = Present(data[r]))
    BY <1>3 DEF tryGetAllBackendFails
  <2>3. /\ \A k \in Keys : FillsItem(r, k)
        /\ DOMAIN items' = Keys /\ items' = [k \in Keys |-> items'[k]]
    BY <2>1, <2>2, ListingFills
  <2>4. held' \in BOOLEAN
    BY <2>2
  <2> QED
    BY <1>0, <2>1, <2>3, <2>4, FillStep
<1> QED
  BY <1>1, <1>2, <1>3

-----------------------------------------------------------------------------
(* The read of the backend.                                                *)

LEMMA ReadKeeps ==
    ASSUME StoreInv, NEW r \in Readers, readBackend(r)
    PROVE  /\ StoreInv'
           /\ \A k \in Keys : Fills(r, k)' =>
                /\ backend[k] # NULL \/ floor[k] = 0
                /\ backend[k] # NULL => Filled(r, k)' = backend[k]
           /\ \A q \in Readers \ {r} : Untouched(q)
<1> DEFINE d == IF pc[r] = "get" THEN backend[key[r]] ELSE Live(backend)
           p == IF pc[r] = "get" THEN "getFill" ELSE "allFill"
<1>0. Types
  BY DEF StoreInv
<1>1. /\ pc[r] \in {"get", "all"}
      /\ pc' = [pc EXCEPT ![r] = p] /\ data' = [data EXCEPT ![r] = d]
      /\ stall' = [stall EXCEPT ![r] = 0]
      /\ UNCHANGED <<backend, items, held, writer, key, floor, sent, need, got>>
  BY DEF readBackend, hash
<1>2. pc'[r] = p /\ data'[r] = d /\ key'[r] = key[r] /\ need'[r] = need[r]
  BY <1>0, <1>1 DEF Types
<1>3. \A q \in Readers \ {r} : Untouched(q)
  BY <1>0, <1>1 DEF Types, Untouched
<1>4. Live(backend) \in Collection
  BY <1>0 DEF Types, Live
<1>5. /\ p = "getFill" => key[r] \in Keys /\ d = backend[key[r]] /\ d \in Feature \cup {NULL}
      /\ p = "allFill" => d = Live(backend) /\ d \in Collection
  BY <1>0, <1>1, <1>4 DEF Types
<1>6. ASSUME NEW k \in Keys, Fills(r, k)'
      PROVE  /\ backend[k] # NULL => Filled(r, k)' = backend[k]
             /\ backend[k] = NULL => floor[k] = 0 /\ Filled(r, k)'.version = 0
  <2>1. floor[k] # 0 => backend[k] # NULL
    BY DEF StoreInv, BackendCurrent
  <2>2. CASE p = "getFill"
    <3>1. key[r] = k
      BY <1>2, <1>6, <2>2 DEF Fills
    <3>2. Filled(r, k)' = OrTombstone(backend[k])
      BY <1>2, <1>5, <2>2, <3>1 DEF Filled, OrTombstone
    <3> QED
      BY <2>1, <3>2 DEF OrTombstone
  <2>3. CASE p = "allFill"
    <3>1. Filled(r, k)' = Live(backend)[k] /\ Live(backend)[k] # NULL
      BY <1>2, <1>5, <1>6, <2>3 DEF Fills, Filled
    <3> QED
      BY <3>1 DEF Live
  <2> QED
    BY <2>2, <2>3
<1> HIDE DEF d, p
<1>7. Types'
  <2>1. p \in {"getFill", "allFill"}
    BY DEF p
  <2>2. pc' \in [Readers -> {"idle", "get", "getFill", "got", "all", "allFill", "listed"}]
    BY <1>0, <1>1, <2>1 DEF Types
  <2>3. stall' \in [Readers -> 0..MaxStall]
    BY <1>0, <1>1, Bounds DEF Types
  <2>4. data' = [q \in Readers |-> data'[q]]
    BY <1>0, <1>1 DEF Types
  <2>5. ASSUME NEW q \in Readers
        PROVE  /\ pc'[q] \in {"get", "getFill", "got"} => key'[q] \in Keys
               /\ pc'[q] = "getFill" => data'[q] \in Feature \cup {NULL}
               /\ pc'[q] = "allFill" => data'[q] \in Collection
               /\ pc'[q] = "got" => got'[q] \in Feature
    <3>1. CASE q = r
      BY <1>1, <1>2, <1>5, <2>1, <3>1
    <3>2. CASE q # r
      BY <1>0, <1>1, <1>3, <3>2 DEF Types, Untouched
    <3> QED
      BY <3>1, <3>2
  <2>6. WriterOK'
    BY <1>0, <1>1 DEF Types, WriterOK
  <2> QED
    BY <1>0, <1>1, <2>2, <2>3, <2>4, <2>5, <2>6 DEF Types
<1>8. OnlyWhatWasSent'
  <2> SUFFICES ASSUME NEW k \in Keys, NEW q \in Readers, Fills(q, k)'
               PROVE  Filled(q, k)'.version <= sent[k]
    BY <1>1 DEF StoreInv, OnlyWhatWasSent
  <2>1. CASE q = r
    BY <1>0, <1>6, <2>1 DEF StoreInv, OnlyWhatWasSent, Types
  <2>2. CASE q # r
    BY <1>3, <2>2, UntouchedFills DEF StoreInv, OnlyWhatWasSent
  <2> QED
    BY <2>1, <2>2
<1>9. BackendCurrent'
  BY <1>1 DEF StoreInv, BackendCurrent
<1>10. ReadsCurrent'
  <2> SUFFICES ASSUME NEW q \in Readers, pc'[q] = "getFill"
               PROVE  OrTombstone(data'[q]).version >= need[q][key[q]]
    BY <1>1 DEF StoreInv, ReadsCurrent, OrTombstone
  <2>1. CASE q = r
    <3> DEFINE k == key[r]
    <3>1. k \in Keys /\ OrTombstone(data'[r]) = OrTombstone(backend[k])
      BY <1>2, <1>5, <2>1
    <3>2. need[r][k] <= floor[k] /\ need[r][k] \in Nat /\ floor[k] \in Nat
      BY <1>0, <3>1 DEF StoreInv, ReadsCurrent, Types
    <3>3. floor[k] # 0 => backend[k] # NULL /\ backend[k].version >= floor[k]
      BY <3>1 DEF StoreInv, BackendCurrent
    <3>4. backend[k] # NULL => backend[k].version \in Nat
      BY <1>0, <3>1, BackendType
    <3> HIDE DEF k
    <3>5. OrTombstone(backend[k]).version >= floor[k]
      <4>1. CASE backend[k] = NULL
        BY <3>2, <3>3, <4>1 DEF OrTombstone
      <4>2. CASE backend[k] # NULL
        BY <3>2, <3>3, <3>4, <4>2 DEF OrTombstone
      <4> QED
        BY <4>1, <4>2
    <3>6. OrTombstone(backend[k]).version \in Nat
      BY <3>4 DEF OrTombstone
    <3> QED
      BY <2>1, <3>1, <3>2, <3>5, <3>6 DEF k
  <2>2. CASE q # r
    BY <1>3, <2>2 DEF Untouched, StoreInv, ReadsCurrent, OrTombstone
  <2> QED
    BY <2>1, <2>2
<1> QED
  BY <1>3, <1>6, <1>7, <1>8, <1>9, <1>10 DEF StoreInv

(* What is read from the backend is no older than the last write.          *)
LEMMA ReadKeepsCache ==
    ASSUME CacheInv, NEW r \in Readers, readBackend(r)
    PROVE  CacheInv'
<1> USE DEF CacheInv
<1>0. Types /\ UNCHANGED <<items, held, writer, floor, backend>>
  BY DEF StoreInv, readBackend, hash
<1>1. StoreInv'
  BY ReadKeeps
<1>2. \A q \in Readers \ {r} : Untouched(q)
  BY ReadKeeps
<1>3. ASSUME NEW k \in Keys, Fills(r, k)'
      PROVE  /\ ~(Filled(r, k)'.version < floor[k])
             /\ (writer.op = "upsert" /\ writer.key = k) =>
                  ~(Filled(r, k)'.version < writer.feature.version)
  <2>1. /\ backend[k] # NULL \/ floor[k] = 0
        /\ backend[k] # NULL => Filled(r, k)' = backend[k]
    BY <1>3, ReadKeeps
  <2>2. Filled(r, k)'.version \in Nat
    <3>1. Types'
      BY <1>1 DEF StoreInv
    <3>2. (Filled(r, k) \in Feature)'
      BY <1>3, <3>1, FilledType, PTL
    <3> QED
      BY <3>2, FeatureVersion
  <2>3. floor[k] \in Nat /\ (floor[k] # 0 => backend[k].version >= floor[k])
    BY <1>0 DEF StoreInv, BackendCurrent, Types
  <2>4. ~(Filled(r, k)'.version < floor[k])
    BY <2>1, <2>2, <2>3
  <2>5. ASSUME writer.op = "upsert", writer.key = k
        PROVE  ~(Filled(r, k)'.version < writer.feature.version)
    <3>1. /\ backend[k] # NULL /\ backend[k].version >= writer.feature.version
          /\ writer.feature.version \in Nat
      BY <1>0, <2>5, WrittenIsFeature DEF StoreInv, BackendCurrent, Types, WriterOK
    <3> QED
      BY <2>1, <2>2, <3>1
  <2> QED
    BY <2>4, <2>5
<1>4. LateFills'
  <2> SUFFICES ASSUME NEW q \in Readers, NEW k \in Keys,
                      ~held', Fills(q, k)', Filled(q, k)'.version < floor'[k]
               PROVE  /\ items'[k] # NULL
                      /\ items'[k].feature.version >= floor'[k]
                      /\ items'[k].age <= stall'[q]
    BY DEF LateFills
  <2>1. q # r
    BY <1>0, <1>3
  <2>2. Fills(q, k) /\ Filled(q, k)' = Filled(q, k) /\ stall'[q] = stall[q]
    BY <1>2, <2>1, UntouchedFills DEF Untouched
  <2> QED
    BY <1>0, <2>2 DEF LateFills
<1>5. PendingFills'
  <2> SUFFICES ASSUME NEW q \in Readers, NEW k \in Keys,
                      ~held', writer'.op = "upsert", writer'.key = k,
                      Fills(q, k)', Filled(q, k)'.version < writer'.feature.version,
                      items'[k] # NULL,
                      items'[k].feature.version >= writer'.feature.version
               PROVE  items'[k].age <= stall'[q]
    BY DEF PendingFills
  <2>1. q # r
    BY <1>0, <1>3
  <2>2. Fills(q, k) /\ Filled(q, k)' = Filled(q, k) /\ stall'[q] = stall[q]
    BY <1>2, <2>1, UntouchedFills DEF Untouched
  <2> QED
    BY <1>0, <2>2 DEF PendingFills
<1>6. CacheCurrent'
  BY <1>0 DEF CacheCurrent, ItemFresh, isExpired
<1> QED
  BY <1>1, <1>4, <1>5, <1>6

-----------------------------------------------------------------------------
(* The network thread.                                                     *)

LEMMA UpsertKeeps ==
    ASSUME StoreInv, NEW k0 \in Keys, NEW f \in Written, LDStoreUpsert(k0, f)
    PROVE  StoreInv'
<1>0. Types /\ f \in Feature /\ f.version \in Nat
  BY WrittenIsFeature DEF StoreInv
<1>1. /\ writer = NoWork /\ (InOrder => f.version > sent[k0]) /\ sent' = Sent(k0, f)
      /\ writer' = [op |-> "upsert", key |-> k0, feature |-> f]
      /\ backend' = IF BackendHasNewer(k0, f) THEN backend
                                              ELSE [backend EXCEPT ![k0] = f]
      /\ UNCHANGED <<items, held, pc, key, data, stall, need, got, floor>>
  BY DEF LDStoreUpsert, backendUpsert, hash, readers
<1>2. sent' \in [Keys -> Nat] /\ (\A k \in Keys : sent'[k] >= sent[k]) /\ sent'[k0] >= f.version
  BY <1>0, <1>1 DEF Types, Sent
<1>3. backend' \in Collection /\ backend'[k0] # NULL /\ backend'[k0].version \in Nat
  BY <1>0, <1>1, NULLAssumption, FeatureVersion DEF Types, BackendHasNewer
<1>4. \A k \in Keys : k # k0 => backend'[k] = backend[k]
  BY <1>0, <1>1 DEF Types
<1>5. /\ backend'[k0].version >= f.version
      /\ backend[k0] # NULL => backend'[k0].version >= backend[k0].version
      /\ backend'[k0].version <= sent'[k0]
  <2>1. CASE BackendHasNewer(k0, f)
    <3>1. backend' = backend /\ backend[k0] # NULL /\ backend[k0].version >= f.version
      BY <1>1, <2>1 DEF BackendHasNewer
    <3>2. backend[k0].version <= sent[k0] /\ sent[k0] \in Nat
      BY <1>0, <3>1 DEF StoreInv, OnlyWhatWasSent, Types
    <3>3. sent'[k0] >= sent[k0] /\ sent'[k0] \in Nat
      BY <1>2
    <3> QED
      BY <1>3, <3>1, <3>2, <3>3
  <2>2. CASE ~BackendHasNewer(k0, f)
    <3>1. backend'[k0] = f
      BY <1>0, <1>1, <2>2 DEF Types
    <3>2. backend[k0] # NULL => ~(backend[k0].version >= f.version)
      BY <2>2 DEF BackendHasNewer
    <3>3. backend[k0] # NULL => backend[k0].version \in Nat
      BY <1>0, BackendType
    <3> QED
      BY <1>0, <1>2, <3>1, <3>2, <3>3
  <2> QED
    BY <2>1, <2>2
<1>6. Types'
  <2>1. WriterOK'
    BY <1>1 DEF WriterOK
  <2> QED
    BY <1>0, <1>1, <1>2, <1>3, <2>1 DEF Types
<1>7. OnlyWhatWasSent'
  <2> SUFFICES ASSUME NEW k \in Keys
               PROVE  (/\ backend[k] # NULL => backend[k].version <= sent[k]
                       /\ items[k] # NULL => items[k].feature.version <= sent[k]
                       /\ floor[k] <= sent[k]
                       /\ \A q \in Readers : Fills(q, k) =>
                            Filled(q, k).version <= sent[k])'
    BY DEF OnlyWhatWasSent
  <2>1. sent[k] \in Nat /\ sent'[k] \in Nat /\ sent'[k] >= sent[k] /\ floor[k] \in Nat
    BY <1>0, <1>2 DEF Types
  <2>2. backend'[k] # NULL => backend'[k].version <= sent'[k]
    <3>1. CASE k = k0
      BY <1>5, <3>1
    <3>2. CASE k # k0
      <4>1. backend'[k] = backend[k]
        BY <1>4, <3>2
      <4>2. backend[k] # NULL => backend[k].version \in Nat /\ backend[k].version <= sent[k]
        BY <1>0, BackendType DEF StoreInv, OnlyWhatWasSent
      <4> QED
        BY <2>1, <4>1, <4>2
    <3> QED
      BY <3>1, <3>2
  <2>3. items'[k] # NULL => items'[k].feature.version <= sent'[k]
    <3>1. items[k] # NULL => items[k].feature.version \in Nat
                             /\ items[k].feature.version <= sent[k]
      BY <1>0, ItemType DEF StoreInv, OnlyWhatWasSent
    <3> QED
      BY <1>1, <2>1, <3>1
  <2>4. floor'[k] <= sent'[k]
    <3>1. floor[k] <= sent[k]
      BY DEF StoreInv, OnlyWhatWasSent
    <3> QED
      BY <1>1, <2>1, <3>1
  <2>5. ASSUME NEW q \in Readers, Fills(q, k)'
        PROVE  Filled(q, k)'.version <= sent'[k]
    <3>1. Fills(q, k) /\ Filled(q, k)' = Filled(q, k)
      BY <1>1, <2>5 DEF Fills, Filled, OrTombstone
    <3>2. Filled(q, k).version \in Nat /\ Filled(q, k).version <= sent[k]
      BY <1>0, <3>1, FilledType DEF StoreInv, OnlyWhatWasSent
    <3> QED
      BY <2>1, <3>1, <3>2
  <2> QED
    BY <2>2, <2>3, <2>4, <2>5
<1>8. BackendCurrent'
  <2>1. ASSUME NEW k \in Keys, floor'[k] # 0
        PROVE  backend'[k] # NULL /\ backend'[k].version >= floor'[k]
    <3>1. backend[k] # NULL /\ backend[k].version >= floor[k] /\ floor' = floor
      BY <1>1, <2>1 DEF StoreInv, BackendCurrent
    <3>2. backend[k].version \in Nat /\ floor[k] \in Nat
      BY <1>0, <3>1, BackendType DEF Types
    <3>3. CASE k = k0
      BY <1>3, <1>5, <3>1, <3>2, <3>3
    <3>4. CASE k # k0
      BY <1>4, <3>1, <3>4
    <3> QED
      BY <3>3, <3>4
  <2>2. /\ writer'.op = "upsert" /\ writer'.key = k0 /\ writer'.feature = f
        /\ f.version <= sent'[k0]
    BY <1>0, <1>1, <1>2
  <2>3. InOrder => floor[k0] <= f.version
    <3>1. floor[k0] <= sent[k0] /\ floor[k0] \in Nat /\ sent[k0] \in Nat
      BY <1>0 DEF StoreInv, OnlyWhatWasSent, Types
    <3> QED
      BY <1>0, <1>1, <3>1
  <2> QED
    BY <1>1, <1>3, <1>5, <2>1, <2>2, <2>3 DEF BackendCurrent
<1>9. ReadsCurrent'
  BY <1>1 DEF StoreInv, ReadsCurrent, OrTombstone
<1> QED
  BY <1>6, <1>7, <1>8, <1>9 DEF StoreInv

(* What is being written is newer than anything a reader may have cached.  *)
LEMMA UpsertKeepsCache ==
    ASSUME CacheInv, Caching, NEW k0 \in Keys, NEW f \in Written, LDStoreUpsert(k0, f)
    PROVE  CacheInv'
<1> USE DEF CacheInv
<1>1. StoreInv'
  BY UpsertKeeps
<1>2. /\ f.version > sent[k0]
      /\ writer' = [op |-> "upsert", key |-> k0, feature |-> f]
      /\ UNCHANGED <<items, held, pc, key, data, stall, need, got, floor>>
  BY DEF LDStoreUpsert, hash, readers, Caching
<1>3. ASSUME NEW q \in Readers, NEW k \in Keys
      PROVE  (Fills(q, k)' <=> Fills(q, k)) /\ Filled(q, k)' = Filled(q, k)
  BY <1>2, UntouchedFills DEF Untouched
<1>4. LateFills'
  BY <1>2, <1>3 DEF LateFills
<1>5. PendingFills'
  <2>1. writer'.key = k0 /\ writer'.feature = f
    BY <1>2
  <2>2. items[k0] # NULL => ~(items[k0].feature.version >= f.version)
    <3>1. Types /\ sent[k0] \in Nat /\ f.version \in Nat
      BY WrittenIsFeature DEF StoreInv, Types
    <3>2. items[k0] # NULL => items[k0].feature.version \in Nat
                              /\ items[k0].feature.version <= sent[k0]
      BY <3>1, ItemType DEF StoreInv, OnlyWhatWasSent
    <3> QED
      BY <1>2, <3>1, <3>2
  <2> QED
    BY <1>2, <2>1, <2>2 DEF PendingFills
<1>6. CacheCurrent'
  BY <1>2 DEF CacheCurrent, ItemFresh, isExpired
<1> QED
  BY <1>1, <1>4, <1>5, <1>6

LEMMA UpsertCompletesKeeps ==
    ASSUME StoreInv, upsertCompletes
    PROVE  /\ StoreInv' /\ ~held
           /\ \E k0 \in Keys, f \in Written :
                /\ writer = [op |-> "upsert", key |-> k0, feature |-> f]
                /\ floor' = [floor EXCEPT ![k0] = IF @ > f.version THEN @ ELSE f.version]
                /\ \/ Kept(k0, f) /\ items' = items
                   \/ /\ ~Kept(k0, f)
                      /\ items' = [items EXCEPT ![k0] = [feature |-> f, age |-> 0]]
                /\ writer' = NoWork
                /\ UNCHANGED <<held, pc, key, data, stall, need>>
<1>0. Types
  BY DEF StoreInv
<1>1. writer.op = "upsert"
  BY DEF upsertCompletes
<1>2. writer \in [op : {"upsert"}, key : Keys, feature : Written]
  <2>1. writer # NoWork
    BY <1>1
  <2> QED
    BY <1>0, <1>1, <2>1 DEF Types, WriterOK
<1>3. PICK k0 \in Keys, f \in Written : writer = [op |-> "upsert", key |-> k0, feature |-> f]
  BY <1>2
<1>4. writer.key = k0 /\ writer.feature = f
  BY <1>3
<1>5. /\ ~held /\ writer' = NoWork
      /\ floor' = [floor EXCEPT ![k0] = IF @ > f.version THEN @ ELSE f.version]
      /\ \/ Kept(k0, f) /\ items' = items
         \/ /\ ~Kept(k0, f)
            /\ items' = [items EXCEPT ![k0] = [feature |-> f, age |-> 0]]
      /\ UNCHANGED <<backend, held, sent, pc, key, data, stall, need, got>>
  BY <1>4 DEF upsertCompletes, upsertMemory, cache, readers
<1>6. f \in Feature /\ f.version \in Nat
  BY WrittenIsFeature
<1>7. floor' \in [Keys -> Nat] /\ \A k \in Keys : floor'[k] >= floor[k]
  BY <1>0, <1>5, <1>6 DEF Types
<1>8. floor'[k0] \in {floor[k0], f.version} /\ \A k \in Keys : k # k0 => floor'[k] = floor[k]
  BY <1>0, <1>5 DEF Types
<1>9. \A k \in Keys : items'[k] = items[k]
                      \/ (k = k0 /\ items'[k] = [feature |-> f, age |-> 0])
  BY <1>0, <1>5 DEF Types
<1>10. Types'
  <2>1. items' \in [Keys -> Item \cup {NULL}]
    <3>1. [feature |-> f, age |-> 0] \in Item
      BY <1>6
    <3> QED
      BY <1>0, <1>5, <3>1 DEF Types
  <2>2. WriterOK'
    BY <1>5 DEF WriterOK
  <2> QED
    BY <1>0, <1>5, <1>7, <2>1, <2>2 DEF Types
<1>11. /\ backend[k0] # NULL /\ backend[k0].version >= f.version /\ f.version <= sent[k0]
  BY <1>1, <1>4 DEF StoreInv, BackendCurrent
<1>12. OnlyWhatWasSent'
  <2> SUFFICES ASSUME NEW k \in Keys
               PROVE  (/\ backend[k] # NULL => backend[k].version <= sent[k]
                       /\ items[k] # NULL => items[k].feature.version <= sent[k]
                       /\ floor[k] <= sent[k]
                       /\ \A q \in Readers : Fills(q, k) =>
                            Filled(q, k).version <= sent[k])'
    BY DEF OnlyWhatWasSent
  <2>1. backend'[k] # NULL => backend'[k].version <= sent'[k]
    BY <1>5 DEF StoreInv, OnlyWhatWasSent
  <2>2. items'[k] # NULL => items'[k].feature.version <= sent'[k]
    <3>1. CASE items'[k] = items[k]
      BY <1>5, <3>1 DEF StoreInv, OnlyWhatWasSent
    <3>2. CASE k = k0 /\ items'[k] = [feature |-> f, age |-> 0]
      BY <1>5, <1>11, <3>2
    <3> QED
      BY <1>9, <3>1, <3>2
  <2>3. floor'[k] <= sent'[k]
    BY <1>5, <1>8, <1>11 DEF StoreInv, OnlyWhatWasSent
  <2>4. ASSUME NEW q \in Readers, Fills(q, k)'
        PROVE  Filled(q, k)'.version <= sent'[k]
    <3>1. Fills(q, k) /\ Filled(q, k)' = Filled(q, k)
      BY <1>5, <2>4 DEF Fills, Filled, OrTombstone
    <3> QED
      BY <1>5, <3>1 DEF StoreInv, OnlyWhatWasSent
  <2> QED
    BY <2>1, <2>2, <2>3, <2>4
<1>13. BackendCurrent'
  <2>1. ASSUME NEW k \in Keys, floor'[k] # 0
        PROVE  backend'[k] # NULL /\ backend'[k].version >= floor'[k]
    <3>1. CASE k = k0 /\ floor'[k] = f.version
      BY <1>5, <1>11, <3>1
    <3>2. CASE floor'[k] = floor[k]
      BY <1>5, <2>1, <3>2 DEF StoreInv, BackendCurrent
    <3> QED
      BY <1>8, <3>1, <3>2
  <2>2. writer'.op = "none"
    BY <1>5
  <2> QED
    BY <2>1, <2>2 DEF BackendCurrent
<1>14. ReadsCurrent'
  <2> SUFFICES ASSUME NEW q \in Readers
               PROVE  (/\ \A k \in Keys : need[q][k] <= floor[k]
                       /\ pc[q] = "getFill" =>
                            OrTombstone(data[q]).version >= need[q][key[q]])'
    BY DEF ReadsCurrent
  <2>1. pc'[q] = "getFill" => OrTombstone(data[q])'.version >= need'[q][key'[q]]
    BY <1>5 DEF StoreInv, ReadsCurrent, OrTombstone
  <2>2. ASSUME NEW k \in Keys
        PROVE  need'[q][k] <= floor'[k]
    <3>1. need[q][k] \in Nat /\ floor[k] \in Nat /\ need[q][k] <= floor[k]
      BY <1>0 DEF StoreInv, ReadsCurrent, Types
    <3>2. floor'[k] \in Nat /\ floor'[k] >= floor[k]
      BY <1>7
    <3> QED
      BY <1>5, <3>1, <3>2
  <2> QED
    BY <2>1, <2>2
<1>15. StoreInv'
  BY <1>10, <1>12, <1>13, <1>14 DEF StoreInv
<1> QED
  BY <1>3, <1>5, <1>15

(* The write is in the cache: its own item, or one that another reader put *)
(* there after it read the write from the backend.                         *)
LEMMA UpsertCompletesKeepsCache ==
    ASSUME CacheInv, Caching, upsertCompletes
    PROVE  CacheInv'
<1> USE DEF CacheInv
<1>0. Types /\ StoreInv' /\ ~held
  BY UpsertCompletesKeeps DEF StoreInv
<1>1. PICK k0 \in Keys, f \in Written :
        /\ writer = [op |-> "upsert", key |-> k0, feature |-> f]
        /\ floor' = [floor EXCEPT ![k0] = IF @ > f.version THEN @ ELSE f.version]
        /\ \/ Kept(k0, f) /\ items' = items
           \/ /\ ~Kept(k0, f)
              /\ items' = [items EXCEPT ![k0] = [feature |-> f, age |-> 0]]
        /\ writer' = NoWork
        /\ UNCHANGED <<held, pc, key, data, stall, need>>
  BY UpsertCompletesKeeps
<1>2. f \in Feature /\ f.version \in Nat
  BY WrittenIsFeature
<1>3. floor[k0] \in Nat /\ floor[k0] <= f.version
  <2>1. writer.op = "upsert" /\ writer.key = k0 /\ writer.feature = f
    BY <1>1
  <2> QED
    BY <1>0, <2>1 DEF StoreInv, BackendCurrent, Types, Caching
<1>4. floor'[k0] = f.version /\ \A k \in Keys : k # k0 => floor'[k] = floor[k]
  BY <1>0, <1>1, <1>2, <1>3 DEF Types
<1>5. ASSUME NEW q \in Readers, NEW k \in Keys
      PROVE  (Fills(q, k)' <=> Fills(q, k)) /\ Filled(q, k)' = Filled(q, k)
  BY <1>1, UntouchedFills DEF Untouched
<1>6. \A k \in Keys : k # k0 => items'[k] = items[k]
  BY <1>0, <1>1 DEF Types
<1>7. \/ Kept(k0, f) /\ items'[k0] = items[k0]
      \/ items'[k0] = [feature |-> f, age |-> 0] /\ items'[k0] # NULL
  <2>1. [feature |-> f, age |-> 0] \in Item
    BY <1>2
  <2> QED
    BY <1>0, <1>1, <2>1, NULLAssumption DEF Types
<1>8. /\ items'[k0] # NULL /\ items'[k0].feature.version >= f.version
      /\ ItemFresh(k0) => items'[k0].feature.version \in Nat
  BY <1>0, <1>2, <1>7, ItemType DEF Kept, ItemFresh
<1>9. LateFills'
  <2> SUFFICES ASSUME NEW q \in Readers, NEW k \in Keys,
                      ~held', Fills(q, k)', Filled(q, k)'.version < floor'[k]
               PROVE  /\ items'[k] # NULL
                      /\ items'[k].feature.version >= floor'[k]
                      /\ items'[k].age <= stall'[q]
    BY DEF LateFills
  <2>1. Fills(q, k) /\ Filled(q, k)' = Filled(q, k) /\ stall'[q] = stall[q]
    BY <1>1, <1>5
  <2>2. CASE k # k0
    BY <1>0, <1>4, <1>6, <2>1, <2>2 DEF LateFills
  <2>3. CASE k = k0
    <3>1. items'[k0].age <= stall[q]
      <4>1. CASE Kept(k0, f) /\ items'[k0] = items[k0]
        <5>1. writer.op = "upsert" /\ writer.key = k0 /\ writer.feature = f
          BY <1>1
        <5>2. Filled(q, k0).version < f.version /\ Fills(q, k0)
          BY <1>4, <2>1, <2>3
        <5>3. items[k0] # NULL /\ items[k0].feature.version >= f.version
          BY <4>1 DEF Kept, ItemFresh
        <5> QED
          BY <1>0, <4>1, <5>1, <5>2, <5>3 DEF PendingFills
      <4>2. CASE items'[k0] = [feature |-> f, age |-> 0]
        <5>1. stall[q] \in 0..MaxStall
          BY <1>0 DEF Types
        <5>2. items'[k0].age = 0
          BY <4>2
        <5> QED
          BY <5>1, <5>2, Bounds
      <4> QED
        BY <1>7, <4>1, <4>2
    <3> QED
      BY <1>4, <1>8, <2>1, <2>3, <3>1
  <2> QED
    BY <2>2, <2>3
<1>10. PendingFills'
  <2>1. writer'.op = "none"
    BY <1>1
  <2> QED
    BY <2>1 DEF PendingFills
<1>11. CacheCurrent'
  <2> SUFFICES ASSUME NEW k \in Keys, ItemFresh(k)'
               PROVE  items'[k].feature.version >= floor'[k]
    BY DEF CacheCurrent
  <2>1. CASE k = k0
    BY <1>4, <1>8, <2>1
  <2>2. CASE k # k0
    <3>1. items'[k] = items[k] /\ floor'[k] = floor[k]
      BY <1>4, <1>6, <2>2
    <3>2. ItemFresh(k)
      BY <3>1 DEF ItemFresh, isExpired
    <3> QED
      BY <3>1, <3>2 DEF CacheCurrent
  <2> QED
    BY <2>1, <2>2
<1> QED
  BY <1>0, <1>9, <1>10, <1>11

LEMMA ZeroType == Zero \in [Keys -> Nat] /\ \A k \in Keys : Zero[k] = 0
BY DEF Zero

(* A new data set binds no read until it is complete.                      *)
LEMMA InitBeginsKeeps ==
    ASSUME StoreInv, NEW sets \in [Keys -> Written \cup {NULL}], LDStoreInit(sets)
    PROVE  StoreInv' /\ LateFills' /\ PendingFills' /\ CacheCurrent'
<1>0. Types
  BY DEF StoreInv
<1>1. /\ sent' = [k \in Keys |-> IF k \in Present(sets) /\ sets[k].version > sent[k]
                                   THEN sets[k].version ELSE sent[k]]
      /\ backend' = sets /\ writer' = [op |-> "init", sets |-> sets]
      /\ floor' = Zero /\ need' = [r \in Readers |-> Zero]
      /\ UNCHANGED <<items, held, pc, key, data, stall, got>>
  BY DEF LDStoreInit, hash
<1>2. \A k \in Keys : sets[k] # NULL =>
        sets[k] \in Feature /\ sets[k].version \in Nat /\ k \in Present(sets)
  BY WrittenIsFeature DEF Present
<1>3. sets \in Collection
  BY <1>2
<1>4. ASSUME NEW k \in Keys
      PROVE  /\ sent'[k] \in Nat /\ sent'[k] >= sent[k] /\ sent[k] \in Nat
             /\ sets[k] # NULL => sent'[k] >= sets[k].version
  <2>1. sent'[k] = IF k \in Present(sets) /\ sets[k].version > sent[k]
                     THEN sets[k].version ELSE sent[k]
    BY <1>1
  <2>2. sent[k] \in Nat
    BY <1>0 DEF Types
  <2> QED
    BY <1>2, <2>1, <2>2 DEF Present
<1>5. sent' \in [Keys -> Nat]
  BY <1>1, <1>4
<1>6. Types'
  <2>1. WriterOK'
    BY <1>1 DEF WriterOK
  <2>2. floor' \in [Keys -> Nat] /\ need' \in [Readers -> [Keys -> Nat]]
    BY <1>1, ZeroType
  <2> QED
    BY <1>0, <1>1, <1>3, <1>5, <2>1, <2>2 DEF Types
<1>7. OnlyWhatWasSent'
  <2> SUFFICES ASSUME NEW k \in Keys
               PROVE  (/\ backend[k] # NULL => backend[k].version <= sent[k]
                       /\ items[k] # NULL => items[k].feature.version <= sent[k]
                       /\ floor[k] <= sent[k]
                       /\ \A q \in Readers : Fills(q, k) =>
                            Filled(q, k).version <= sent[k])'
    BY DEF OnlyWhatWasSent
  <2>1. backend'[k] # NULL => backend'[k].version <= sent'[k]
    BY <1>1, <1>2, <1>4
  <2>2. items'[k] # NULL => items'[k].feature.version <= sent'[k]
    <3>1. items[k] # NULL => items[k].feature.version \in Nat
                             /\ items[k].feature.version <= sent[k]
      BY <1>0, ItemType DEF StoreInv, OnlyWhatWasSent
    <3> QED
      BY <1>1, <1>4, <3>1
  <2>3. floor'[k] <= sent'[k]
    BY <1>1, <1>4, ZeroType
  <2>4. ASSUME NEW q \in Readers, Fills(q, k)'
        PROVE  Filled(q, k)'.version <= sent'[k]
    <3>1. Fills(q, k) /\ Filled(q, k)' = Filled(q, k)
      BY <1>1, <2>4 DEF Fills, Filled, OrTombstone
    <3>2. Filled(q, k).version \in Nat /\ Filled(q, k).version <= sent[k]
      BY <1>0, <3>1, FilledType DEF StoreInv, OnlyWhatWasSent
    <3> QED
      BY <1>4, <3>1, <3>2
  <2> QED
    BY <2>1, <2>2, <2>3, <2>4
<1>8. BackendCurrent'
  <2>1. writer'.op = "init" /\ writer'.sets = sets
    BY <1>1
  <2>2. Zero' = Zero
    BY DEF Zero
  <2> QED
    BY <1>1, <2>1, <2>2, ZeroType DEF BackendCurrent
<1>9. ReadsCurrent'
  <2> SUFFICES ASSUME NEW q \in Readers
               PROVE  (/\ \A k \in Keys : need[q][k] <= floor[k]
                       /\ pc[q] = "getFill" =>
                            OrTombstone(data[q]).version >= need[q][key[q]])'
    BY DEF ReadsCurrent
  <2>1. need'[q] = Zero
    BY <1>1
  <2>2. ASSUME pc'[q] = "getFill"
        PROVE  OrTombstone(data[q])'.version >= need'[q][key'[q]]
    <3>1. key[q] \in Keys /\ data[q] \in Feature \cup {NULL}
      BY <1>0, <1>1, <2>2 DEF Types
    <3>2. OrTombstone(data[q])' = OrTombstone(data[q])
      BY <1>1 DEF OrTombstone
    <3>3. OrTombstone(data[q]).version \in Nat
      BY <3>1, OrTombstoneType, FeatureVersion
    <3> QED
      BY <1>1, <2>1, <3>1, <3>2, <3>3, ZeroType
  <2> QED
    BY <1>1, <2>1, <2>2, ZeroType
<1>10. ASSUME NEW q \in Readers, NEW k \in Keys, Fills(q, k)'
       PROVE  ~(Filled(q, k)'.version < floor'[k])
  <2>1. Fills(q, k) /\ Filled(q, k)' = Filled(q, k)
    BY <1>1, <1>10 DEF Fills, Filled, OrTombstone
  <2>2. Filled(q, k).version \in Nat
    BY <1>0, <2>1, FilledType
  <2> QED
    BY <1>1, <2>1, <2>2, ZeroType
<1>11. LateFills'
  BY <1>10 DEF LateFills
<1>12. PendingFills'
  <2>1. writer'.op = "init"
    BY <1>1
  <2> QED
    BY <2>1 DEF PendingFills
<1>13. CacheCurrent'
  <2> SUFFICES ASSUME NEW k \in Keys, ItemFresh(k)'
               PROVE  items'[k].feature.version >= floor'[k]
    BY DEF CacheCurrent
  <2>1. items[k] # NULL
    BY <1>1 DEF ItemFresh
  <2>2. items[k].feature.version \in Nat
    BY <1>0, <2>1, ItemType
  <2> QED
    BY <1>1, <2>2, ZeroType
<1> QED
  BY <1>6, <1>7, <1>8, <1>9, <1>11, <1>12, <1>13 DEF StoreInv

(* The data set is in the backend and, from now on, in the cache.          *)
LEMMA InitCompletesKeeps ==
    ASSUME StoreInv, initCompletes
    PROVE  StoreInv' /\ LateFills' /\ PendingFills' /\ CacheCurrent'
<1>0. Types
  BY DEF StoreInv
<1>1. writer.op = "init"
  BY DEF initCompletes
<1>2. writer \in [op : {"init"}, sets : [Keys -> Written \cup {NULL}]]
  <2>1. writer # NoWork
    BY <1>1
  <2> QED
    BY <1>0, <1>1, <2>1 DEF Types, WriterOK
<1> DEFINE sets == writer.sets
<1>3. sets \in [Keys -> Written \cup {NULL}] /\ backend = sets /\ floor = Zero
  BY <1>1, <1>2 DEF StoreInv, BackendCurrent
<1> HIDE DEF sets
<1>4. /\ items' = [k \in Keys |-> IF sets[k] = NULL THEN NULL
                                    ELSE [feature |-> sets[k], age |-> 0]]
      /\ floor' = [k \in Keys |-> IF sets[k] = NULL THEN 0 ELSE sets[k].version]
      /\ writer' = NoWork
      /\ UNCHANGED <<backend, held, sent, pc, key, data, stall, need, got>>
  BY DEF initCompletes, memoryInit, readers, sets
<1>5. \A k \in Keys : sets[k] # NULL =>
        sets[k] \in Feature /\ sets[k].version \in Nat /\ sets[k].version <= sent[k]
  BY <1>3, WrittenIsFeature DEF StoreInv, OnlyWhatWasSent
<1>6. ASSUME NEW k \in Keys
      PROVE  /\ sets[k] = NULL => items'[k] = NULL /\ floor'[k] = 0
             /\ sets[k] # NULL => /\ items'[k] \in Item /\ items'[k].feature = sets[k]
                                  /\ items'[k].age = 0 /\ floor'[k] = sets[k].version
             /\ floor'[k] \in Nat
  BY <1>4, <1>5
<1>7. Types'
  <2>1. items' \in [Keys -> Item \cup {NULL}]
    BY <1>4, <1>6
  <2>2. floor' \in [Keys -> Nat]
    BY <1>4, <1>6
  <2>3. WriterOK'
    BY <1>4 DEF WriterOK
  <2> QED
    BY <1>0, <1>4, <2>1, <2>2, <2>3 DEF Types
<1>8. OnlyWhatWasSent'
  <2> SUFFICES ASSUME NEW k \in Keys
               PROVE  (/\ backend[k] # NULL => backend[k].version <= sent[k]
                       /\ items[k] # NULL => items[k].feature.version <= sent[k]
                       /\ floor[k] <= sent[k]
                       /\ \A q \in Readers : Fills(q, k) =>
                            Filled(q, k).version <= sent[k])'
    BY DEF OnlyWhatWasSent
  <2>1. backend'[k] # NULL => backend'[k].version <= sent'[k]
    BY <1>4 DEF StoreInv, OnlyWhatWasSent
  <2>2. items'[k] # NULL => items'[k].feature.version <= sent'[k]
    BY <1>4, <1>5, <1>6
  <2>3. floor'[k] <= sent'[k]
    <3>1. sent[k] \in Nat
      BY <1>0 DEF Types
    <3> QED
      BY <1>4, <1>5, <1>6, <3>1
  <2>4. ASSUME NEW q \in Readers, Fills(q, k)'
        PROVE  Filled(q, k)'.version <= sent'[k]
    <3>1. Fills(q, k) /\ Filled(q, k)' = Filled(q, k)
      BY <1>4, <2>4 DEF Fills, Filled, OrTombstone
    <3> QED
      BY <1>4, <3>1 DEF StoreInv, OnlyWhatWasSent
  <2> QED
    BY <2>1, <2>2, <2>3, <2>4
<1>9. BackendCurrent'
  <2>1. writer'.op = "none"
    BY <1>4
  <2>2. \A k \in Keys : floor'[k] # 0 => backend'[k] # NULL /\ backend'[k].version >= floor'[k]
    BY <1>3, <1>4, <1>5, <1>6
  <2> QED
    BY <2>1, <2>2 DEF BackendCurrent
<1>10. ReadsCurrent'
  <2> SUFFICES ASSUME NEW q \in Readers
               PROVE  (/\ \A k \in Keys : need[q][k] <= floor[k]
                       /\ pc[q] = "getFill" =>
                            OrTombstone(data[q]).version >= need[q][key[q]])'
    BY DEF ReadsCurrent
  <2>1. pc'[q] = "getFill" => OrTombstone(data[q])'.version >= need'[q][key'[q]]
    BY <1>4 DEF StoreInv, ReadsCurrent, OrTombstone
  <2>2. ASSUME NEW k \in Keys
        PROVE  need'[q][k] <= floor'[k]
    <3>1. need[q][k] \in Nat /\ need[q][k] <= 0
      BY <1>0, <1>3, ZeroType DEF StoreInv, ReadsCurrent, Types
    <3> QED
      BY <1>4, <1>6, <3>1
  <2> QED
    BY <2>1, <2>2
<1>11. LateFills'
  <2> SUFFICES ASSUME NEW q \in Readers, NEW k \in Keys,
                      Fills(q, k)', Filled(q, k)'.version < floor'[k]
               PROVE  /\ items'[k] # NULL
                      /\ items'[k].feature.version >= floor'[k]
                      /\ items'[k].age <= stall'[q]
    BY DEF LateFills
  <2>1. Fills(q, k) /\ Filled(q, k)' = Filled(q, k)
    BY <1>4 DEF Fills, Filled, OrTombstone
  <2>2. Filled(q, k).version \in Nat
    BY <1>0, <2>1, FilledType
  <2>3. sets[k] # NULL
    BY <1>6, <2>1, <2>2
  <2>4. stall'[q] \in Nat
    BY <1>0, <1>4, Bounds DEF Types
  <2> QED
    BY <1>5, <1>6, <2>3, <2>4, NULLAssumption
<1>12. PendingFills'
  <2>1. writer'.op = "none"
    BY <1>4
  <2> QED
    BY <2>1 DEF PendingFills
<1>13. CacheCurrent'
  <2> SUFFICES ASSUME NEW k \in Keys, ItemFresh(k)'
               PROVE  items'[k].feature.version >= floor'[k]
    BY DEF CacheCurrent
  <2>1. sets[k] # NULL
    BY <1>6 DEF ItemFresh
  <2> QED
    BY <1>5, <1>6, <2>1
<1> QED
  BY <1>7, <1>8, <1>9, <1>10, <1>11, <1>12, <1>13 DEF StoreInv

-----------------------------------------------------------------------------
(* Time.                                                                   *)

LEMMA TickItems ==
    ASSUME Types, Tick, NEW k \in Keys
    PROVE  /\ items'[k] \in Item \cup {NULL}
           /\ (items'[k] = NULL) <=> (items[k] = NULL)
           /\ items[k] # NULL => /\ items'[k].feature = items[k].feature
                                 /\ items'[k].age \in {items[k].age, items[k].age + 1}
<1>1. items'[k] = IF items[k] = NULL THEN NULL
                  ELSE [items[k] EXCEPT !.age = Older(items[k].age)]
  BY DEF Tick
<1>2. CASE items[k] = NULL
  BY <1>1, <1>2
<1>3. CASE items[k] # NULL
  <2>1. items[k] \in Item /\ items[k].age \in Nat
    BY <1>3, ItemType
  <2> DEFINE a == Older(items[k].age)
  <2>2. a \in {items[k].age, items[k].age + 1} /\ a \in Nat
    BY <2>1 DEF Older
  <2> HIDE DEF a
  <2>3. items'[k] = [items[k] EXCEPT !.age = a]
    BY <1>1, <1>3 DEF a
  <2>4. /\ items'[k] \in Item /\ items'[k].feature = items[k].feature
        /\ items'[k].age = a
    BY <2>1, <2>2, <2>3
  <2> QED
    BY <1>3, <2>2, <2>4, NULLAssumption
<1> QED
  BY <1>2, <1>3

LEMMA TickKeeps ==
    ASSUME StoreInv, Tick
    PROVE  StoreInv'
<1>0. Types
  BY DEF StoreInv
<1>1. /\ stall' = [r \in Readers |-> IF Filling(r) /\ stall[r] < MaxStall
                                       THEN stall[r] + 1 ELSE stall[r]]
      /\ items' = [k \in Keys |-> items'[k]]
      /\ UNCHANGED <<backend, held, writer, pc, key, data, floor, sent, need, got>>
  BY DEF Tick
<1>2. Types'
  <2>1. items' \in [Keys -> Item \cup {NULL}]
    BY <1>0, <1>1, TickItems
  <2>2. stall' \in [Readers -> 0..MaxStall]
    BY <1>0, <1>1, Bounds DEF Types
  <2>3. WriterOK'
    BY <1>0, <1>1 DEF Types, WriterOK
  <2> QED
    BY <1>0, <1>1, <2>1, <2>2, <2>3 DEF Types
<1>3. OnlyWhatWasSent'
  <2> SUFFICES ASSUME NEW k \in Keys
               PROVE  (/\ backend[k] # NULL => backend[k].version <= sent[k]
                       /\ items[k] # NULL => items[k].feature.version <= sent[k]
                       /\ floor[k] <= sent[k]
                       /\ \A q \in Readers : Fills(q, k) =>
                            Filled(q, k).version <= sent[k])'
    BY DEF OnlyWhatWasSent
  <2>1. items'[k] # NULL => items'[k].feature.version <= sent'[k]
    BY <1>0, <1>1, TickItems DEF StoreInv, OnlyWhatWasSent
  <2>2. ASSUME NEW q \in Readers, Fills(q, k)'
        PROVE  Filled(q, k)'.version <= sent'[k]
    <3>1. Fills(q, k) /\ Filled(q, k)' = Filled(q, k)
      BY <1>1, <2>2 DEF Fills, Filled, OrTombstone
    <3> QED
      BY <1>1, <3>1 DEF StoreInv, OnlyWhatWasSent
  <2> QED
    BY <1>1, <2>1, <2>2 DEF StoreInv, OnlyWhatWasSent
<1>4. BackendCurrent' /\ ReadsCurrent'
  BY <1>1 DEF StoreInv, BackendCurrent, ReadsCurrent, OrTombstone
<1> QED
  BY <1>2, <1>3, <1>4 DEF StoreInv

(* Items and the reads that wait to store them age together.               *)
LEMMA TickKeepsCache ==
    ASSUME CacheInv, Tick
    PROVE  CacheInv'
<1> USE DEF CacheInv
<1>0. Types /\ StoreInv'
  BY TickKeeps DEF StoreInv
<1>1. UNCHANGED <<held, writer, pc, key, data, floor>>
  BY DEF Tick
<1>2. ASSUME NEW q \in Readers, NEW k \in Keys, ~held, Fills(q, k)',
             items'[k] # NULL, items[k].age <= stall[q]
      PROVE  items'[k].age <= stall'[q]
  <2>1. Filling(q)
    BY <1>1, <1>2 DEF Filling, Fills
  <2>2. stall[q] < MaxStall
    BY <1>2, <2>1 DEF Tick
  <2>3. stall'[q] = stall[q] + 1
    BY <2>1, <2>2 DEF Tick
  <2>4. /\ items[k] # NULL /\ items'[k].age \in {items[k].age, items[k].age + 1}
        /\ items[k].age \in Nat
    BY <1>0, <1>2, TickItems, ItemType
  <2>5. stall[q] \in Nat
    BY <1>0, Bounds DEF Types
  <2> QED
    BY <1>2, <2>3, <2>4, <2>5
<1>3. ASSUME NEW q \in Readers, NEW k \in Keys
      PROVE  (Fills(q, k)' <=> Fills(q, k)) /\ Filled(q, k)' = Filled(q, k)
  BY <1>1 DEF Fills, Filled, OrTombstone
<1>4. LateFills'
  <2> SUFFICES ASSUME NEW q \in Readers, NEW k \in Keys,
                      ~held', Fills(q, k)', Filled(q, k)'.version < floor'[k]
               PROVE  /\ items'[k] # NULL
                      /\ items'[k].feature.version >= floor'[k]
                      /\ items'[k].age <= stall'[q]
    BY DEF LateFills
  <2>1. /\ items[k] # NULL /\ items[k].feature.version >= floor[k]
        /\ items[k].age <= stall[q]
    BY <1>1, <1>3 DEF LateFills
  <2>2. items'[k] # NULL /\ items'[k].feature = items[k].feature
    BY <1>0, <2>1, TickItems
  <2> QED
    BY <1>1, <1>2, <2>1, <2>2
<1>5. PendingFills'
  <2> SUFFICES ASSUME NEW q \in Readers, NEW k \in Keys,
                      ~held', writer'.op = "upsert", writer'.key = k,
                      Fills(q, k)', Filled(q, k)'.version < writer'.feature.version,
                      items'[k] # NULL,
                      items'[k].feature.version >= writer'.feature.version
               PROVE  items'[k].age <= stall'[q]
    BY DEF PendingFills
  <2>1. items[k] # NULL /\ items'[k].feature = items[k].feature
    BY <1>0, TickItems
  <2>2. items[k].age <= stall[q]
    BY <1>1, <1>3, <2>1 DEF PendingFills
  <2> QED
    BY <1>1, <1>2, <2>2
<1>6. CacheCurrent'
  <2> SUFFICES ASSUME NEW k \in Keys, ItemFresh(k)'
               PROVE  items'[k].feature.version >= floor'[k]
    BY DEF CacheCurrent
  <2>1. items'[k] # NULL /\ CacheTTL # 0 /\ ~(items'[k].age > CacheTTL)
    BY DEF ItemFresh, isExpired
  <2>2. /\ items[k] # NULL /\ items'[k].feature = items[k].feature
        /\ items'[k].age \in {items[k].age, items[k].age + 1} /\ items[k].age \in Nat
    BY <1>0, <2>1, TickItems, ItemType
  <2>3. ~(items[k].age > CacheTTL)
    BY <2>1, <2>2, Bounds
  <2>4. ItemFresh(k)
    BY <2>1, <2>2, <2>3 DEF ItemFresh, isExpired
  <2> QED
    BY <1>1, <2>2, <2>4 DEF CacheCurrent
<1> QED
  BY <1>0, <1>4, <1>5, <1>6

-----------------------------------------------------------------------------
(* The invariants.                                                         *)

\* A step of Next is one of these.
Steps ==
    \/ \E k \in Keys, f \in Written : LDStoreUpsert(k, f)
    \/ upsertCompletes
    \/ \E sets \in [Keys -> Written \cup {NULL}] : LDStoreInit(sets)
    \/ initCompletes
    \/ \E r \in Readers : readBackend(r) \/ (ReaderStep(r) /\ Types')
    \/ Tick

LEMMA NextSteps == ASSUME Types, Next PROVE Steps
BY CallActions, FillActions DEF Next, Steps

LEMMA StoreStep == ASSUME StoreInv, [Next]_vars PROVE StoreInv'
<1>1. CASE Next
  <2>1. Steps
    BY <1>1, NextSteps DEF StoreInv
  <2> QED
    BY <2>1, UpsertKeeps, UpsertCompletesKeeps, InitBeginsKeeps, InitCompletesKeeps,
       ReadKeeps, ReaderKeepsStore, TickKeeps DEF Steps
<1>2. CASE UNCHANGED vars
  BY <1>2 DEF vars, hash, readers, StoreInv, Types, WriterOK, OnlyWhatWasSent,
     BackendCurrent, ReadsCurrent, Fills, Filled, OrTombstone
<1> QED
  BY <1>1, <1>2

LEMMA CacheStep == ASSUME CacheInv, Caching, [Next]_vars PROVE CacheInv'
<1>1. CASE Next
  <2>1. Steps
    BY <1>1, NextSteps DEF CacheInv, StoreInv
  <2>2. ASSUME NEW sets \in [Keys -> Written \cup {NULL}], LDStoreInit(sets)
        PROVE  CacheInv'
    BY <2>2, InitBeginsKeeps DEF CacheInv
  <2>3. CASE initCompletes
    BY <2>3, InitCompletesKeeps DEF CacheInv
  <2> QED
    BY <2>1, <2>2, <2>3, UpsertKeepsCache, UpsertCompletesKeepsCache,
       ReadKeepsCache, ReaderKeepsCache, TickKeepsCache DEF Steps
<1>2. CASE UNCHANGED vars
  <2>1. StoreInv'
    BY <1>2, StoreStep DEF CacheInv
  <2>2. UNCHANGED <<items, held, writer, pc, key, data, stall, floor>>
    BY <1>2 DEF vars, hash, readers
  <2> QED
    BY <2>1, <2>2 DEF CacheInv, LateFills, PendingFills, CacheCurrent, Fills,
       Filled, OrTombstone, ItemFresh, isExpired
<1> QED
  BY <1>1, <1>2

LEMMA InitStore == ASSUME Init PROVE CacheInv
<1>1. Types
  <2>1. /\ backend \in Collection /\ items \in [Keys -> Item \cup {NULL}]
        /\ held \in BOOLEAN /\ WriterOK
    BY DEF Init, WriterOK, Empty
  <2>2. /\ pc \in [Readers -> {"idle", "get", "getFill", "got", "all", "allFill", "listed"}]
        /\ key \in [Readers -> Keys \cup {NULL}]
        /\ data = [r \in Readers |-> data[r]] /\ got = [r \in Readers |-> got[r]]
        /\ \A r \in Readers : pc[r] = "idle"
    BY DEF Init
  <2>3. /\ sent \in [Keys -> Nat] /\ floor \in [Keys -> Nat]
        /\ need \in [Readers -> [Keys -> Nat]]
    BY ZeroType DEF Init
  <2>4. stall \in [Readers -> 0..MaxStall]
    BY Bounds DEF Init
  <2> QED
    BY <2>1, <2>2, <2>3, <2>4 DEF Types
<1>2. \A k \in Keys : items[k] = NULL /\ backend[k] = NULL /\ floor[k] = 0 /\ sent[k] = 0
  BY ZeroType DEF Init, Empty
<1>3. \A r \in Readers : pc[r] = "idle" /\ \A k \in Keys : need[r][k] = 0
  BY ZeroType DEF Init
<1>4. writer.op = "none"
  BY DEF Init
<1> QED
  BY <1>1, <1>2, <1>3, <1>4 DEF CacheInv, StoreInv, OnlyWhatWasSent, BackendCurrent,
     ReadsCurrent, LateFills, PendingFills, CacheCurrent, Fills, ItemFresh

(* Whatever the service sends and however late reads are, the backend has  *)
(* every write that has returned and a read of it is given no less.        *)
THEOREM StoreInvHolds == Spec => []StoreInv
<1>1. Init => StoreInv
  BY InitStore DEF CacheInv
<1>2. StoreInv /\ [Next]_vars => StoreInv'
  BY StoreStep
<1> QED
  BY <1>1, <1>2, PTL DEF Spec

(* The cache has it too: a stale read never takes the place of a write.    *)
THEOREM CacheInvHolds ==
    ASSUME Caching
    PROVE  Spec => []CacheInv
<1>1. Init => CacheInv
  BY InitStore
<1>2. CacheInv /\ [Next]_vars => CacheInv'
  BY CacheStep
<1> QED
  BY <1>1, <1>2, PTL DEF Spec

-----------------------------------------------------------------------------
(* What they are for.                                                      *)

(* One reader at a time ends its read, with an item of the cache or with   *)
(* what it read from the backend.                                          *)
LEMMA GetStep ==
    ASSUME StoreInv, CacheTTL = 0 \/ CacheCurrent, GetSeesCompletedWrites, [Next]_vars
    PROVE  GetSeesCompletedWrites'
<1> SUFFICES ASSUME NEW q \in Readers, pc'[q] = "got"
             PROVE  got'[q].version >= need'[q][key'[q]]
  BY DEF GetSeesCompletedWrites
<1>0. Types
  BY DEF StoreInv
<1>1. CASE UNCHANGED <<pc, key, got, need>>
  BY <1>1 DEF GetSeesCompletedWrites
<1>2. ASSUME NEW sets, LDStoreInit(sets)
      PROVE  got'[q].version >= need'[q][key'[q]]
  <2>1. need' = [r \in Readers |-> Zero] /\ UNCHANGED <<pc, key, got>>
    BY <1>2 DEF LDStoreInit
  <2>2. got[q].version \in Nat /\ key[q] \in Keys
    BY <1>0, <2>1, FeatureVersion DEF Types
  <2> QED
    BY <2>1, <2>2, ZeroType
<1>3. ASSUME NEW r \in Readers, NEW k \in Keys, getHit(r, k)
      PROVE  got'[q].version >= need'[q][key'[q]]
  <2>1. /\ ItemFresh(k) /\ pc' = [pc EXCEPT ![r] = "got"] /\ key' = [key EXCEPT ![r] = k]
        /\ got' = [got EXCEPT ![r] = items[k].feature] /\ need' = [need EXCEPT ![r] = floor]
    BY <1>3 DEF getHit, Begin
  <2>2. CASE q = r
    <3>1. got'[q] = items[k].feature /\ need'[q] = floor /\ key'[q] = k
      BY <1>0, <2>1, <2>2 DEF Types
    <3>2. CacheTTL # 0
      BY <2>1 DEF ItemFresh, isExpired
    <3> QED
      BY <2>1, <3>1, <3>2 DEF CacheCurrent
  <2>3. CASE q # r
    <3>1. pc[q] = "got" /\ got'[q] = got[q] /\ need'[q] = need[q] /\ key'[q] = key[q]
      BY <1>0, <2>1, <2>3 DEF Types
    <3> QED
      BY <3>1 DEF GetSeesCompletedWrites
  <2> QED
    BY <2>2, <2>3
<1>4. ASSUME NEW r \in Readers, tryGetBackend(r)
      PROVE  got'[q].version >= need'[q][key'[q]]
  <2>1. /\ pc[r] = "getFill" /\ pc' = [pc EXCEPT ![r] = "got"]
        /\ got' = [got EXCEPT ![r] = OrTombstone(data[r])] /\ UNCHANGED <<key, need>>
    BY <1>4 DEF tryGetBackend
  <2>2. CASE q = r
    <3>1. got'[q] = OrTombstone(data[q])
      BY <1>0, <2>1, <2>2 DEF Types
    <3> QED
      BY <2>1, <2>2, <3>1 DEF StoreInv, ReadsCurrent
  <2>3. CASE q # r
    <3>1. pc[q] = "got" /\ got'[q] = got[q]
      BY <1>0, <2>1, <2>3 DEF Types
    <3> QED
      BY <2>1, <3>1 DEF GetSeesCompletedWrites
  <2> QED
    BY <2>2, <2>3
<1>5. ASSUME NEW r \in Readers,
             \/ \E k \in Keys : getMiss(r, k)
             \/ allHit(r) \/ allMiss(r) \/ readBackend(r) \/ backendFails(r)
             \/ tryGetAllBackend(r) \/ tryGetAllBackendFails(r) \/ return(r)
      PROVE  got'[q].version >= need'[q][key'[q]]
  <2>1. pc'[r] # "got" /\ \A x \in Readers \ {r} :
          pc'[x] = pc[x] /\ got'[x] = got[x] /\ need'[x] = need[x] /\ key'[x] = key[x]
    <3>1. ASSUME NEW k \in Keys, getMiss(r, k)
          PROVE  pc'[r] # "got" /\ \A x \in Readers \ {r} :
                   pc'[x] = pc[x] /\ got'[x] = got[x] /\ need'[x] = need[x] /\ key'[x] = key[x]
      BY <1>0, <3>1 DEF Types, getMiss, Begin
    <3>2. CASE allHit(r)
      BY <1>0, <3>2 DEF Types, allHit, Begin
    <3>3. CASE allMiss(r)
      BY <1>0, <3>3 DEF Types, allMiss, Begin
    <3>4. CASE readBackend(r)
      BY <1>0, <3>4 DEF Types, readBackend
    <3>5. CASE backendFails(r)
      BY <1>0, <3>5 DEF Types, backendFails
    <3>6. CASE tryGetAllBackend(r)
      BY <1>0, <3>6 DEF Types, tryGetAllBackend
    <3>7. CASE tryGetAllBackendFails(r)
      BY <1>0, <3>7 DEF Types, tryGetAllBackendFails
    <3>8. CASE return(r)
      BY <1>0, <3>8 DEF Types, return
    <3> QED
      BY <1>5, <3>1, <3>2, <3>3, <3>4, <3>5, <3>6, <3>7, <3>8
  <2> QED
    BY <2>1 DEF GetSeesCompletedWrites
<1>6. ASSUME NEW k, NEW f, LDStoreUpsert(k, f)
      PROVE  UNCHANGED <<pc, key, got, need>>
  BY <1>6 DEF LDStoreUpsert, readers
<1>7. CASE upsertCompletes \/ initCompletes \/ Tick \/ UNCHANGED vars
  BY <1>1, <1>7 DEF upsertCompletes, initCompletes, Tick, vars, readers
<1> QED
  BY <1>1, <1>2, <1>3, <1>4, <1>5, <1>6, <1>7 DEF Next

(* LDStoreGet sees every write that had returned when it was called: if    *)
(* nothing is cached, always; otherwise as long as the service sends       *)
(* versions in order and no read outlasts an item's time to live.          *)
THEOREM GetsSeeWrites ==
    ASSUME CacheTTL = 0 \/ (InOrder /\ MaxStall <= CacheTTL)
    PROVE  Spec => []GetSeesCompletedWrites
<1>1. Init => GetSeesCompletedWrites
  BY DEF Init, GetSeesCompletedWrites
<1>2. CASE CacheTTL = 0
  <2>1. StoreInv /\ GetSeesCompletedWrites /\ [Next]_vars => GetSeesCompletedWrites'
    BY <1>2, GetStep
  <2> QED
    BY <1>1, <2>1, StoreInvHolds, PTL DEF Spec
<1>3. CASE CacheTTL # 0
  <2>1. Caching
    BY <1>3, Bounds DEF Caching
  <2>2. CacheInv /\ GetSeesCompletedWrites /\ [Next]_vars => GetSeesCompletedWrites'
    BY GetStep DEF CacheInv
  <2>3. Spec => []CacheInv
    BY <2>1, CacheInvHolds
  <2> QED
    BY <1>1, <2>2, <2>3, PTL DEF Spec
<1> QED
  BY <1>2, <1>3

(* Without any such condition, a cached feature that has not expired is    *)
(* never exchanged for an older one but by a new data set.                 *)
THEOREM CacheNeverRegresses == Spec => FreshItemsNeverRegress
<1>1. ASSUME StoreInv, [Next]_vars, NEW k \in Keys, ItemFresh(k), writer.op # "init"
      PROVE  items'[k] # NULL /\ items'[k].feature.version >= items[k].feature.version
  <2>0. Types /\ items[k] # NULL /\ items[k].feature.version \in Nat
    BY <1>1, ItemType DEF StoreInv, ItemFresh
  <2>1. CASE items'[k] = items[k]
    BY <2>0, <2>1
  <2>2. ASSUME NEW f \in Feature, ~Kept(k, f), items'[k] = [feature |-> f, age |-> 0]
        PROVE  items'[k] # NULL /\ items'[k].feature.version >= items[k].feature.version
    <3>1. f.version \in Nat
      BY FeatureVersion
    <3>2. ~(items[k].feature.version >= f.version)
      BY <1>1, <2>2 DEF Kept
    <3>3. items'[k] \in Item /\ items'[k].feature = f
      BY <2>2
    <3> QED
      BY <2>0, <3>1, <3>2, <3>3, NULLAssumption
  <2>3. CASE upsertCompletes
    <3>1. PICK k0 \in Keys, f \in Written :
            \/ Kept(k0, f) /\ items' = items
            \/ ~Kept(k0, f) /\ items' = [items EXCEPT ![k0] = [feature |-> f, age |-> 0]]
      BY <1>1, <2>3, UpsertCompletesKeeps
    <3>2. f \in Feature
      BY WrittenIsFeature
    <3>3. CASE k = k0 /\ ~Kept(k0, f)
      BY <2>0, <2>2, <3>1, <3>2, <3>3 DEF Types
    <3>4. CASE ~(k = k0 /\ ~Kept(k0, f))
      BY <2>0, <2>1, <3>1, <3>4 DEF Types
    <3> QED
      BY <3>3, <3>4
  <2>4. ASSUME NEW r \in Readers, ReaderStep(r)
        PROVE  items'[k] # NULL /\ items'[k].feature.version >= items[k].feature.version
    <3>1. FillsItem(r, k)
      BY <2>4 DEF ReaderStep
    <3>2. CASE Fills(r, k) /\ ~Kept(k, Filled(r, k))
                 /\ items'[k] = [feature |-> Filled(r, k), age |-> 0]
      BY <2>0, <2>2, <3>2, FilledType
    <3> QED
      BY <2>1, <3>1, <3>2 DEF FillsItem
  <2>5. CASE Tick
    BY <2>0, <2>5, TickItems
  <2>6. ASSUME NEW r \in Readers, readBackend(r)
        PROVE  items'[k] = items[k]
    BY <2>6 DEF readBackend, hash
  <2>7. ASSUME NEW x, NEW f, LDStoreUpsert(x, f)
        PROVE  items'[k] = items[k]
    BY <2>7 DEF LDStoreUpsert, hash
  <2>8. ASSUME NEW sets, LDStoreInit(sets)
        PROVE  items'[k] = items[k]
    BY <2>8 DEF LDStoreInit, hash
  <2>9. ~initCompletes
    BY <1>1 DEF initCompletes
  <2>10. CASE Next
    <3>1. Steps
      BY <2>0, <2>10, NextSteps
    <3> QED
      BY <2>1, <2>3, <2>4, <2>5, <2>6, <2>7, <2>8, <2>9, <3>1 DEF Steps
  <2>11. CASE UNCHANGED vars
    BY <2>1, <2>11 DEF vars, hash
  <2> QED
    BY <1>1, <2>10, <2>11
<1>2. StoreInv /\ [Next]_vars =>
        [\A k \in Keys : (ItemFresh(k) /\ writer.op # "init")
            => items'[k] # NULL
               /\ items'[k].feature.version >= items[k].feature.version]_items
  BY <1>1
<1> QED
  BY <1>2, StoreInvHolds, PTL DEF Spec, FreshItemsNeverRegress

=============================================================================
