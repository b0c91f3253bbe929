---------------------------- MODULE MemoryStore ----------------------------
(***************************************************************************)
(* The feature store without a backend (store.c, LDStore.backend = NULL):  *)
(* one hash table under a reader-writer lock that keeps an item per        *)
(* feature and, beside them, an "all:<kind>" item with a copy of every     *)
(* feature that is not deleted.  The two are updated separately and must   *)
(* agree.  Every operation holds the lock for all it does to the table, so *)
(* each is one step here.  The readers are threads inside LDAllFlags,      *)
(* which reads the store twice and uses the listing with no lock held.     *)
(***************************************************************************)
EXTENDS Features

CONSTANT Readers    \* application threads that call LDAllFlags

VARIABLES
    items,          \* items[kind][key]: the "kind:key" item of the hash
    all,            \* all[kind]: the "all:kind" item of the hash, or NULL
    initialized,    \* MemoryContext.initialized
    delivered,      \* history: versions given to the store since its last
                    \* init, per feature
    pc, rawFlags    \* where each LDAllFlags call is, and its listing

vars == <<items, all, initialized, delivered, pc, rawFlags>>

NoItems == [kind \in Kinds |-> EmptyCollection]
NoAll == [kind \in Kinds |-> NULL]
Nothing == [kind \in Kinds |-> [key \in Keys |-> {}]]

Init ==
    /\ items = NoItems
    /\ all = NoAll
    /\ initialized = FALSE
    /\ delivered = Nothing
    /\ pc = [r \in Readers |-> "idle"]
    /\ rawFlags = [r \in Readers |-> NULL]

-----------------------------------------------------------------------------
(* upsertMemory: the effect on the feature's item and on the "all" item.   *)

upsertItem(cached, kind, key, replacement) ==
    IF Supersedes(cached[kind][key], replacement)
      THEN cached
      ELSE [cached EXCEPT ![kind][key] = replacement]

\* Fault: a tombstone is listed like a feature.
upsertAllListsDeleted(cached, listings, kind, key, replacement) ==
    IF Supersedes(cached[kind][key], replacement)
      THEN listings
    ELSE IF listings[kind] # NULL
      THEN [listings EXCEPT ![kind] = [@ EXCEPT ![key] = replacement]]
      ELSE [listings EXCEPT ![kind] =
              [EmptyCollection EXCEPT ![key] = replacement]]

\* Fault: a first feature makes a listing even when it is a tombstone.
upsertAllAlwaysLists(cached, listings, kind, key, replacement) ==
    IF Supersedes(cached[kind][key], replacement)
      THEN listings
      ELSE LET itemDupe == IF LDi_isFeatureDeleted(replacement)
                             THEN NULL ELSE replacement
               old == IF listings[kind] = NULL
                        THEN EmptyCollection ELSE listings[kind]
           IN  [listings EXCEPT ![kind] = [old EXCEPT ![key] = itemDupe]]

\* An existing listing is copied and edited; a first feature that is not
\* deleted makes a singleton; a tombstone alone makes no listing.
upsertAll(cached, listings, kind, key, replacement) ==
    IF Supersedes(cached[kind][key], replacement)
      THEN listings
      ELSE LET itemDupe == IF LDi_isFeatureDeleted(replacement)
                             THEN NULL ELSE replacement
           IN  IF listings[kind] # NULL
                 THEN [listings EXCEPT ![kind] =
                         [@ EXCEPT ![key] = itemDupe]]
               ELSE IF itemDupe # NULL
                 THEN [listings EXCEPT ![kind] =
                         [EmptyCollection EXCEPT ![key] = itemDupe]]
               ELSE listings

(* The listing that filterAndCacheItems leaves on an empty cache, putting  *)
(* the features one by one through upsertMemory.  FilterAndCache shows     *)
(* that its loop implements this closed form.                              *)

cachedAll(features) ==
    IF Live(features) = EmptyCollection THEN NULL ELSE Live(features)

-----------------------------------------------------------------------------
(* Writers: the network thread, on stream events and poll results.         *)

upsertMemory(kind, key, replacement) ==
    /\ items' = upsertItem(items, kind, key, replacement)
    /\ all' = upsertAll(items, all, kind, key, replacement)
    /\ delivered' =
         [delivered EXCEPT ![kind][key] = @ \cup {replacement.version}]
    /\ UNCHANGED <<initialized, pc, rawFlags>>

LDStoreUpsert(kind, key, feature) == upsertMemory(kind, key, feature)

\* Fault: the tombstone is stored one version ahead.
LDStoreRemoveBumpsVersion(kind, key, version) ==
    upsertMemory(kind, key, LDi_makeDeleted(version + 1))

LDStoreRemove(kind, key, version) ==
    upsertMemory(kind, key, LDi_makeDeleted(version))

\* memoryInit: flush, then cache every set of the payload.
LDStoreInit(sets) ==
    /\ items' = sets
    /\ all' = [kind \in Kinds |-> cachedAll(sets[kind])]
    /\ initialized' = TRUE
    /\ delivered' = [kind \in Kinds |-> [key \in Keys |->
                       IF sets[kind][key] = NULL
                         THEN {} ELSE {sets[kind][key].version}]]
    /\ UNCHANGED <<pc, rawFlags>>

\* memoryInit when an allocation fails: flush again, report failure.
LDStoreInitFails ==
    /\ items' = NoItems
    /\ all' = NoAll
    /\ delivered' = Nothing
    /\ UNCHANGED <<initialized, pc, rawFlags>>

-----------------------------------------------------------------------------
(* Readers.                                                                *)

LDStoreInitialized == initialized

\* NULL when the hash has no "all" item: there is no backend to ask.
LDStoreAll(kind) == all[kind]

LDAllFlags(r) ==
    /\ pc[r] = "idle"
    /\ LDStoreInitialized
    /\ pc' = [pc EXCEPT ![r] = "fetch"]
    /\ UNCHANGED <<items, all, initialized, delivered, rawFlags>>

fetchFlags(r) ==
    /\ pc[r] = "fetch"
    /\ pc' = [pc EXCEPT ![r] = "evaluate"]
    /\ rawFlags' = [rawFlags EXCEPT ![r] = LDStoreAll(LD_FLAG)]
    /\ UNCHANGED <<items, all, initialized, delivered>>

\* The loop over rawFlags; evaluation reads the store and changes nothing.
evaluateFlags(r) ==
    /\ pc[r] = "evaluate"
    /\ pc' = [pc EXCEPT ![r] = "idle"]
    /\ rawFlags' = [rawFlags EXCEPT ![r] = NULL]
    /\ UNCHANGED <<items, all, initialized, delivered>>

Next ==
    \/ \E kind \in Kinds, key \in Keys, feature \in Feature :
         LDStoreUpsert(kind, key, feature)
    \/ \E kind \in Kinds, key \in Keys, version \in Versions :
         LDStoreRemove(kind, key, version)
    \/ \E sets \in [Kinds -> Collection] : LDStoreInit(sets)
    \/ LDStoreInitFails
    \/ \E r \in Readers : LDAllFlags(r)
    \/ \E r \in Readers : fetchFlags(r)
    \/ \E r \in Readers : evaluateFlags(r)

Spec == Init /\ [][Next]_vars

-----------------------------------------------------------------------------
(* Properties.                                                             *)

(* The hash maps every kind and key to a feature or nothing; a tombstone   *)
(* keeps the version it was removed with (LDStoreRemove).                  *)
TypeOK ==
    /\ items \in [Kinds -> Collection]
    /\ all \in [Kinds -> Collection \cup {NULL}]
    /\ initialized \in BOOLEAN
    /\ delivered \in [Kinds -> [Keys -> SUBSET Versions]]
    /\ pc \in [Readers -> {"idle", "fetch", "evaluate"}]
    /\ rawFlags \in [Readers -> Collection \cup {NULL}]

Listed(kind) == IF all[kind] = NULL THEN EmptyCollection ELSE all[kind]

(* upsertMemory edits the listing apart from the items.  However patches,  *)
(* deletes and full inits follow each other, the listing is exactly the    *)
(* features that are not deleted; no listing means there are none.         *)
AllMatchesItems == \A kind \in Kinds : Listed(kind) = Live(items[kind])

HoldsNewest(kind, key) ==
    IF items[kind][key] = NULL
      THEN delivered[kind][key] = {}
      ELSE /\ items[kind][key].version \in delivered[kind][key]
           /\ \A v \in delivered[kind][key] : v <= items[kind][key].version

(* Patches and deletes of a feature may arrive late, twice or out of       *)
(* order.  After any sequence the store holds the newest version delivered *)
(* since its last init, tombstones included, and nothing never delivered.  *)
LatestWins == \A kind \in Kinds, key \in Keys : HoldsNewest(kind, key)

Promise == INSTANCE VersionedStore WITH
    table <- items, listing <- [kind \in Kinds |-> Listed(kind)]

(* The store of two kinds of item implements the versioned table with its  *)
(* listing: LDStoreUpsert, LDStoreRemove and LDStoreInit are its steps.    *)
ImplementsVersionedStore == Promise!Spec

(* LDAllFlags asserts that the store gave it a listing to iterate over     *)
(* (LDJSONRCGet's LD_ASSERT(rc), then LD_ASSERT(rawFlags)).                *)
RawFlagsNotNull == \A r \in Readers : pc[r] = "evaluate" => rawFlags[r] # NULL

=============================================================================
