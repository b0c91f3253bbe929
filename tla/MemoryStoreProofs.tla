------------------------- MODULE MemoryStoreProofs -------------------------
(***************************************************************************)
(* The memory store is correct for every set of kinds, keys, versions and  *)
(* readers.  The argument: TypeOK is inductive; under it the agreement of  *)
(* items and listings is inductive, and so is the history invariant; the   *)
(* agreement is what makes every step a step of VersionedStore.            *)
(***************************************************************************)
EXTENDS FilterAndCache, TLAPS

USE DEF Feature, Collection, EmptyCollection

(* A replacement, live or a tombstone, is a feature.                       *)
LEMMA TombstoneIsFeature ==
    ASSUME NEW version \in Versions
    PROVE  LDi_makeDeleted(version) \in Feature
BY DEF LDi_makeDeleted

(* The live part of a collection is a collection.                          *)
LEMMA LiveType ==
    ASSUME NEW features \in Collection
    PROVE  Live(features) \in Collection
BY DEF Live, LDi_isFeatureDeleted

(* upsertMemory yields items and listings of the right type.               *)
LEMMA UpsertType ==
    ASSUME TypeOK, NEW kind \in Kinds, NEW key \in Keys, NEW f \in Feature
    PROVE  /\ upsertItem(items, kind, key, f) \in [Kinds -> Collection]
           /\ upsertAll(items, all, kind, key, f)
                \in [Kinds -> Collection \cup {NULL}]
<1>1. upsertItem(items, kind, key, f) \in [Kinds -> Collection]
  BY DEF TypeOK, upsertItem
<1>2. upsertAll(items, all, kind, key, f) \in [Kinds -> Collection \cup {NULL}]
  <2>1. CASE all[kind] = NULL
    BY <2>1 DEF TypeOK, upsertAll
  <2>2. CASE all[kind] # NULL
    <3>1. all[kind] \in Collection
      BY <2>2 DEF TypeOK
    <3> QED
      BY <2>2, <3>1 DEF TypeOK, upsertAll
  <2> QED BY <2>1, <2>2
<1> QED BY <1>1, <1>2

LEMMA UpsertPreservesType ==
    ASSUME TypeOK, NEW kind \in Kinds, NEW key \in Keys, NEW f \in Feature,
           upsertMemory(kind, key, f)
    PROVE  TypeOK'
<1>1. items' \in [Kinds -> Collection] /\ all' \in [Kinds -> Collection \cup {NULL}]
  BY UpsertType DEF upsertMemory
<1>2. delivered' \in [Kinds -> [Keys -> SUBSET Versions]]
  BY DEF upsertMemory, TypeOK
<1> QED
  BY <1>1, <1>2 DEF upsertMemory, TypeOK

(* Every value stays in its type: items, listings, history and readers.    *)
THEOREM TypeCorrect == Spec => []TypeOK
<1>1. Init => TypeOK
  BY DEF Init, TypeOK, NoItems, NoAll, Nothing
<1>2. TypeOK /\ [Next]_vars => TypeOK'
  <2> SUFFICES ASSUME TypeOK, [Next]_vars
               PROVE  TypeOK'
    OBVIOUS
  <2>1. ASSUME NEW kind \in Kinds, NEW key \in Keys, NEW feature \in Feature,
               LDStoreUpsert(kind, key, feature)
        PROVE  TypeOK'
    BY <2>1, UpsertPreservesType DEF LDStoreUpsert
  <2>2. ASSUME NEW kind \in Kinds, NEW key \in Keys, NEW version \in Versions,
               LDStoreRemove(kind, key, version)
        PROVE  TypeOK'
    BY <2>2, UpsertPreservesType, TombstoneIsFeature DEF LDStoreRemove
  <2>3. ASSUME NEW data \in [Kinds -> Collection], LDStoreInit(data)
        PROVE  TypeOK'
    <3>1. \A kind \in Kinds : cachedAll(data[kind]) \in Collection \cup {NULL}
      BY LiveType DEF cachedAll
    <3>2. delivered' \in [Kinds -> [Keys -> SUBSET Versions]]
      BY <2>3 DEF LDStoreInit
    <3> QED
      BY <2>3, <3>1, <3>2 DEF LDStoreInit, TypeOK
  <2>4. CASE LDStoreInitFails
    BY <2>4 DEF LDStoreInitFails, TypeOK, NoItems, NoAll, Nothing
  <2>5. ASSUME NEW r \in Readers, LDAllFlags(r)
        PROVE  TypeOK'
    BY <2>5 DEF LDAllFlags, TypeOK
  <2>6. ASSUME NEW r \in Readers, fetchFlags(r)
        PROVE  TypeOK'
    BY <2>6, FlagsAreAKind DEF fetchFlags, LDStoreAll, TypeOK
  <2>7. ASSUME NEW r \in Readers, evaluateFlags(r)
        PROVE  TypeOK'
    BY <2>7 DEF evaluateFlags, TypeOK
  <2>8. CASE UNCHANGED vars
    BY <2>8 DEF vars, TypeOK
  <2> QED
    BY <2>1, <2>2, <2>3, <2>4, <2>5, <2>6, <2>7, <2>8 DEF Next
<1> QED
  BY <1>1, <1>2, PTL DEF Spec

-----------------------------------------------------------------------------
(* Items and listing.                                                      *)

(* What upsertMemory does to one kind: its items and its listing change at *)
(* the one key, in the same way, and no other kind is touched.             *)
LEMMA UpsertKeepsMatch ==
    ASSUME TypeOK, AllMatchesItems,
           NEW kind \in Kinds, NEW key \in Keys, NEW f \in Feature,
           upsertMemory(kind, key, f)
    PROVE  AllMatchesItems'
<1> USE NULLIsNoData
<1>1. CASE Supersedes(items[kind][key], f)
  BY <1>1 DEF upsertMemory, upsertItem, upsertAll, AllMatchesItems, Listed
<1>2. CASE ~Supersedes(items[kind][key], f)
  <2>1. items' = [items EXCEPT ![kind][key] = f]
    BY <1>2 DEF upsertMemory, upsertItem
  <2>2. ASSUME NEW other \in Kinds, other # kind
        PROVE  Listed(other)' = Live(items[other])'
    <3>1. items'[other] = items[other]
      BY <2>1, <2>2 DEF TypeOK
    <3>2. all'[other] = all[other]
      BY <1>2, <2>2 DEF upsertMemory, upsertAll, TypeOK
    <3> QED
      BY <3>1, <3>2 DEF AllMatchesItems, Listed
  <2>3. Listed(kind)' = Live(items[kind])'
    <3> DEFINE dupe == IF f.deleted THEN NULL ELSE f
    <3>1. /\ Listed(kind) \in Collection
          /\ Listed(kind) = Live(items[kind])
      BY DEF TypeOK, Listed, AllMatchesItems
    <3>2. Listed(kind)' = [Listed(kind) EXCEPT ![key] = dupe]
      <4>1. CASE all[kind] # NULL
        <5>1. all[kind] \in Collection
          BY <4>1 DEF TypeOK
        <5>2. all'[kind] = [all[kind] EXCEPT ![key] = dupe]
          BY <1>2, <4>1
             DEF upsertMemory, upsertAll, TypeOK, LDi_isFeatureDeleted
        <5> QED
          BY <4>1, <5>1, <5>2 DEF Listed
      <4>2. CASE all[kind] = NULL /\ ~f.deleted
        <5>1. all'[kind] = [EmptyCollection EXCEPT ![key] = f]
          BY <1>2, <4>2
             DEF upsertMemory, upsertAll, TypeOK, LDi_isFeatureDeleted
        <5>2. all'[kind] \in Collection
          BY <5>1
        <5> QED
          BY <4>2, <5>1, <5>2 DEF Listed
      <4>3. CASE all[kind] = NULL /\ f.deleted
        <5>1. all'[kind] = NULL
          BY <1>2, <4>3
             DEF upsertMemory, upsertAll, TypeOK, LDi_isFeatureDeleted
        <5> QED
          BY <4>3, <5>1 DEF Listed
      <4> QED BY <4>1, <4>2, <4>3
    <3>3. items'[kind] = [items[kind] EXCEPT ![key] = f]
      BY <2>1 DEF TypeOK
    <3>4. items[kind] \in Collection
      BY DEF TypeOK
    <3>5. Live(items'[kind]) = [Live(items[kind]) EXCEPT ![key] = dupe]
      BY <3>3, <3>4 DEF Live, LDi_isFeatureDeleted
    <3> QED
      BY <3>1, <3>2, <3>5
  <2> QED
    BY <2>2, <2>3 DEF AllMatchesItems
<1> QED BY <1>1, <1>2

(* The same for a whole payload: a missing listing means nothing is live.  *)
LEMMA InitKeepsMatch ==
    ASSUME NEW data \in [Kinds -> Collection], LDStoreInit(data)
    PROVE  AllMatchesItems'
<1> SUFFICES ASSUME NEW kind \in Kinds
             PROVE  Listed(kind)' = Live(items[kind])'
  BY DEF AllMatchesItems
<1>1. items'[kind] = data[kind] /\ all'[kind] = cachedAll(data[kind])
  BY DEF LDStoreInit
<1>2. Live(data[kind]) \in Collection
  BY LiveType
<1> QED
  BY <1>1, <1>2, NULLIsNoData DEF Listed, cachedAll

LEMMA NothingMatches ==
    ASSUME items = NoItems, all = NoAll
    PROVE  AllMatchesItems
BY DEF NoItems, NoAll, AllMatchesItems, Listed, Live

LEMMA ReadersKeepMatch ==
    ASSUME AllMatchesItems, UNCHANGED <<items, all>>
    PROVE  AllMatchesItems'
BY DEF AllMatchesItems, Listed, Live

LEMMA StepKeepsMatch ==
    ASSUME TypeOK, AllMatchesItems, [Next]_vars
    PROVE  AllMatchesItems'
<1>1. ASSUME NEW kind \in Kinds, NEW key \in Keys, NEW feature \in Feature,
             LDStoreUpsert(kind, key, feature)
      PROVE  AllMatchesItems'
  BY <1>1, UpsertKeepsMatch DEF LDStoreUpsert
<1>2. ASSUME NEW kind \in Kinds, NEW key \in Keys, NEW version \in Versions,
             LDStoreRemove(kind, key, version)
      PROVE  AllMatchesItems'
  BY <1>2, UpsertKeepsMatch, TombstoneIsFeature DEF LDStoreRemove
<1>3. ASSUME NEW data \in [Kinds -> Collection], LDStoreInit(data)
      PROVE  AllMatchesItems'
  BY <1>3, InitKeepsMatch
<1>4. CASE LDStoreInitFails
  BY <1>4 DEF LDStoreInitFails, NoItems, NoAll, AllMatchesItems, Listed, Live
<1>5. ASSUME NEW r \in Readers,
             LDAllFlags(r) \/ fetchFlags(r) \/ evaluateFlags(r)
      PROVE  AllMatchesItems'
  BY <1>5, ReadersKeepMatch DEF LDAllFlags, fetchFlags, evaluateFlags
<1>6. CASE UNCHANGED vars
  BY <1>6, ReadersKeepMatch DEF vars
<1> QED
  BY <1>1, <1>2, <1>3, <1>4, <1>5, <1>6 DEF Next

(* The listing LDStoreAll returns always is the set of features that are   *)
(* not deleted, although upsertMemory maintains it apart from the items.   *)
THEOREM ListingCorrect == Spec => []AllMatchesItems
<1>1. Init => AllMatchesItems
  BY NothingMatches DEF Init
<1>2. TypeOK /\ AllMatchesItems /\ [Next]_vars => AllMatchesItems'
  BY StepKeepsMatch
<1> QED
  BY <1>1, <1>2, TypeCorrect, PTL DEF Spec

-----------------------------------------------------------------------------
(* Order of delivery.                                                      *)

LEMMA UpsertKeepsNewest ==
    ASSUME TypeOK, LatestWins,
           NEW kind \in Kinds, NEW key \in Keys, NEW f \in Feature,
           upsertMemory(kind, key, f)
    PROVE  LatestWins'
<1> SUFFICES ASSUME NEW k \in Kinds, NEW y \in Keys
             PROVE  HoldsNewest(k, y)'
  BY DEF LatestWins
<1>1. HoldsNewest(k, y)
  BY DEF LatestWins
<1>2. \A v \in delivered[k][y] : v \in Nat
  <2>1. delivered[k][y] \subseteq Versions
    BY DEF TypeOK
  <2> QED
    BY <2>1, VersionsAreNaturals
<1>3. /\ f.version \in Nat
      /\ items[k][y] # NULL => items[k][y].version \in Nat
  <2>1. items[k][y] \in Feature \cup {NULL}
    BY DEF TypeOK
  <2> QED
    BY <2>1, VersionsAreNaturals
<1>4. CASE <<k, y>> # <<kind, key>>
  <2>1. items'[k][y] = items[k][y] /\ delivered'[k][y] = delivered[k][y]
    BY <1>4 DEF upsertMemory, upsertItem, TypeOK
  <2> QED
    BY <1>1, <2>1 DEF HoldsNewest
<1>5. CASE k = kind /\ y = key
  <2>1. delivered'[k][y] = delivered[k][y] \cup {f.version}
    BY <1>5 DEF upsertMemory, TypeOK
  <2>2. items'[k][y] = IF Supersedes(items[k][y], f) THEN items[k][y] ELSE f
    BY <1>5 DEF upsertMemory, upsertItem, TypeOK
  <2>3. f # NULL
    BY NULLIsNoData
  <2> QED
    BY <1>1, <1>2, <1>3, <2>1, <2>2, <2>3
       DEF HoldsNewest, Supersedes, LDi_getFeatureVersionTrusted
<1> QED BY <1>4, <1>5

(* Whatever the order, repetition or delay of the patches and deletes, the *)
(* store ends up with the newest version delivered since its last init.    *)
THEOREM DeliveryOrderIrrelevant == Spec => []LatestWins
<1>1. Init => LatestWins
  BY DEF Init, LatestWins, HoldsNewest, NoItems, Nothing
<1>2. TypeOK /\ LatestWins /\ [Next]_vars => LatestWins'
  <2> SUFFICES ASSUME TypeOK, LatestWins, [Next]_vars
               PROVE  LatestWins'
    OBVIOUS
  <2>1. ASSUME NEW kind \in Kinds, NEW key \in Keys, NEW feature \in Feature,
               LDStoreUpsert(kind, key, feature)
        PROVE  LatestWins'
    BY <2>1, UpsertKeepsNewest DEF LDStoreUpsert
  <2>2. ASSUME NEW kind \in Kinds, NEW key \in Keys, NEW version \in Versions,
               LDStoreRemove(kind, key, version)
        PROVE  LatestWins'
    BY <2>2, UpsertKeepsNewest, TombstoneIsFeature DEF LDStoreRemove
  <2>3. ASSUME NEW data \in [Kinds -> Collection], LDStoreInit(data)
        PROVE  LatestWins'
    <3>1. \A kind \in Kinds, key \in Keys :
             data[kind][key] # NULL => data[kind][key].version \in Nat
      BY VersionsAreNaturals
    <3> QED
      BY <2>3, <3>1 DEF LDStoreInit, LatestWins, HoldsNewest
  <2>4. CASE LDStoreInitFails
    BY <2>4 DEF LDStoreInitFails, LatestWins, HoldsNewest, NoItems, Nothing
  <2>5. ASSUME NEW r \in Readers,
               LDAllFlags(r) \/ fetchFlags(r) \/ evaluateFlags(r)
        PROVE  LatestWins'
    BY <2>5 DEF LDAllFlags, fetchFlags, evaluateFlags, LatestWins, HoldsNewest
  <2>6. CASE UNCHANGED vars
    BY <2>6 DEF vars, LatestWins, HoldsNewest
  <2> QED
    BY <2>1, <2>2, <2>3, <2>4, <2>5, <2>6 DEF Next
<1> QED
  BY <1>1, <1>2, TypeCorrect, PTL DEF Spec

-----------------------------------------------------------------------------
(* Refinement.                                                             *)

LEMMA UpsertIsPut ==
    ASSUME TypeOK, AllMatchesItems, AllMatchesItems',
           NEW kind \in Kinds, NEW key \in Keys, NEW f \in Feature,
           upsertMemory(kind, key, f)
    PROVE  [Promise!Next]_(Promise!vars)
<1>1. CASE Supersedes(items[kind][key], f)
  <2>1. UNCHANGED <<items, all, initialized>>
    BY <1>1 DEF upsertMemory, upsertItem, upsertAll
  <2> QED
    BY <2>1 DEF Promise!vars, Listed
<1>2. CASE ~Supersedes(items[kind][key], f)
  <2>1. items' = [items EXCEPT ![kind][key] = f] /\ initialized' = initialized
    BY <1>2 DEF upsertMemory, upsertItem
  <2>2. \A other \in Kinds : other # kind => items'[other] = items[other]
    BY <2>1 DEF TypeOK
  <2>3. \A other \in Kinds : /\ Listed(other) = Live(items[other])
                             /\ Listed(other)' = Live(items'[other])
    BY DEF AllMatchesItems
  <2>4. [other \in Kinds |-> Listed(other)]'
          = [[other \in Kinds |-> Listed(other)]
               EXCEPT ![kind] = Live(items'[kind])]
    BY <2>2, <2>3
  <2>5. Promise!Put
    BY <1>2, <2>1, <2>4 DEF Promise!Put, Supersedes, Promise!Supersedes,
       Live, Promise!Live, Promise!Feature, LDi_isFeatureDeleted,
       Promise!LDi_isFeatureDeleted, LDi_getFeatureVersionTrusted,
       Promise!LDi_getFeatureVersionTrusted
  <2> QED
    BY <2>5 DEF Promise!Next
<1> QED BY <1>1, <1>2

LEMMA InitIsReplace ==
    ASSUME AllMatchesItems', NEW data \in [Kinds -> Collection],
           LDStoreInit(data)
    PROVE  Promise!Next
<1>1. items' = data /\ initialized' = TRUE
  BY DEF LDStoreInit
<1>2. [kind \in Kinds |-> Listed(kind)]' = [kind \in Kinds |-> Live(data[kind])]
  BY <1>1 DEF AllMatchesItems
<1>3. Promise!Replace
  BY <1>1, <1>2 DEF Promise!Replace, Promise!Collection, Promise!Feature,
     Live, Promise!Live, LDi_isFeatureDeleted, Promise!LDi_isFeatureDeleted
<1> QED
  BY <1>3 DEF Promise!Next

(* Every behaviour of the memory store is one of the versioned table: the  *)
(* detail of two separately kept kinds of item is invisible to a caller.   *)
THEOREM Refinement == Spec => ImplementsVersionedStore
<1>1. Init => Promise!Init
  BY DEF Init, Promise!Init, NoItems, NoAll, Listed, Promise!EmptyCollection
<1>2. TypeOK /\ AllMatchesItems /\ AllMatchesItems' /\ [Next]_vars
        => [Promise!Next]_(Promise!vars)
  <2> SUFFICES ASSUME TypeOK, AllMatchesItems, AllMatchesItems', [Next]_vars
               PROVE  [Promise!Next]_(Promise!vars)
    OBVIOUS
  <2>1. ASSUME NEW kind \in Kinds, NEW key \in Keys, NEW feature \in Feature,
               LDStoreUpsert(kind, key, feature)
        PROVE  [Promise!Next]_(Promise!vars)
    BY <2>1, UpsertIsPut DEF LDStoreUpsert
  <2>2. ASSUME NEW kind \in Kinds, NEW key \in Keys, NEW version \in Versions,
               LDStoreRemove(kind, key, version)
        PROVE  [Promise!Next]_(Promise!vars)
    BY <2>2, UpsertIsPut, TombstoneIsFeature DEF LDStoreRemove
  <2>3. ASSUME NEW data \in [Kinds -> Collection], LDStoreInit(data)
        PROVE  [Promise!Next]_(Promise!vars)
    BY <2>3, InitIsReplace
  <2>4. CASE LDStoreInitFails
    BY <2>4 DEF LDStoreInitFails, Promise!Next, Promise!Drop, NoItems, NoAll,
       Listed, Promise!EmptyCollection
  <2>5. ASSUME NEW r \in Readers,
               LDAllFlags(r) \/ fetchFlags(r) \/ evaluateFlags(r)
        PROVE  [Promise!Next]_(Promise!vars)
    BY <2>5 DEF LDAllFlags, fetchFlags, evaluateFlags, Promise!vars, Listed
  <2>6. CASE UNCHANGED vars
    BY <2>6 DEF vars, Promise!vars, Listed
  <2> QED
    BY <2>1, <2>2, <2>3, <2>4, <2>5, <2>6 DEF Next
<1> QED
  BY <1>1, <1>2, TypeCorrect, ListingCorrect, PTL
     DEF Spec, ImplementsVersionedStore, Promise!Spec

-----------------------------------------------------------------------------
(* memoryInit, feature by feature.                                         *)

With(data, kind, key, f) == [data EXCEPT ![kind][key] = f]

(* One more feature through upsertMemory: the hash still has the closed    *)
(* form, of a data set with that feature in it.                            *)
LEMMA UpsertKeepsForm ==
    ASSUME NEW before \in [Kinds -> Collection], NEW kind \in Kinds, NEW key \in Keys,
           NEW f \in Feature, before[kind][key] = NULL,
           NEW after, after = With(before, kind, key, f)
    PROVE  /\ upsertItem(before, kind, key, f) = ClosedForm(after).items
           /\ upsertAll(before, ClosedForm(before).all, kind, key, f)
                = ClosedForm(after).all
<1> USE NULLIsNoData DEF With
<1> DEFINE listings == [k \in Kinds |-> cachedAll(before[k])]
           dupe == IF f.deleted THEN NULL ELSE f
           live == Live(before[kind])
<1>1. ~Supersedes(before[kind][key], f)
  BY DEF Supersedes
<1>2. /\ after \in [Kinds -> Collection]
      /\ after[kind] = [before[kind] EXCEPT ![key] = f]
      /\ \A k \in Kinds : k # kind => after[k] = before[k]
  OBVIOUS
<1>3. /\ live \in Collection /\ live[key] = NULL
      /\ Live(after[kind]) = [live EXCEPT ![key] = dupe]
  <2> DEFINE old == before[kind]
             new == after[kind]
  <2>1. old \in Collection /\ old[key] = NULL /\ new = [old EXCEPT ![key] = f]
    BY <1>2
  <2> HIDE DEF old, new
  <2>2. /\ Live(old) \in Collection /\ Live(old)[key] = NULL
        /\ Live(new) = [Live(old) EXCEPT ![key] = dupe]
    BY <2>1 DEF Live, LDi_isFeatureDeleted
  <2> QED
    BY <2>2 DEF old, new
<1>4. cachedAll(after[kind]) =
        IF listings[kind] # NULL THEN [live EXCEPT ![key] = dupe]
        ELSE IF dupe # NULL THEN [EmptyCollection EXCEPT ![key] = dupe]
        ELSE NULL
  <2> HIDE DEF dupe
  <2>1. CASE live = EmptyCollection
    <3>1. listings[kind] = NULL
      BY <2>1 DEF cachedAll
    <3>2. [EmptyCollection EXCEPT ![key] = dupe] = EmptyCollection <=> dupe = NULL
      <4>1. [EmptyCollection EXCEPT ![key] = dupe][key] = dupe /\ EmptyCollection[key] = NULL
        OBVIOUS
      <4>2. ASSUME dupe = NULL
            PROVE  [EmptyCollection EXCEPT ![key] = dupe] = EmptyCollection
        BY <4>2
      <4> QED
        BY <4>1, <4>2
    <3> QED
      BY <1>3, <2>1, <3>1, <3>2 DEF cachedAll
  <2>2. CASE live # EmptyCollection
    <3>1. listings[kind] # NULL
      BY <1>3, <2>2 DEF cachedAll
    <3>2. PICK other \in Keys : live[other] # NULL
      BY <1>3, <2>2
    <3>3. [live EXCEPT ![key] = dupe][other] # NULL
      BY <1>3, <3>2
    <3>4. [live EXCEPT ![key] = dupe] # EmptyCollection
      BY <3>3
    <3> QED
      BY <1>3, <3>1, <3>4 DEF cachedAll
  <2> QED
    BY <2>1, <2>2
<1>5. listings[kind] # NULL => listings[kind] = live
  BY DEF cachedAll
<1>6. upsertAll(before, listings, kind, key, f)
        = [listings EXCEPT ![kind] = cachedAll(after[kind])]
  <2>1. upsertAll(before, listings, kind, key, f) =
          IF listings[kind] # NULL
            THEN [listings EXCEPT ![kind] = [listings[kind] EXCEPT ![key] = dupe]]
          ELSE IF dupe # NULL
            THEN [listings EXCEPT ![kind] = [EmptyCollection EXCEPT ![key] = dupe]]
          ELSE listings
    BY <1>1 DEF upsertAll, LDi_isFeatureDeleted
  <2>2. listings[kind] = NULL => listings = [listings EXCEPT ![kind] = NULL]
    OBVIOUS
  <2> HIDE DEF listings, dupe, live
  <2> QED
    BY <1>4, <1>5, <2>1, <2>2
<1>7. [listings EXCEPT ![kind] = cachedAll(after[kind])]
        = [k \in Kinds |-> cachedAll(after[k])]
  <2>1. \A k \in Kinds : k # kind => listings[k] = cachedAll(after[k])
    BY <1>2
  <2> QED
    BY <2>1
<1>8. upsertItem(before, kind, key, f) = after
  BY <1>1 DEF upsertItem
<1> QED
  BY <1>6, <1>7, <1>8 DEF ClosedForm

(* The loop of filterAndCacheItems, in whatever order it goes.             *)
LEMMA LoopStep == LoopInv /\ [LoopNext]_<<vars, loop>> => LoopInv'
<1> SUFFICES ASSUME LoopInv, [LoopNext]_<<vars, loop>>
             PROVE  LoopInv'
  OBVIOUS
<1>1. ASSUME NEW data \in [Kinds -> Collection], memoryInit(data)
      PROVE  LoopInv'
  <2>1. locked' = TRUE /\ sets' = data /\ todo' = Present(data) /\ filling' = Flushed
    BY <1>1 DEF memoryInit
  <2>2. Cached' = NoItems
    BY <2>1 DEF Cached, Present, NoItems
  <2>3. ClosedForm(NoItems) = Flushed
    BY DEF ClosedForm, Flushed, NoItems, NoAll, cachedAll, Live
  <2> QED
    BY <2>1, <2>2, <2>3 DEF LoopInv, ClosedForm
<1>2. ASSUME NEW kind \in Kinds, NEW key \in Keys, filterAndCacheItem(kind, key)
      PROVE  LoopInv'
  <2> DEFINE before == Cached
             f == sets[kind][key]
             after == With(before, kind, key, f)
  <2>1. /\ locked /\ locked' = locked /\ sets' = sets
        /\ <<kind, key>> \in todo /\ todo' = todo \ {<<kind, key>>}
        /\ sets \in [Kinds -> Collection] /\ todo \subseteq Present(sets)
        /\ filling = ClosedForm(before)
    BY <1>2 DEF filterAndCacheItem, LoopInv
  <2>2. f \in Feature
    BY <2>1 DEF Present
  <2>3. before \in [Kinds -> Collection] /\ before[kind][key] = NULL
    BY <2>1 DEF Cached
  <2>4. Cached' = after
    <3>1. ASSUME NEW k \in Kinds, NEW e \in Keys
          PROVE  Cached'[k][e] = after[k][e]
      BY <2>1, <2>3, <3>1 DEF Cached, With
    <3>2. Cached' \in [Kinds -> Collection]
      BY <2>1 DEF Cached
    <3>3. after \in [Kinds -> Collection]
      BY <2>2, <2>3 DEF With
    <3> HIDE DEF after
    <3> QED
      BY <3>1, <3>2, <3>3
  <2>5. filling' = [items |-> upsertItem(filling.items, kind, key, f),
                    all |-> upsertAll(filling.items, filling.all, kind, key, f)]
    BY <1>2 DEF filterAndCacheItem
  <2>6. filling.items = before /\ filling.all = ClosedForm(before).all
    BY <2>1 DEF ClosedForm
  <2>7. after = With(before, kind, key, f)
    OBVIOUS
  <2> HIDE DEF before, f, after, Feature, Collection
  <2>8. /\ upsertItem(before, kind, key, f) = ClosedForm(after).items
        /\ upsertAll(before, ClosedForm(before).all, kind, key, f)
             = ClosedForm(after).all
    BY <2>2, <2>3, <2>7, UpsertKeepsForm
  <2>9. filling' = ClosedForm(after)
    BY <2>5, <2>6, <2>8 DEF ClosedForm
  <2>10. filling' = ClosedForm(Cached')
    BY <2>4, <2>9
  <2> QED
    BY <2>1, <2>10 DEF LoopInv, ClosedForm
<1>3. CASE memoryInitDone \/ memoryInitFails
  BY <1>3 DEF memoryInitDone, memoryInitFails, unlock, LoopInv
<1>4. CASE UNCHANGED loop
  BY <1>4 DEF loop, LoopInv, Cached, ClosedForm, Present
<1> QED
  BY <1>1, <1>2, <1>3, <1>4 DEF LoopNext, loop

(* Every step of the loop is a step of MemoryStore, or invisible.          *)
LEMMA LoopStepIsAtomic ==
    ASSUME LoopInv, [LoopNext]_<<vars, loop>>
    PROVE  [Next]_vars
<1>1. CASE memoryInitDone
  <2>1. locked /\ todo = {} /\ sets \in [Kinds -> Collection]
        /\ filling = ClosedForm(Cached)
    BY <1>1 DEF memoryInitDone, LoopInv
  <2>2. Cached = sets
    BY <2>1 DEF Cached
  <2>3. LDStoreInit(sets)
    BY <1>1, <2>1, <2>2 DEF memoryInitDone, unlock, LDStoreInit, ClosedForm
  <2> QED
    BY <2>1, <2>3 DEF Next
<1>2. CASE memoryInitFails
  BY <1>2 DEF memoryInitFails, unlock, Flushed, LDStoreInitFails, Next
<1>3. ASSUME NEW data \in [Kinds -> Collection], memoryInit(data)
      PROVE  UNCHANGED vars
  BY <1>3 DEF memoryInit
<1>4. ASSUME NEW kind \in Kinds, NEW key \in Keys, filterAndCacheItem(kind, key)
      PROVE  UNCHANGED vars
  BY <1>4 DEF filterAndCacheItem, vars
<1>5. ASSUME \/ \E kind \in Kinds, key \in Keys, feature \in Feature :
                  LDStoreUpsert(kind, key, feature)
             \/ \E kind \in Kinds, key \in Keys, version \in Versions :
                  LDStoreRemove(kind, key, version)
             \/ \E r \in Readers : LDAllFlags(r) \/ fetchFlags(r)
             \/ \E r \in Readers : evaluateFlags(r)
      PROVE  Next
  BY <1>5 DEF Next
<1> QED
  BY <1>1, <1>2, <1>3, <1>4, <1>5 DEF LoopNext

(* memoryInit, feature by feature and in any order, implements the one     *)
(* step MemoryStore has for it, with its closed form; and an init that     *)
(* runs out of memory leaves an empty store.                               *)
THEOREM InitLoopIsAtomic == LoopSpec => InitIsAtomic
<1>1. LoopInit => LoopInv /\ Init
  BY DEF LoopInit, LoopInv
<1>2. LoopInv /\ [LoopNext]_<<vars, loop>> => [Next]_vars
  BY LoopStepIsAtomic
<1> QED
  BY <1>1, <1>2, LoopStep, PTL DEF LoopSpec, InitIsAtomic, Spec

(* So the store keeps its promises with the loop in place of the one step. *)
COROLLARY LoopKeepsPromises ==
    LoopSpec => /\ [](TypeOK /\ AllMatchesItems /\ LatestWins)
                /\ ImplementsVersionedStore
BY InitLoopIsAtomic, TypeCorrect, ListingCorrect, DeliveryOrderIrrelevant,
   Refinement, PTL DEF InitIsAtomic

=============================================================================
