-------------------------- MODULE SharedStateProofs --------------------------
(***************************************************************************)
(* What threads share through store.c.  Reference counting is safe for any *)
(* number of cache items, readers and addresses.  Inv is inductive: an     *)
(* action changes the owners of at most one object, by one, and the count  *)
(* with them; that the count is exact tells the thread that reaches 0 that *)
(* it is the last.  And LDStoreInitialized is never early, for any number  *)
(* of callers.                                                             *)
(***************************************************************************)
EXTENDS JSONRC, InitCheck, FiniteSetTheorems, TLAPS

(* The owners of an object can be counted.                                 *)
LEMMA OwnersFinite ==
    ASSUME NEW o
    PROVE  /\ IsFiniteSet(OwnersOf(o))
           /\ Cardinality(OwnersOf(o)) \in Nat
           /\ Cardinality(OwnersOf(o)) = 0 <=> OwnersOf(o) = {}
<1>1. IsFiniteSet(Owners)
  BY OwnersAreDistinct, FS_Union DEF Owners
<1>2. OwnersOf(o) \in SUBSET Owners
  BY DEF OwnersOf
<1>3. IsFiniteSet(OwnersOf(o))
  BY <1>1, <1>2, FS_Subset
<1> QED
  BY <1>3, FS_CardinalityType, FS_EmptySet

(* An owner gained: the object's count of owners goes up by one.           *)
LEMMA OwnerGained ==
    ASSUME NEW o, NEW w, w \notin OwnersOf(o),
           OwnersOf(o)' = OwnersOf(o) \cup {w}
    PROVE  Cardinality(OwnersOf(o)') = Cardinality(OwnersOf(o)) + 1
BY OwnersFinite, FS_AddElement

(* An owner lost: it goes down by one.                                     *)
LEMMA OwnerLost ==
    ASSUME NEW o, NEW w, w \in OwnersOf(o),
           OwnersOf(o)' = OwnersOf(o) \ {w}
    PROVE  /\ Cardinality(OwnersOf(o)') = Cardinality(OwnersOf(o)) - 1
           /\ Cardinality(OwnersOf(o)) = 1 <=> OwnersOf(o)' = {}
<1>1. Cardinality(OwnersOf(o)') = Cardinality(OwnersOf(o)) - 1
  BY OwnersFinite, FS_RemoveElement
<1>2. IsFiniteSet(OwnersOf(o)')
  BY OwnersFinite, FS_RemoveElement
<1>3. Cardinality(OwnersOf(o)') = 0 <=> OwnersOf(o)' = {}
  BY <1>2, FS_EmptySet
<1> QED
  BY <1>1, <1>3, OwnersFinite

-----------------------------------------------------------------------------
(* The three things that can happen to the owners of an object.            *)

(* LDJSONRCNew: a free address gets its first owner.                       *)
LEMMA NewObject ==
    ASSUME Inv, NEW w \in Owners \ removing, NEW o \in Objects,
           ref[w] = NULL, ~alloc[o],
           alloc' = [alloc EXCEPT ![o] = TRUE],
           count' = [count EXCEPT ![o] = 1],
           ref' = [ref EXCEPT ![w] = o],
           UNCHANGED <<freeing, wrlocked, removing, forgotten>>
    PROVE  Inv'
<1> USE OwnersAreDistinct
<1>1. TypeOK'
  BY DEF Inv, TypeOK
<1>2. OwnersOf(o) = {}
  BY DEF Inv, TypeOK, OwnedIsAllocated, OwnersOf
<1>3. OwnersOf(o)' = OwnersOf(o) \cup {w}
  BY DEF Inv, TypeOK, OwnersOf
<1>4. \A p \in Objects \ {o} : OwnersOf(p)' = OwnersOf(p)
  BY DEF Inv, TypeOK, OwnersOf
<1>5. Cardinality(OwnersOf(o)') = 1
  <2>1. Cardinality(OwnersOf(o)') = Cardinality(OwnersOf(o)) + 1
    BY <1>2, <1>3, OwnerGained
  <2> QED
    BY <1>2, <2>1, FS_EmptySet
<1>6. CountExact'
  BY <1>4, <1>5 DEF Inv, TypeOK, CountExact
<1>7. FreedOnce' /\ OnlyErrorsLeak'
  BY <1>3, <1>4 DEF Inv, TypeOK, FreedOnce, OnlyErrorsLeak, Busy
<1>8. \A t \in Threads : Busy(t) => freeing[t] # o
  BY DEF Inv, FreedOnce
<1>9. OwnedIsAllocated'
  BY DEF Inv, TypeOK, OwnedIsAllocated
<1>10. DyingIsUnowned' /\ RemovingIsLocked'
  BY <1>4, <1>8 DEF Inv, TypeOK, DyingIsUnowned, RemovingIsLocked, Busy
<1>11. LostIsAlone'
  BY <1>4 DEF Inv, TypeOK, LostIsAlone
<1> QED
  BY <1>1, <1>6, <1>7, <1>9, <1>10, <1>11 DEF Inv

(* LDJSONRCNew in a call that then fails and drops the pointer: the object *)
(* gets no owner and nobody else loses one.                                *)
LEMMA LostObject ==
    ASSUME Inv, NEW o \in Objects, NewAndLost(o)
    PROVE  Inv'
<1> USE OwnersAreDistinct DEF NewAndLost
<1>1. TypeOK' /\ RemovingIsLocked'
  BY DEF Inv, TypeOK, RemovingIsLocked
<1>2. \A p \in Objects : OwnersOf(p)' = OwnersOf(p)
  BY DEF OwnersOf
<1>3. OwnersOf(o) = {}
  BY DEF Inv, TypeOK, OwnedIsAllocated, OwnersOf
<1>4. \A t \in Threads : freeing[t] # o
  BY DEF Inv, FreedOnce, Busy
<1>5. CountExact' /\ LostIsAlone'
  BY <1>2, <1>3, <1>4 DEF Inv, TypeOK, CountExact, LostIsAlone
<1>6. FreedOnce' /\ OnlyErrorsLeak'
  BY <1>2 DEF Inv, TypeOK, FreedOnce, OnlyErrorsLeak, Busy
<1>7. OwnedIsAllocated' /\ DyingIsUnowned'
  BY <1>2 DEF Inv, TypeOK, OwnedIsAllocated, DyingIsUnowned, Busy
<1> QED
  BY <1>1, <1>5, <1>6, <1>7 DEF Inv

(* LDJSONRCDecrement: one owner lets go, and is last or is not.            *)
LEMMA DropOwner ==
    ASSUME Inv, TypeOK', RemovingIsLocked',
           NEW t \in Threads, NEW w \in Owners \ removing,
           NEW o \in Objects, ref[w] = o, ~Busy(t),
           count' = CountAfterDecrement(o),
           freeing' = FreeingAfterDecrement(t, o),
           UNCHANGED alloc, UNCHANGED forgotten,
           \A p \in Objects : OwnersOf(p)' = OwnersOf(p) \ {w},
           OwnedIsAllocated'
    PROVE  Inv'
<1> USE OwnersAreDistinct
<1>1. alloc[o]
  BY DEF Inv, TypeOK, OwnedIsAllocated
<1>2. w \in OwnersOf(o)
  BY DEF OwnersOf
<1>3. \A p \in Objects \ {o} : OwnersOf(p)' = OwnersOf(p)
  BY DEF OwnersOf
<1>4. /\ Cardinality(OwnersOf(o)') = count[o] - 1
      /\ count[o] = 1 <=> OwnersOf(o)' = {}
  BY <1>1, <1>2, OwnerLost DEF Inv, CountExact, LostIsAlone
<1>5. CountExact'
  BY <1>1, <1>3, <1>4
     DEF Inv, TypeOK, CountExact, CountAfterDecrement
<1>6. \A u \in Threads : freeing[u] # o
  BY <1>1, <1>2 DEF Inv, DyingIsUnowned, Busy
<1>7. freeing'[t] = IF OwnersOf(o)' = {} THEN o ELSE NULL
  BY <1>4 DEF Inv, TypeOK, FreeingAfterDecrement
<1>8. \A u \in Threads \ {t} : freeing'[u] = freeing[u]
  BY DEF Inv, TypeOK, FreeingAfterDecrement
<1>9. FreedOnce'
  BY <1>1, <1>6, <1>7, <1>8 DEF Inv, FreedOnce, Busy
<1>10. DyingIsUnowned'
  BY <1>1, <1>3, <1>6, <1>7, <1>8 DEF Inv, TypeOK, DyingIsUnowned, Busy
<1>11. OnlyErrorsLeak'
  BY <1>1, <1>3, <1>7, <1>8 DEF Inv, OnlyErrorsLeak, Busy
<1>12. LostIsAlone'
  BY <1>2, <1>3, <1>7, <1>8 DEF Inv, TypeOK, LostIsAlone
<1> QED
  BY <1>5, <1>9, <1>10, <1>11, <1>12 DEF Inv

(* LDJSONRCIncrement: a reader becomes one more owner of an owned object.  *)
LEMMA ShareObject ==
    ASSUME Inv, NEW r \in Readers, NEW s \in Slots, getFromCache(r, s)
    PROVE  Inv'
<1> USE OwnersAreDistinct DEF getFromCache
<1> DEFINE o == ref[s]
<1>1. removing = {}
  BY DEF Inv, RemovingIsLocked
<1>2. o \in Objects /\ alloc[o]
  BY <1>1 DEF Inv, TypeOK, OwnedIsAllocated, Owners
<1>3. TypeOK'
  BY <1>2 DEF Inv, TypeOK, Owners
<1>4. OwnersOf(o)' = OwnersOf(o) \cup {r} /\ r \notin OwnersOf(o)
  BY <1>1, <1>2 DEF Inv, TypeOK, OwnersOf, Owners
<1>5. \A p \in Objects \ {o} : OwnersOf(p)' = OwnersOf(p)
  BY <1>1 DEF Inv, TypeOK, OwnersOf, Owners
<1>6. CountExact'
  BY <1>2, <1>4, <1>5, OwnerGained DEF Inv, TypeOK, CountExact
<1>7. s \in OwnersOf(o)
  BY <1>1 DEF OwnersOf, Owners
<1>8. FreedOnce' /\ OnlyErrorsLeak'
  BY <1>4, <1>5 DEF Inv, FreedOnce, OnlyErrorsLeak, Busy
<1>9. OwnedIsAllocated' /\ RemovingIsLocked'
  BY <1>2 DEF Inv, TypeOK, OwnedIsAllocated, RemovingIsLocked
<1>10. DyingIsUnowned' /\ LostIsAlone'
  BY <1>5, <1>7 DEF Inv, TypeOK, DyingIsUnowned, LostIsAlone, Busy
<1> QED
  BY <1>3, <1>6, <1>8, <1>9, <1>10 DEF Inv

-----------------------------------------------------------------------------
LEMMA RemovalKeepsInv ==
    ASSUME Inv, NEW s \in Slots, deleteAndRemoveCacheItem(s)
    PROVE  Inv'
<1> USE OwnersAreDistinct DEF deleteAndRemoveCacheItem
<1>1. s \in Owners \ removing /\ Writer \in Threads
  BY DEF Owners, Threads
<1>2. ref[s] \in Objects /\ alloc[ref[s]]
  BY <1>1 DEF Inv, TypeOK, OwnedIsAllocated
<1>3. \A p \in Objects : OwnersOf(p)' = OwnersOf(p) \ {s}
  BY DEF OwnersOf
<1>4. count[ref[s]] # 0
  <2>1. s \in OwnersOf(ref[s])
    BY <1>1 DEF OwnersOf
  <2>2. ref[s] \notin forgotten
    BY <2>1 DEF Inv, LostIsAlone
  <2> QED
    BY <1>2, <2>1, <2>2, OwnersFinite DEF Inv, CountExact
<1>5. TypeOK'
  BY <1>1, <1>2, <1>4
     DEF Inv, TypeOK, CountAfterDecrement, FreeingAfterDecrement
<1>6. OwnedIsAllocated' /\ RemovingIsLocked'
  BY DEF Inv, OwnedIsAllocated, RemovingIsLocked
<1> QED
  BY <1>1, <1>2, <1>3, <1>5, <1>6, DropOwner

LEMMA ReleaseKeepsInv ==
    ASSUME Inv, NEW r \in Readers, release(r)
    PROVE  Inv'
<1> USE OwnersAreDistinct DEF release
<1>1. r \in Owners \ removing /\ r \in Threads
  BY DEF Owners, Threads, Inv, TypeOK
<1>2. ref[r] \in Objects /\ alloc[ref[r]]
  BY <1>1 DEF Inv, TypeOK, OwnedIsAllocated
<1>3. \A p \in Objects : OwnersOf(p)' = OwnersOf(p) \ {r}
  BY <1>1 DEF Inv, TypeOK, OwnersOf
<1>4. count[ref[r]] # 0
  <2>1. r \in OwnersOf(ref[r])
    BY <1>1 DEF OwnersOf
  <2>2. ref[r] \notin forgotten
    BY <2>1 DEF Inv, LostIsAlone
  <2> QED
    BY <1>2, <2>1, <2>2, OwnersFinite DEF Inv, CountExact
<1>5. TypeOK'
  BY <1>1, <1>2, <1>4
     DEF Inv, TypeOK, CountAfterDecrement, FreeingAfterDecrement
<1>6. OwnedIsAllocated' /\ RemovingIsLocked'
  BY <1>1 DEF Inv, TypeOK, OwnedIsAllocated, RemovingIsLocked
<1> QED
  BY <1>1, <1>2, <1>3, <1>5, <1>6, DropOwner

LEMMA DestroyKeepsInv ==
    ASSUME Inv, NEW t \in Threads, destroyJSONRC(t)
    PROVE  Inv'
<1> USE OwnersAreDistinct DEF destroyJSONRC, Busy
<1>1. freeing[t] \in Objects /\ OwnersOf(freeing[t]) = {}
  BY DEF Inv, TypeOK, DyingIsUnowned
<1>2. \A p \in Objects : OwnersOf(p)' = OwnersOf(p)
  BY DEF OwnersOf
<1>3. TypeOK' /\ RemovingIsLocked'
  BY DEF Inv, TypeOK, RemovingIsLocked
<1>4. CountExact'
  BY <1>2 DEF Inv, TypeOK, CountExact
<1>5. FreedOnce' /\ OnlyErrorsLeak'
  BY <1>1, <1>2 DEF Inv, TypeOK, FreedOnce, OnlyErrorsLeak
<1>6. OwnedIsAllocated'
  BY <1>1 DEF Inv, TypeOK, OwnedIsAllocated, OwnersOf
<1>7. DyingIsUnowned' /\ LostIsAlone'
  BY <1>2 DEF Inv, TypeOK, DyingIsUnowned, LostIsAlone
<1> QED
  BY <1>3, <1>4, <1>5, <1>6, <1>7 DEF Inv

LEMMA HashDelKeepsInv ==
    ASSUME Inv, NEW s \in Slots, hashDel(s)
    PROVE  Inv'
<1> USE OwnersAreDistinct DEF hashDel
<1>1. \A p \in Objects : OwnersOf(p)' = OwnersOf(p)
  BY DEF OwnersOf, Inv, TypeOK, Owners
<1>2. TypeOK' /\ RemovingIsLocked' /\ OwnedIsAllocated'
  BY DEF Inv, TypeOK, RemovingIsLocked, OwnedIsAllocated, Owners
<1>3. CountExact' /\ FreedOnce' /\ OnlyErrorsLeak' /\ DyingIsUnowned'
  BY <1>1 DEF Inv, TypeOK, CountExact, FreedOnce, OnlyErrorsLeak,
     DyingIsUnowned, Busy
<1>4. LostIsAlone'
  BY <1>1 DEF Inv, TypeOK, LostIsAlone
<1> QED
  BY <1>2, <1>3, <1>4 DEF Inv

LEMMA LockingKeepsInv ==
    ASSUME Inv, UNCHANGED <<alloc, count, ref, freeing, removing, forgotten>>,
           wrlocked' \in BOOLEAN, removing # {} => wrlocked'
    PROVE  Inv'
BY DEF Inv, TypeOK, FreedOnce, OnlyErrorsLeak, CountExact, LostIsAlone,
   OwnedIsAllocated, DyingIsUnowned, RemovingIsLocked, Busy, OwnersOf

LEMMA InvInductive == Spec => []Inv
<1>1. Init => Inv
  <2> SUFFICES ASSUME Init PROVE Inv
    OBVIOUS
  <2>1. TypeOK
    BY DEF Init, TypeOK
  <2> QED
    BY <2>1 DEF Init, Inv, FreedOnce, OnlyErrorsLeak, CountExact,
       LostIsAlone, OwnedIsAllocated, DyingIsUnowned, RemovingIsLocked, Busy
<1>2. Inv /\ [Next]_vars => Inv'
  <2> SUFFICES ASSUME Inv, [Next]_vars PROVE Inv'
    OBVIOUS
  <2>1. CASE rwlock_wrlock \/ rwlock_wrunlock
    BY <2>1, LockingKeepsInv DEF rwlock_wrlock, rwlock_wrunlock
  <2>2. ASSUME NEW s \in Slots, NEW o \in Objects, addCacheItem(s, o)
        PROVE  Inv'
    <3>1. s \in Owners \ removing
      BY <2>2 DEF addCacheItem, Owners
    <3> QED
      BY <2>2, <3>1, NewObject DEF addCacheItem
  <2>3. ASSUME NEW s \in Slots, deleteAndRemoveCacheItem(s)
        PROVE  Inv'
    BY <2>3, RemovalKeepsInv
  <2>4. ASSUME NEW s \in Slots, hashDel(s)
        PROVE  Inv'
    BY <2>4, HashDelKeepsInv
  <2>5. ASSUME NEW r \in Readers, NEW s \in Slots, getFromCache(r, s)
        PROVE  Inv'
    BY <2>5, ShareObject
  <2>6. ASSUME NEW r \in Readers, NEW o \in Objects, getFromBackend(r, o)
        PROVE  Inv'
    <3>1. r \in Owners \ removing
      BY OwnersAreDistinct DEF Owners, Inv, TypeOK
    <3> QED
      BY <2>6, <3>1, NewObject DEF getFromBackend
  <2>7. ASSUME NEW r \in Readers, release(r)
        PROVE  Inv'
    BY <2>7, ReleaseKeepsInv
  <2>8. ASSUME NEW t \in Threads, destroyJSONRC(t)
        PROVE  Inv'
    BY <2>8, DestroyKeepsInv
  <2>9. ASSUME NEW o \in Objects, makeCacheItemFails(o)
        PROVE  Inv'
    BY <2>9, LostObject DEF makeCacheItemFails
  <2>10. ASSUME NEW r \in Readers, NEW o \in Objects,
                getFromBackendFails(r, o)
         PROVE  Inv'
    BY <2>10, LostObject DEF getFromBackendFails
  <2>11. CASE UNCHANGED vars
    BY <2>11, LockingKeepsInv DEF vars, Inv, TypeOK, RemovingIsLocked
  <2> QED
    BY <2>1, <2>2, <2>3, <2>4, <2>5, <2>6, <2>7, <2>8, <2>9,
       <2>10, <2>11 DEF Next
<1> QED
  BY <1>1, <1>2, PTL DEF Spec

(* No reader ever is left with a freed feature: for any number of readers, *)
(* cache items and addresses.                                              *)
THEOREM ReadersSafe == Spec => []NoUseAfterFree
<1>1. Inv => NoUseAfterFree
  <2> SUFFICES ASSUME Inv, NEW w \in Reachable, ref[w] # NULL
               PROVE  /\ alloc[ref[w]]
                      /\ \A t \in Threads : freeing[t] # ref[w]
    BY DEF NoUseAfterFree
  <2>1. w \in Owners \ removing
    BY OwnersAreDistinct DEF Inv, TypeOK, Reachable, Owners, RemovingIsLocked
  <2>2. alloc[ref[w]] /\ ref[w] \in Objects
    BY <2>1 DEF Inv, TypeOK, OwnedIsAllocated
  <2>3. w \in OwnersOf(ref[w])
    BY <2>1 DEF OwnersOf
  <2> QED
    BY <2>2, <2>3 DEF Inv, DyingIsUnowned, Busy
<1> QED
  BY <1>1, InvInductive, PTL

(* Exactly one thread destroys an object, while it still is allocated.     *)
THEOREM DestroyedOnce == Spec => []FreedOnce
BY InvInductive, PTL DEF Inv

(* Every allocated feature has an owner or is being destroyed, or was lost *)
(* by the error path of makeCacheItem or of a failed read: nothing else    *)
(* leaks, whatever the sizes.                                              *)
THEOREM OnlyFailuresLeak == Spec => []OnlyErrorsLeak
BY InvInductive, PTL DEF Inv

-----------------------------------------------------------------------------
(* LDStoreInitialized with a backend (InitCheck).                          *)

(* No thread says yes before some process has initialised the backend,     *)
(* although the answers are cached and are given while others initialise.  *)
THEOREM InitializedNeverEarly == CheckSpec => []NeverEarly
<1> USE DEF EarlyInv
<1>1. CheckInit => EarlyInv
  BY DEF CheckInit
<1>2. ASSUME EarlyInv, [CheckNext]_checkVars
      PROVE  EarlyInv'
  <2> USE <1>2 DEF callers, hash, Return
  <2>1. CASE otherProcessInits \/ LDStoreInit \/ memoryInit
    BY <2>1 DEF otherProcessInits, LDStoreInit, memoryInit
  <2>2. ASSUME NEW c \in Callers,
               findExpired(c) \/ findNothing(c) \/ deleteMarker(c)
        PROVE  EarlyInv'
    BY <2>2 DEF findExpired, findNothing, deleteMarker
  <2>3. ASSUME NEW c \in Callers,
               answerFromCache(c) \/ askBackend(c)
        PROVE  EarlyInv'
    BY <2>3 DEF answerFromCache, askBackend
  <2>4. ASSUME NEW c \in Callers,
               rememberYes(c) \/ rememberNo(c) \/ callAgain(c)
        PROVE  EarlyInv'
    BY <2>4 DEF rememberYes, rememberNo, callAgain
  <2>5. CASE Tick \/ UNCHANGED checkVars
    BY <2>5 DEF Tick, checkVars
  <2> QED
    BY <2>1, <2>2, <2>3, <2>4, <2>5 DEF CheckNext, Caller
<1>3. EarlyInv => NeverEarly
  BY DEF NeverEarly
<1> QED
  BY <1>1, <1>2, <1>3, PTL DEF CheckSpec

=============================================================================
