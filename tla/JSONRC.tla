------------------------------- MODULE JSONRC -------------------------------
(***************************************************************************)
(* Reference-counted features (struct LDJSONRC of store.c).  A cache item  *)
(* owns one reference.  A reader takes its own under the read lock and     *)
(* then uses the feature with no lock held, while the writer may replace   *)
(* or evict the item.  LDJSONRCDecrement drops a reference under the       *)
(* object's mutex, but destroys the object only after unlocking it, and    *)
(* deleteAndRemoveCacheItem drops the item's reference while the hash      *)
(* still holds the item: only the write lock hides it from readers.  Two   *)
(* error paths drop the only pointer to an object and not its reference.   *)
(***************************************************************************)
EXTENDS Naturals, FiniteSets

CONSTANTS
    Objects,    \* addresses LDAlloc may hand out for a struct LDJSONRC
    Slots,      \* cache items of the hash
    Readers,    \* stack frames of reading threads that can hold a result
    Writer,     \* the thread in the store with the write lock
    NULL

ASSUME OwnersAreDistinct ==
    /\ IsFiniteSet(Slots) /\ IsFiniteSet(Readers)
    /\ Slots \cap Readers = {}
    /\ Writer \notin Readers
    /\ NULL \notin Objects

VARIABLES
    alloc,      \* alloc[o]: the object is allocated
    count,      \* count[o]: its reference count
    ref,        \* ref[w]: the object a cache item or a reader points to
    freeing,    \* freeing[t]: the object thread t found at count 0 and has
                \* yet to destroy
    wrlocked,   \* the writer holds the store's write lock
    removing,   \* items whose reference is dropped but that the hash still
                \* holds
    forgotten   \* history: objects an error path has lost, never to be freed

vars == <<alloc, count, ref, freeing, wrlocked, removing, forgotten>>

Owners == Slots \cup Readers
Threads == Readers \cup {Writer}

Init ==
    /\ alloc = [o \in Objects |-> FALSE]
    /\ count = [o \in Objects |-> 0]
    /\ ref = [w \in Owners |-> NULL]
    /\ freeing = [t \in Threads |-> NULL]
    /\ wrlocked = FALSE
    /\ removing = {}
    /\ forgotten = {}

\* A thread that destroys an object is inside LDJSONRCDecrement.
Busy(t) == freeing[t] # NULL

-----------------------------------------------------------------------------
(* LDJSONRCDecrement by thread t on the reference of owner w, up to the    *)
(* unlock.                                                                 *)

CountAfterDecrement(old) == [count EXCEPT ![old] = @ - 1]

\* Fault: the count is tested before it is decremented.
FreeingNever(t, old) ==
    [freeing EXCEPT ![t] = IF count[old] = 0 THEN old ELSE NULL]

FreeingAfterDecrement(t, old) ==
    [freeing EXCEPT ![t] = IF count[old] = 1 THEN old ELSE NULL]

\* Fault: the object is destroyed again by its caller.
destroyJSONRCTwice(t) ==
    /\ Busy(t)
    /\ alloc' = [alloc EXCEPT ![freeing[t]] = FALSE]
    /\ UNCHANGED <<count, ref, freeing, wrlocked, removing, forgotten>>

\* destroyJSONRC, after the mutex was unlocked.
destroyJSONRC(t) ==
    /\ Busy(t)
    /\ alloc' = [alloc EXCEPT ![freeing[t]] = FALSE]
    /\ freeing' = [freeing EXCEPT ![t] = NULL]
    /\ UNCHANGED <<count, ref, wrlocked, removing, forgotten>>

\* LDJSONRCNew whose only pointer an error path then drops.
NewAndLost(o) ==
    /\ ~alloc[o]
    /\ alloc' = [alloc EXCEPT ![o] = TRUE]
    /\ count' = [count EXCEPT ![o] = 1]
    /\ forgotten' = forgotten \cup {o}
    /\ UNCHANGED <<ref, freeing, wrlocked, removing>>

-----------------------------------------------------------------------------
(* The writer: any number of additions and removals under one write lock.  *)

rwlock_wrlock ==
    /\ ~wrlocked
    /\ wrlocked' = TRUE
    /\ UNCHANGED <<alloc, count, ref, freeing, removing, forgotten>>

rwlock_wrunlock ==
    /\ wrlocked /\ ~Busy(Writer) /\ removing = {}
    /\ wrlocked' = FALSE
    /\ UNCHANGED <<alloc, count, ref, freeing, removing, forgotten>>

\* makeCacheItem and HASH_ADD.
addCacheItem(s, o) ==
    /\ wrlocked /\ ~Busy(Writer) /\ removing = {}
    /\ ref[s] = NULL /\ ~alloc[o]
    /\ alloc' = [alloc EXCEPT ![o] = TRUE]
    /\ count' = [count EXCEPT ![o] = 1]
    /\ ref' = [ref EXCEPT ![s] = o]
    /\ UNCHANGED <<freeing, wrlocked, removing, forgotten>>

\* makeCacheItem when LDAlloc of the item or the clock fails: its error path
\* frees the key and the item, and forgets the LDJSONRCNew it has made.
makeCacheItemFails(o) ==
    /\ wrlocked /\ ~Busy(Writer) /\ removing = {}
    /\ NewAndLost(o)

\* deleteAndRemoveCacheItem, up to its LDJSONRCDecrement: on replacement,
\* and for each item of memoryCacheFlush.  An item that upsertMemory made and
\* drops at its cleanup (deleteCacheItem) is one added and removed under the
\* same lock, where no reader can tell.
deleteAndRemoveCacheItem(s) ==
    /\ wrlocked /\ ~Busy(Writer) /\ removing = {}
    /\ ref[s] # NULL
    /\ count' = CountAfterDecrement(ref[s])
    /\ freeing' = FreeingAfterDecrement(Writer, ref[s])
    /\ removing' = {s}
    /\ UNCHANGED <<alloc, ref, wrlocked, forgotten>>

\* Its HASH_DEL, after the object was destroyed if it had to be.
hashDel(s) ==
    /\ ~Busy(Writer)
    /\ s \in removing
    /\ ref' = [ref EXCEPT ![s] = NULL]
    /\ removing' = removing \ {s}
    /\ UNCHANGED <<alloc, count, freeing, wrlocked, forgotten>>

-----------------------------------------------------------------------------
(* Readers.                                                                *)

\* Fault: no LDJSONRCIncrement.
getFromCacheUncounted(r, s) ==
    /\ ~Busy(r) /\ ref[r] = NULL
    /\ ~wrlocked
    /\ ref[s] # NULL
    /\ ref' = [ref EXCEPT ![r] = ref[s]]
    /\ UNCHANGED <<alloc, count, freeing, wrlocked, removing, forgotten>>

\* LDStoreGet and LDStoreAll on a hit: find and LDJSONRCIncrement under the
\* read lock.
getFromCache(r, s) ==
    /\ ~Busy(r) /\ ref[r] = NULL
    /\ ~wrlocked
    /\ ref[s] # NULL
    /\ count' = [count EXCEPT ![ref[s]] = @ + 1]
    /\ ref' = [ref EXCEPT ![r] = ref[s]]
    /\ UNCHANGED <<alloc, freeing, wrlocked, removing, forgotten>>

\* tryGetBackend and tryGetAllBackend: LDJSONRCNew for the caller alone.
getFromBackend(r, o) ==
    /\ ~Busy(r) /\ ref[r] = NULL
    /\ ~alloc[o]
    /\ alloc' = [alloc EXCEPT ![o] = TRUE]
    /\ count' = [count EXCEPT ![o] = 1]
    /\ ref' = [ref EXCEPT ![r] = o]
    /\ UNCHANGED <<freeing, wrlocked, removing, forgotten>>

\* tryGetBackend when the upsertMemory that follows the read fails: *result is
\* set and the call reports failure.  An evaluation returns EVAL_STORE and
\* forgets the object.  (variation releases it all the same: getFromBackend
\* and release.)
getFromBackendFails(r, o) ==
    /\ ~Busy(r) /\ ref[r] = NULL
    /\ NewAndLost(o)

\* LDJSONRCDecrement when the evaluation is done with the feature.
release(r) ==
    /\ ~Busy(r) /\ ref[r] # NULL
    /\ count' = CountAfterDecrement(ref[r])
    /\ freeing' = FreeingAfterDecrement(r, ref[r])
    /\ ref' = [ref EXCEPT ![r] = NULL]
    /\ UNCHANGED <<alloc, wrlocked, removing, forgotten>>

Next ==
    \/ rwlock_wrlock \/ rwlock_wrunlock
    \/ \E s \in Slots, o \in Objects : addCacheItem(s, o)
    \/ \E o \in Objects : makeCacheItemFails(o)
    \/ \E s \in Slots : deleteAndRemoveCacheItem(s) \/ hashDel(s)
    \/ \E r \in Readers, s \in Slots : getFromCache(r, s)
    \/ \E r \in Readers, o \in Objects : getFromBackend(r, o)
    \/ \E r \in Readers, o \in Objects : getFromBackendFails(r, o)
    \/ \E r \in Readers : release(r)
    \/ \E t \in Threads : destroyJSONRC(t)

Spec == Init /\ [][Next]_vars

-----------------------------------------------------------------------------
(* Properties.                                                             *)

(* A reference count never falls below zero, whoever calls                 *)
(* LDJSONRCDecrement.                                                      *)
TypeOK ==
    /\ alloc \in [Objects -> BOOLEAN]
    /\ count \in [Objects -> Nat]
    /\ ref \in [Owners -> Objects \cup {NULL}]
    /\ freeing \in [Threads -> Objects \cup {NULL}]
    /\ wrlocked \in BOOLEAN
    /\ removing \in SUBSET Slots
    /\ forgotten \in SUBSET Objects

Reachable == Readers \cup (IF wrlocked THEN {} ELSE Slots)

(* A reader never is left with a freed feature, and none that it could     *)
(* find in the hash is freed or about to be freed by any thread, however   *)
(* replacement, eviction and release interleave.                           *)
NoUseAfterFree ==
    \A w \in Reachable : ref[w] # NULL =>
        /\ alloc[ref[w]]
        /\ \A t \in Threads : freeing[t] # ref[w]

(* Of all the threads that drop a reference exactly one destroys the       *)
(* object, and it destroys one that is still allocated.                    *)
FreedOnce ==
    \A t \in Threads : Busy(t) =>
        /\ alloc[freeing[t]]
        /\ \A u \in Threads \ {t} : freeing[u] # freeing[t]

OwnersOf(o) == {w \in Owners \ removing : ref[w] = o}

(* An allocated feature has an owner, or a thread is destroying it, or an  *)
(* error path of makeCacheItem or of a failed read has lost it: replacing, *)
(* flushing and releasing leak nothing, and a lost object is never freed   *)
(* under anyone, since nobody has it.                                      *)
OnlyErrorsLeak ==
    \A o \in Objects : alloc[o] =>
        \/ OwnersOf(o) # {}
        \/ \E t \in Threads : freeing[t] = o
        \/ o \in forgotten

(* What the code does not have, by those two error paths: every allocated  *)
(* feature has an owner or is being destroyed.                             *)
NoLeak ==
    \A o \in Objects : alloc[o] =>
        OwnersOf(o) # {} \/ \E t \in Threads : freeing[t] = o

(* What makes the above inductive: the count of an allocated object that   *)
(* is not lost is the number of its owners, every owner's object is        *)
(* allocated, one at count 0 is being destroyed by the thread that brought *)
(* it there, and a lost one has neither.                                   *)
CountExact ==
    \A o \in Objects \ forgotten :
        alloc[o] => count[o] = Cardinality(OwnersOf(o))
LostIsAlone ==
    \A o \in forgotten :
        /\ alloc[o]
        /\ OwnersOf(o) = {}
        /\ \A t \in Threads : freeing[t] # o
OwnedIsAllocated ==
    \A w \in Owners \ removing : ref[w] # NULL => alloc[ref[w]]
DyingIsUnowned == \A t \in Threads : Busy(t) => OwnersOf(freeing[t]) = {}
RemovingIsLocked == removing # {} => wrlocked

Inv ==
    /\ TypeOK /\ FreedOnce /\ OnlyErrorsLeak
    /\ CountExact /\ LostIsAlone
    /\ OwnedIsAllocated /\ DyingIsUnowned /\ RemovingIsLocked

=============================================================================
