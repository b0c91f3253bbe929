--------------------------- MODULE FilterAndCache ---------------------------
(***************************************************************************)
(* The memory store with memoryInit step by step: take the write lock,     *)
(* flush the hash, put every feature of the payload through upsertMemory   *)
(* in the order the JSON lists them (filterAndCacheItems), mark the store  *)
(* initialized and unlock; when memory runs out, flush again and unlock.   *)
(* MemoryStore has all this as one step with a closed form for its result. *)
(* Here items and all are what a thread finds that gets the lock; the hash *)
(* that the loop is filling is hidden from it.                             *)
(***************************************************************************)
EXTENDS MemoryStore

VARIABLES
    locked,     \* memoryInit holds the write lock
    filling,    \* the hash it is filling: [items, all]
    sets, todo  \* its payload, and the features yet to cache

loop == <<locked, filling, sets, todo>>

Flushed == [items |-> NoItems, all |-> NoAll]

Present(data) == {at \in Kinds \X Keys : data[at[1]][at[2]] # NULL}

LoopInit ==
    /\ Init
    /\ locked = FALSE
    /\ filling = Flushed /\ sets = NoItems /\ todo = {}

\* The write lock, then memoryCacheFlush.
memoryInit(data) ==
    /\ ~locked
    /\ locked' = TRUE
    /\ filling' = Flushed
    /\ sets' = data /\ todo' = Present(data)
    /\ UNCHANGED vars

filterAndCacheItem(kind, key) ==
    /\ locked /\ <<kind, key>> \in todo
    /\ LET feature == sets[kind][key]
       IN  filling' =
             [items |-> upsertItem(filling.items, kind, key, feature),
              all |-> upsertAll(filling.items, filling.all, kind, key, feature)]
    /\ todo' = todo \ {<<kind, key>>}
    /\ UNCHANGED <<vars, locked, sets>>

\* What other threads find once the lock is free.
unlock(hash) ==
    /\ items' = hash.items /\ all' = hash.all
    /\ locked' = FALSE
    /\ filling' = Flushed /\ sets' = NoItems /\ todo' = {}
    /\ UNCHANGED <<pc, rawFlags>>

memoryInitDone ==
    /\ locked /\ todo = {}
    /\ unlock(filling)
    /\ initialized' = TRUE
    /\ delivered' = [kind \in Kinds |-> [key \in Keys |->
                       IF sets[kind][key] = NULL
                         THEN {} ELSE {sets[kind][key].version}]]

\* Fault: what was cached before memory ran out is left in the hash.
memoryInitFailsKeepsRest ==
    /\ locked
    /\ unlock(filling)
    /\ delivered' = Nothing
    /\ UNCHANGED initialized

memoryInitFails ==
    /\ locked
    /\ unlock(Flushed)
    /\ delivered' = Nothing
    /\ UNCHANGED initialized

\* Everything else needs the lock, except for using a listing.
LoopNext ==
    \/ \E data \in [Kinds -> Collection] : memoryInit(data)
    \/ \E kind \in Kinds, key \in Keys : filterAndCacheItem(kind, key)
    \/ memoryInitDone \/ memoryInitFails
    \/ /\ ~locked /\ UNCHANGED loop
       /\ \/ \E kind \in Kinds, key \in Keys, feature \in Feature :
               LDStoreUpsert(kind, key, feature)
          \/ \E kind \in Kinds, key \in Keys, version \in Versions :
               LDStoreRemove(kind, key, version)
          \/ \E r \in Readers : LDAllFlags(r) \/ fetchFlags(r)
    \/ UNCHANGED loop /\ \E r \in Readers : evaluateFlags(r)

LoopSpec == LoopInit /\ [][LoopNext]_<<vars, loop>>

(* memoryInit is atomic for everybody else: whatever the payload and the   *)
(* order of its features, and wherever memory runs out, each step of the   *)
(* loop is a step of MemoryStore or changes nothing that can be seen.      *)
InitIsAtomic == Spec

-----------------------------------------------------------------------------
(* The inductive invariant: at any point of the loop the hash is what an   *)
(* init with the features cached so far would leave.                       *)

Cached ==
    [kind \in Kinds |-> [key \in Keys |->
       IF <<kind, key>> \in todo THEN NULL ELSE sets[kind][key]]]

ClosedForm(data) ==
    [items |-> data, all |-> [kind \in Kinds |-> cachedAll(data[kind])]]

LoopInv ==
    /\ locked \in BOOLEAN
    /\ locked => /\ sets \in [Kinds -> Collection]
                 /\ todo \subseteq Present(sets)
                 /\ filling = ClosedForm(Cached)

=============================================================================
