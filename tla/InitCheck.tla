----------------------------- MODULE InitCheck -----------------------------
(***************************************************************************)
(* LDStoreInitialized with a backend (store.c), which LDClientInit polls   *)
(* and every variation call makes.  A negative answer of the backend is    *)
(* remembered by a marker item in the hash that expires like any item; a   *)
(* positive one is remembered for good.  The expired marker is deleted     *)
(* while only the READ lock is held.                                       *)
(***************************************************************************)
EXTENDS Integers, Sequences

CONSTANTS
    Callers,        \* threads in LDStoreInitialized
    Markers,        \* addresses of marker items
    NoMarker,       \* NULL
    CacheTTL        \* storeCacheMilliseconds, in ticks; 0 disables the cache

ASSUME TTLIsNatural == CacheTTL \in Nat

VARIABLES
    backendInited,  \* the backend holds an initialised data set
    storeInited,    \* history: LDStoreInit has returned success here
    initialized,    \* MemoryContext.initialized
    chain,          \* marker items in the hash, first found first
    age,            \* ticks since a marker was made
    corrupt,        \* a marker was freed twice: the hash is undefined
    initializing,   \* the network thread is between the two halves of
                    \* LDStoreInit
    pc, found,      \* per caller: its place, and the marker it will delete
    began,          \* history: storeInited when the call began
    answer          \* what the call returned

callers == <<pc, found, began, answer>>
hash == <<chain, age, corrupt>>
checkVars == <<backendInited, storeInited, initialized, hash, initializing,
               callers>>

CheckInit ==
    /\ backendInited = FALSE
    /\ storeInited = FALSE
    /\ initialized = FALSE
    /\ chain = <<>>
    /\ age = [m \in Markers |-> 0]
    /\ corrupt = FALSE
    /\ initializing = FALSE
    /\ pc = [c \in Callers |-> "idle"]
    /\ found = [c \in Callers |-> NoMarker]
    /\ began = [c \in Callers |-> FALSE]
    /\ answer = [c \in Callers |-> FALSE]

InHash == {chain[i] : i \in DOMAIN chain}

\* Fault: a negative answer is kept for good.
isExpiredNever(m) == FALSE

isExpired(m) == CacheTTL = 0 \/ age[m] > CacheTTL

\* The write lock waits for callers that hold the read lock.
NoReaders == \A c \in Callers : pc[c] # "delete"

-----------------------------------------------------------------------------
(* Whoever initialises the backend.                                        *)

\* Another process sharing the backend.
otherProcessInits ==
    /\ ~backendInited
    /\ backendInited' = TRUE
    /\ UNCHANGED <<storeInited, initialized, hash, initializing, callers>>

\* LDStoreInit of this process: the backend first,
LDStoreInit ==
    /\ ~initializing
    /\ backendInited' = TRUE
    /\ initializing' = TRUE
    /\ UNCHANGED <<storeInited, initialized, hash, callers>>

\* then memoryInit, which flushes the markers with everything else and
\* leaves initialized alone when there is a backend.
memoryInit ==
    /\ initializing /\ NoReaders
    /\ chain' = <<>>
    /\ initializing' = FALSE
    /\ storeInited' = TRUE
    /\ UNCHANGED <<backendInited, initialized, age, corrupt, callers>>

-----------------------------------------------------------------------------
(* LDStoreInitialized.                                                     *)

Return(c, value) ==
    /\ pc' = [pc EXCEPT ![c] = "returned"]
    /\ answer' = [answer EXCEPT ![c] = value]

\* Fault: the marker is taken for a positive answer.
answerFromCacheYes(c) ==
    /\ pc[c] = "idle"
    /\ initialized \/ chain # <<>>
    /\ ~initialized => ~isExpired(Head(chain))
    /\ Return(c, TRUE)
    /\ began' = [began EXCEPT ![c] = storeInited]
    /\ UNCHANGED <<backendInited, storeInited, initialized, hash, initializing,
                   found>>

\* Under the read lock: a remembered answer, if there is one.
answerFromCache(c) ==
    /\ pc[c] = "idle"
    /\ initialized \/ chain # <<>>
    /\ ~initialized => ~isExpired(Head(chain))
    /\ Return(c, initialized)
    /\ began' = [began EXCEPT ![c] = storeInited]
    /\ UNCHANGED <<backendInited, storeInited, initialized, hash, initializing,
                   found>>

findExpired(c) ==
    /\ pc[c] = "idle"
    /\ ~initialized /\ chain # <<>>
    /\ isExpired(Head(chain))
    /\ pc' = [pc EXCEPT ![c] = "delete"]
    /\ found' = [found EXCEPT ![c] = Head(chain)]
    /\ began' = [began EXCEPT ![c] = storeInited]
    /\ UNCHANGED <<backendInited, storeInited, initialized, hash, initializing,
                   answer>>

findNothing(c) ==
    /\ pc[c] = "idle"
    /\ ~initialized /\ chain = <<>>
    /\ pc' = [pc EXCEPT ![c] = "ask"]
    /\ began' = [began EXCEPT ![c] = storeInited]
    /\ UNCHANGED <<backendInited, storeInited, initialized, hash, initializing,
                   found, answer>>

\* deleteAndRemoveCacheItem, still under the read lock.  Another caller may
\* have deleted and freed the same marker: what follows is undefined, and
\* the model stops there.
deleteMarker(c) ==
    /\ pc[c] = "delete"
    /\ corrupt' = (found[c] \notin InHash)
    /\ chain' = SelectSeq(chain, LAMBDA m : m # found[c])
    /\ pc' = [pc EXCEPT ![c] = "ask"]
    /\ found' = [found EXCEPT ![c] = NoMarker]
    /\ UNCHANGED <<backendInited, storeInited, initialized, age, initializing,
                   began, answer>>

\* backend->initialized, no lock held.
askBackend(c) ==
    /\ pc[c] = "ask"
    /\ pc' = [pc EXCEPT ![c] = IF backendInited THEN "yes" ELSE "no"]
    /\ UNCHANGED <<backendInited, storeInited, initialized, hash, initializing,
                   found, began, answer>>

rememberYes(c) ==
    /\ pc[c] = "yes" /\ NoReaders
    /\ initialized' = TRUE
    /\ Return(c, TRUE)
    /\ UNCHANGED <<backendInited, storeInited, hash, initializing, found, began>>

rememberNo(c) ==
    /\ pc[c] = "no" /\ NoReaders
    /\ \E m \in Markers \ InHash :
         /\ chain' = <<m>> \o chain
         /\ age' = [age EXCEPT ![m] = 0]
    /\ UNCHANGED corrupt
    /\ Return(c, FALSE)
    /\ UNCHANGED <<backendInited, storeInited, initialized, initializing, found,
                   began>>

callAgain(c) ==
    /\ pc[c] = "returned"
    /\ pc' = [pc EXCEPT ![c] = "idle"]
    /\ answer' = [answer EXCEPT ![c] = FALSE]
    /\ began' = [began EXCEPT ![c] = FALSE]
    /\ UNCHANGED <<backendInited, storeInited, initialized, hash, initializing,
                   found>>

\* LDClientInit and the variations call again and again.
Caller(c) ==
    /\ ~corrupt
    /\ \/ answerFromCache(c) \/ findExpired(c) \/ findNothing(c)
       \/ deleteMarker(c) \/ askBackend(c)
       \/ rememberYes(c) \/ rememberNo(c)
       \/ callAgain(c)

Tick ==
    /\ age' = [m \in Markers |-> IF age[m] > CacheTTL THEN age[m] ELSE age[m] + 1]
    /\ UNCHANGED <<backendInited, storeInited, initialized, chain, corrupt,
                   initializing, callers>>

CheckNext ==
    \/ otherProcessInits
    \/ LDStoreInit
    \/ memoryInit
    \/ \E c \in Callers : Caller(c)
    \/ Tick

\* Callers and the clock keep going; nobody has to initialise anything.
Fairness == /\ \A c \in Callers : WF_checkVars(Caller(c))
            /\ WF_checkVars(Tick)

CheckSpec == CheckInit /\ [][CheckNext]_checkVars /\ Fairness

-----------------------------------------------------------------------------
(* Properties.                                                             *)

(* LDStoreInitialized never says yes before some process has initialised   *)
(* the backend.                                                            *)
NeverEarly == \A c \in Callers : answer[c] => backendInited

(* Once the backend is initialised a client that keeps asking learns it,   *)
(* although negative answers are cached and some arrive late.  (The hash   *)
(* broken by a double delete excepted: see DeletedOnce.)                   *)
InitIsNoticed == backendInited ~> (initialized \/ corrupt)

(* Deleting from the hash expects the write lock: no thread deletes a      *)
(* marker that another has already deleted.                                *)
DeletedOnce == ~corrupt

(* When LDStoreInit has returned success LDStoreInitialized returns true.  *)
InitializedAfterInit ==
    \A c \in Callers : (pc[c] = "returned" /\ began[c]) => answer[c]

-----------------------------------------------------------------------------
(* The inductive invariant: every positive answer, remembered, under way   *)
(* or given, goes back to the backend.                                     *)

EarlyInv ==
    /\ DOMAIN pc = Callers /\ DOMAIN answer = Callers
    /\ initialized => backendInited
    /\ \A c \in Callers : pc[c] = "yes" \/ answer[c] => backendInited

=============================================================================
