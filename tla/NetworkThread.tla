--------------------------- MODULE NetworkThread ---------------------------
(***************************************************************************)
(* The background thread (network.c) and the life of the client (client.c).*)
(* The thread drives every network interface through one curl multi        *)
(* handle: in each round it lets curl work, polls each interface for a new *)
(* request, hands finished transfers to their owners and waits.  An        *)
(* interface notes for itself whether it is active; the thread notes the   *)
(* handle of each interface in "current".  LDClientClose stops the thread  *)
(* and joins it.                                                           *)
(***************************************************************************)
EXTENDS FiniteSets

CONSTANTS
    Interfaces,     \* polling, streaming and analytics; analytics alone when
                    \* config->useLDD
    Streaming,      \* the interface that may kill its own transfer
    Handles,        \* addresses curl may hand out for an easy handle
    NULL

ASSUME HandlesExist ==
    /\ IsFiniteSet(Interfaces) /\ Interfaces # {}
    /\ NULL \notin Handles

VARIABLES
    pc,             \* where the thread is
    todo,           \* interfaces yet to construct, to poll or to clean up
    alloc,          \* handles that are allocated
    multi,          \* handles added to the multi handle
    finished,       \* handles with a CURLMSG_DONE to read
    owner,          \* owner[h]: CURLOPT_PRIVATE
    current,        \* current[i]: NetworkInterface.current, or NULL
    active,         \* interfaces whose context is active
    alive,          \* interfaces constructed and not destroyed yet
    multihandle,    \* the curl multi handle exists
    shuttingdown,   \* LDClient.shuttingdown
    closed,         \* LDClientClose has freed the client
    curlFailed      \* history: removing or adding a handle has failed

handles == <<alloc, multi, finished, owner>>
vars == <<pc, todo, handles, current, active, alive, multihandle, shuttingdown,
          closed, curlFailed>>

Init ==
    /\ pc = "start"
    /\ todo = {}
    /\ alloc = {} /\ multi = {} /\ finished = {}
    /\ owner = [h \in Handles |-> NULL]
    /\ current = [i \in Interfaces |-> NULL]
    /\ active = {}
    /\ alive = {} /\ multihandle = FALSE
    /\ shuttingdown = FALSE /\ closed = FALSE /\ curlFailed = FALSE

-----------------------------------------------------------------------------
(* LDi_removeAndFreeHandle on success: curl drops the pending message.     *)

removeAndFreeHandle(h) ==
    /\ alloc' = alloc \ {h}
    /\ multi' = multi \ {h}
    /\ finished' = finished \ {h}
    /\ UNCHANGED owner

StartCleanup ==
    /\ pc' = "cleanup"
    /\ todo' = Interfaces

-----------------------------------------------------------------------------
(* Before the loop.  Each failure returns from the thread on the spot and  *)
(* cleans nothing up.                                                      *)

multiInit ==
    /\ pc = "start"
    /\ multihandle' = TRUE
    /\ pc' = "construct"
    /\ todo' = Interfaces
    /\ UNCHANGED <<handles, current, active, alive, shuttingdown, closed,
                   curlFailed>>

multiInitFails ==
    /\ pc = "start"
    /\ pc' = "aborted"
    /\ UNCHANGED <<todo, handles, current, active, alive, multihandle,
                   shuttingdown, closed, curlFailed>>

\* LDi_constructPolling, LDi_constructStreaming, LDi_constructAnalytics.
construct(i) ==
    /\ pc = "construct" /\ i \in todo
    /\ todo' = todo \ {i}
    /\ alive' = alive \cup {i}
    /\ UNCHANGED <<pc, handles, current, active, multihandle, shuttingdown,
                   closed, curlFailed>>

constructFails(i) ==
    /\ pc = "construct" /\ i \in todo
    /\ pc' = "aborted"
    /\ UNCHANGED <<todo, handles, current, active, alive, multihandle,
                   shuttingdown, closed, curlFailed>>

enterLoop ==
    /\ pc = "construct" /\ todo = {}
    /\ pc' = "top"
    /\ UNCHANGED <<todo, handles, current, active, alive, multihandle,
                   shuttingdown, closed, curlFailed>>

-----------------------------------------------------------------------------
(* The loop.                                                               *)

\* Fault: shuttingdown is not looked at.
checkShutdownIgnored ==
    /\ pc = "top"
    /\ pc' = "perform"
    /\ UNCHANGED <<todo, handles, current, active, alive, multihandle,
                   shuttingdown, closed, curlFailed>>

\* The check of shuttingdown under the read lock.
checkShutdown ==
    /\ pc = "top"
    /\ IF shuttingdown THEN StartCleanup
                       ELSE pc' = "perform" /\ UNCHANGED todo
    /\ UNCHANGED <<handles, current, active, alive, multihandle,
                   shuttingdown, closed, curlFailed>>

\* curl_multi_perform; an offline client polls no interface.
perform(ended, offline) ==
    /\ pc = "perform"
    /\ finished' = finished \cup ended
    /\ pc' = "poll"
    /\ todo' = IF offline THEN {} ELSE Interfaces
    /\ UNCHANGED <<alloc, multi, owner, current, active, alive, multihandle,
                   shuttingdown, closed, curlFailed>>

\* An interface's poll() with nothing to send, waiting, or active.
pollNothing(i) ==
    /\ pc = "poll" /\ i \in todo
    /\ todo' = todo \ {i}
    /\ UNCHANGED <<pc, handles, current, active, alive, multihandle,
                   shuttingdown, closed, curlFailed>>

\* Fault: poll() does not look at active.
MayRequestAlways(i) == TRUE

MayRequest(i) == i \notin active

\* poll() returns a handle and LDi_addHandle adds it.
pollRequest(i, h) ==
    /\ pc = "poll" /\ i \in todo
    /\ MayRequest(i)
    /\ h \notin alloc
    /\ todo' = todo \ {i}
    /\ alloc' = alloc \cup {h} /\ multi' = multi \cup {h}
    /\ owner' = [owner EXCEPT ![h] = i]
    /\ current' = [current EXCEPT ![i] = h]
    /\ active' = active \cup {i}
    /\ UNCHANGED <<pc, finished, alive, multihandle, shuttingdown, closed,
                   curlFailed>>

\* LDi_addHandle fails: the thread gives up.
pollRequestFails(i, h) ==
    /\ pc = "poll" /\ i \in todo
    /\ MayRequest(i)
    /\ h \notin alloc
    /\ alloc' = alloc \cup {h}
    /\ owner' = [owner EXCEPT ![h] = i]
    /\ current' = [current EXCEPT ![i] = h]
    /\ active' = active \cup {i}
    /\ curlFailed' = TRUE
    /\ StartCleanup
    /\ UNCHANGED <<multi, finished, alive, multihandle, shuttingdown, closed>>

\* Fault: the handle is freed and stays current.
pollKillKeepsCurrent ==
    /\ pc = "poll" /\ Streaming \in todo
    /\ Streaming \in active
    /\ todo' = todo \ {Streaming}
    /\ removeAndFreeHandle(current[Streaming])
    /\ active' = active \ {Streaming}
    /\ UNCHANGED <<pc, current, alive, multihandle, shuttingdown, closed,
                   curlFailed>>

\* Streaming's poll() on a read timeout; a handle that cannot be removed
\* makes it try again in the next round.
pollKill ==
    /\ pc = "poll" /\ Streaming \in todo
    /\ Streaming \in active
    /\ todo' = todo \ {Streaming}
    /\ removeAndFreeHandle(current[Streaming])
    /\ current' = [current EXCEPT ![Streaming] = NULL]
    /\ active' = active \ {Streaming}
    /\ UNCHANGED <<pc, alive, multihandle, shuttingdown, closed, curlFailed>>

pollEnds ==
    /\ pc = "poll" /\ todo = {}
    /\ pc' = "read"
    /\ UNCHANGED <<todo, handles, current, active, alive, multihandle,
                   shuttingdown, closed, curlFailed>>

-----------------------------------------------------------------------------
(* Reading finished transfers.                                             *)

\* Fault: the finished handle stays current.
finishKeepsCurrent(h) ==
    /\ active' = active \ {owner[h]}
    /\ UNCHANGED current

\* The owner's done(), and current is cleared.
finish(h) ==
    /\ active' = active \ {owner[h]}
    /\ current' = [current EXCEPT ![owner[h]] = NULL]

readDone(h) ==
    /\ pc = "read" /\ h \in finished
    /\ finish(h)
    /\ removeAndFreeHandle(h)
    /\ UNCHANGED <<pc, todo, alive, multihandle, shuttingdown, closed,
                   curlFailed>>

\* LDi_removeAndFreeHandle fails: the handle leaks and the thread gives up.
readDoneFails(h) ==
    /\ pc = "read" /\ h \in finished
    /\ finish(h)
    /\ curlFailed' = TRUE
    /\ StartCleanup
    /\ UNCHANGED <<handles, alive, multihandle, shuttingdown, closed>>

\* 401 or 403, or no response code: the thread gives up, done() not called.
readDenied(h) ==
    /\ pc = "read" /\ h \in finished
    /\ StartCleanup
    /\ UNCHANGED <<handles, current, active, alive, multihandle,
                   shuttingdown, closed, curlFailed>>

\* Nothing left to read: curl_multi_wait and sleep, then the next round.
wait ==
    /\ pc = "read" /\ finished = {}
    /\ pc' = "top"
    /\ UNCHANGED <<todo, handles, current, active, alive, multihandle,
                   shuttingdown, closed, curlFailed>>

waitFails ==
    /\ pc = "read" /\ finished = {}
    /\ StartCleanup
    /\ UNCHANGED <<handles, current, active, alive, multihandle,
                   shuttingdown, closed, curlFailed>>

-----------------------------------------------------------------------------
(* Cleanup, interface by interface.                                        *)

\* Fault: the transfer in flight is forgotten.
cleanupForgets(i) ==
    /\ pc = "cleanup" /\ i \in todo
    /\ todo' = todo \ {i}
    /\ alive' = alive \ {i}
    /\ UNCHANGED <<pc, handles, current, active, multihandle, shuttingdown,
                   closed, curlFailed>>

cleanup(i) ==
    /\ pc = "cleanup" /\ i \in todo
    /\ todo' = todo \ {i}
    /\ IF current[i] # NULL THEN removeAndFreeHandle(current[i])
                            ELSE UNCHANGED handles
    /\ alive' = alive \ {i}
    /\ UNCHANGED <<pc, current, active, multihandle, shuttingdown, closed,
                   curlFailed>>

\* A handle cannot be removed: the thread returns on the spot.
cleanupFails(i) ==
    /\ pc = "cleanup" /\ i \in todo
    /\ current[i] # NULL
    /\ curlFailed' = TRUE
    /\ pc' = "exited"
    /\ UNCHANGED <<todo, handles, current, active, alive, multihandle,
                   shuttingdown, closed>>

\* curl_multi_cleanup, and the thread returns.
exit ==
    /\ pc = "cleanup" /\ todo = {}
    /\ multihandle' = FALSE
    /\ pc' = "exited"
    /\ UNCHANGED <<todo, handles, current, active, alive, shuttingdown, closed,
                   curlFailed>>

Thread ==
    \/ multiInit \/ multiInitFails
    \/ \E i \in Interfaces : construct(i) \/ constructFails(i)
    \/ enterLoop
    \/ checkShutdown
    \/ \E ended \in SUBSET multi, offline \in BOOLEAN : perform(ended, offline)
    \/ \E i \in Interfaces : pollNothing(i)
    \/ \E i \in Interfaces, h \in Handles : pollRequest(i, h)
    \/ \E i \in Interfaces, h \in Handles : pollRequestFails(i, h)
    \/ pollKill
    \/ pollEnds
    \/ \E h \in Handles : readDone(h) \/ readDoneFails(h) \/ readDenied(h)
    \/ wait \/ waitFails
    \/ \E i \in Interfaces : cleanup(i) \/ cleanupFails(i)
    \/ exit

-----------------------------------------------------------------------------
(* LDClientClose.                                                          *)

signalShutdown ==
    /\ ~shuttingdown
    /\ shuttingdown' = TRUE
    /\ UNCHANGED <<pc, todo, handles, current, active, alive, multihandle,
                   closed, curlFailed>>

Ended == {"exited", "aborted"}

\* LDi_thread_join returns; store, event processor and client are freed.
joinAndFree ==
    /\ shuttingdown /\ pc \in Ended /\ ~closed
    /\ closed' = TRUE
    /\ UNCHANGED <<pc, todo, handles, current, active, alive, multihandle,
                   shuttingdown, curlFailed>>

Next == Thread \/ signalShutdown \/ joinAndFree

\* The thread runs, and so does the thread that called LDClientClose.
Fairness == WF_vars(Thread) /\ WF_vars(joinAndFree)

Spec == Init /\ [][Next]_vars /\ Fairness

-----------------------------------------------------------------------------
(* Properties.                                                             *)

Places == {"start", "construct", "top", "perform", "poll", "read", "cleanup"}
              \cup Ended

(* Only interfaces that were constructed are polled and cleaned up, and    *)
(* current points to a curl handle or to nothing.                          *)
TypeOK ==
    /\ pc \in Places
    /\ todo \subseteq Interfaces
    /\ {alloc, multi, finished} \subseteq SUBSET Handles
    /\ owner \in [Handles -> Interfaces \cup {NULL}]
    /\ current \in [Interfaces -> Handles \cup {NULL}]
    /\ active \subseteq Interfaces
    /\ alive \subseteq Interfaces
    /\ {multihandle, shuttingdown, closed, curlFailed} \subseteq BOOLEAN

Looping == pc \in {"top", "perform", "poll", "read"}

(* Three parties keep books on a transfer - the interface (active), the    *)
(* thread (current) and curl (the multi handle and CURLOPT_PRIVATE) - and  *)
(* agree all through the loop, so that no interface has two transfers and  *)
(* done() reaches the one that asked.                                      *)
BooksAgree ==
    Looping =>
        /\ \A i \in Interfaces : (i \in active) <=> (current[i] # NULL)
        /\ \A i \in Interfaces : current[i] # NULL =>
             current[i] \in multi /\ owner[current[i]] = i
        /\ \A h \in multi : current[owner[h]] = h

(* The thread never frees or reads a handle that is already freed.         *)
FreesLiveHandles ==
    /\ finished \subseteq alloc
    /\ \A i \in Interfaces :
         (current[i] # NULL /\ (Looping \/ i \in todo)) => current[i] \in alloc

(* However the thread leaves its loop - close, 401, a failed wait - every  *)
(* interface is destroyed and no handle is left, unless curl refused one.  *)
(* A thread that never got to its loop leaves the multi handle and the     *)
(* interfaces it had constructed, and no transfer.                         *)
CleanExit ==
    /\ (pc = "exited" /\ ~curlFailed) =>
         /\ alive = {} /\ ~multihandle
         /\ alloc = {} /\ multi = {}
    /\ pc = "aborted" => alloc = {} /\ alive # Interfaces

(* LDClientClose returns: the thread notices and ends whatever it is doing.*)
CloseReturns == shuttingdown ~> closed

-----------------------------------------------------------------------------
(* What the code does not have.                                            *)

(* A thread that ends leaves nothing behind, unless curl refused to remove *)
(* a handle: the early returns of LDi_networkthread skip the cleanup.      *)
AlwaysCleanExit ==
    (pc \in Ended /\ ~curlFailed) => alive = {} /\ alloc = {} /\ ~multihandle

-----------------------------------------------------------------------------
(* The inductive invariant of the proofs.                                  *)

(* CURLOPT_PRIVATE names the interface that has a handle as current, also  *)
(* when the handle is gone.                                                *)
OwnerIsRight == \A i \in Interfaces : current[i] # NULL => owner[current[i]] = i

(* Nobody else has one: every allocated handle is the current one of its   *)
(* owner, and of an owner that is not cleaned up yet.  A handle that curl  *)
(* refused to remove is the exception.                                     *)
HandlesHaveOwners ==
    ~curlFailed => \A h \in alloc : /\ owner[h] \in Interfaces
                                    /\ current[owner[h]] = h
                                    /\ Looping \/ owner[h] \in todo

(* Before the loop there is no transfer, and an interface is either        *)
(* constructed or still to come.  In the loop no interface is destroyed,   *)
(* curl has refused nothing and every handle has been added; in the        *)
(* cleanup the interfaces yet to be cleaned up are those alive.            *)
WholeInLoop ==
    /\ pc \in {"start", "construct", "aborted"} =>
         /\ alloc = {} /\ ~curlFailed
         /\ active = {} /\ \A i \in Interfaces : current[i] = NULL
    /\ pc = "start" => alive = {}
    /\ pc = "construct" => alive = Interfaces \ todo
    /\ pc = "aborted" => alive # Interfaces
    /\ Looping => /\ alive = Interfaces /\ ~curlFailed
                  /\ alloc = multi
                  /\ \A i \in Interfaces : (i \in active) <=> (current[i] # NULL)
    /\ pc = "cleanup" => alive = todo
    /\ (pc = "exited" /\ ~curlFailed) => todo = {} /\ alive = {} /\ ~multihandle

Inv ==
    /\ TypeOK /\ FreesLiveHandles
    /\ OwnerIsRight /\ HandlesHaveOwners /\ WholeInLoop
    /\ multi \subseteq alloc

=============================================================================
