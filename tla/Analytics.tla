----------------------------- MODULE Analytics -----------------------------
(***************************************************************************)
(* Delivery of analytics events (events.c): the network thread bundles the *)
(* queued events into a payload, posts it, retries once and then discards. *)
(* Application threads queue events and call LDClientFlush at any time.    *)
(* Ticks stand for seconds; timestamps are kept as the time since, which   *)
(* stops at the largest value the code compares it with.                   *)
(***************************************************************************)
EXTENDS Naturals, FiniteSets

CONSTANTS
    Events,         \* events the application queues, each once
    FlushInterval,  \* config->flushInterval
    RetryWait,      \* one second
    LongUptime      \* the monotonic clock has passed 2^32 milliseconds

ASSUME Times == /\ FlushInterval \in Nat /\ RetryWait \in Nat
                /\ LongUptime \in BOOLEAN

VARIABLES
    queue,          \* events in the event processor
    shouldFlush,    \* LDClient.shouldFlush
    active,         \* a post is in flight
    buffer,         \* events of the payload in context->buffer
    payloadId,      \* its identifier
    failed,         \* failureTime is not 0
    waited,         \* now - failureTime, as poll() computes it
    sinceFlush,     \* now - lastFlush
    stopped,        \* the network thread has left its loop
    unqueued,       \* events the application has yet to queue
    delivered, discarded,   \* history: acknowledged; given up after two
                            \* failures
    lost,           \* history: bundled, but no request could be built
    received,       \* history: payloads the service saw, [id, events]
    owed,           \* history: queued when LDClientFlush was called and not
                    \* bundled since
    sinceFailure    \* history: true time since the payload failed

settled == <<delivered, discarded, lost, received>>
deliveryVars == <<queue, shouldFlush, active, buffer, payloadId, failed, waited,
                  sinceFlush, stopped, unqueued, settled, owed, sinceFailure>>

DeliveryInit ==
    /\ queue = {} /\ unqueued = Events
    /\ shouldFlush = FALSE
    /\ active = FALSE
    /\ buffer = {} /\ payloadId = 0
    /\ failed = FALSE /\ waited = 0
    /\ sinceFlush = 0
    /\ stopped = FALSE
    /\ delivered = {} /\ discarded = {} /\ lost = {} /\ received = {}
    /\ owed = {}
    /\ sinceFailure = 0

-----------------------------------------------------------------------------
(* Application threads.                                                    *)

queueEvent(e) ==
    /\ e \in unqueued
    /\ unqueued' = unqueued \ {e}
    /\ queue' = queue \cup {e}
    /\ UNCHANGED <<shouldFlush, active, buffer, payloadId, failed, waited,
                   sinceFlush, stopped, settled, owed, sinceFailure>>

LDClientFlush ==
    /\ shouldFlush' = TRUE
    /\ owed' = queue
    /\ UNCHANGED <<queue, active, buffer, payloadId, failed, waited,
                   sinceFlush, stopped, unqueued, settled, sinceFailure>>

-----------------------------------------------------------------------------
(* poll().  With nothing queued it changes nothing: it resets a local copy *)
(* of shouldFlush and leaves the client's as it is.                        *)

MayBundle ==
    /\ ~stopped /\ ~active /\ ~failed
    /\ shouldFlush \/ sinceFlush >= FlushInterval
    /\ queue # {}

Bundle ==
    /\ MayBundle
    /\ queue' = {} /\ owed' = {}
    /\ buffer' = queue
    /\ payloadId' = payloadId + 1

pollBundle ==
    /\ Bundle
    /\ active' = TRUE
    /\ UNCHANGED <<shouldFlush, failed, waited, sinceFlush, stopped, unqueued,
                   settled, sinceFailure>>

\* The identifier or the curl handle could not be made: the next bundle
\* overwrites this one.
pollBundleFails ==
    /\ Bundle
    /\ lost' = lost \cup queue
    /\ UNCHANGED <<shouldFlush, active, failed, waited, sinceFlush, stopped,
                   unqueued, delivered, discarded, received, sinceFailure>>

\* Fault: the queue is bundled again for the retry, under a new identifier.
pollRetryNewId ==
    /\ ~stopped /\ ~active /\ failed
    /\ waited > RetryWait
    /\ active' = TRUE
    /\ payloadId' = payloadId + 1
    /\ UNCHANGED <<queue, shouldFlush, buffer, failed, waited, sinceFlush,
                   stopped, unqueued, settled, owed, sinceFailure>>

\* Fault: no wait.
pollRetryAtOnce ==
    /\ ~stopped /\ ~active /\ failed
    /\ active' = TRUE
    /\ UNCHANGED <<queue, shouldFlush, buffer, payloadId, failed, waited,
                   sinceFlush, stopped, unqueued, settled, owed, sinceFailure>>

\* The second attempt: the same bytes under the same identifier.
pollRetry ==
    /\ ~stopped /\ ~active /\ failed
    /\ waited > RetryWait
    /\ active' = TRUE
    /\ UNCHANGED <<queue, shouldFlush, buffer, payloadId, failed, waited,
                   sinceFlush, stopped, unqueued, settled, owed, sinceFailure>>

-----------------------------------------------------------------------------
(* The service and done().  A post may reach the service and still fail.   *)

serviceReceives ==
    /\ active
    /\ received' = received \cup {[id |-> payloadId, events |-> buffer]}
    /\ UNCHANGED <<queue, shouldFlush, active, buffer, payloadId, failed, waited,
                   sinceFlush, stopped, unqueued, delivered, discarded, lost,
                   owed, sinceFailure>>

\* Fault: the buffer is not reset.
doneSuccessKeepsBuffer ==
    /\ active /\ ~stopped
    /\ [id |-> payloadId, events |-> buffer] \in received
    /\ active' = FALSE
    /\ shouldFlush' = FALSE
    /\ sinceFlush' = 0
    /\ delivered' = delivered \cup buffer
    /\ failed' = FALSE
    /\ UNCHANGED <<queue, buffer, payloadId, waited, stopped, unqueued,
                   discarded, lost, received, owed, sinceFailure>>

doneSuccess ==
    /\ active /\ ~stopped
    /\ [id |-> payloadId, events |-> buffer] \in received
    /\ active' = FALSE
    /\ shouldFlush' = FALSE
    /\ sinceFlush' = 0
    /\ delivered' = delivered \cup buffer
    /\ buffer' = {} /\ failed' = FALSE
    /\ UNCHANGED <<queue, payloadId, waited, stopped, unqueued, discarded, lost,
                   received, owed, sinceFailure>>

\* Fault: failureTime survives the payload it was set for.
doneSecondFailureKeepsTime ==
    /\ active /\ ~stopped /\ failed
    /\ active' = FALSE
    /\ discarded' = discarded \cup buffer
    /\ buffer' = {}
    /\ UNCHANGED <<queue, shouldFlush, payloadId, failed, waited, sinceFlush,
                   stopped, unqueued, delivered, lost, received, owed,
                   sinceFailure>>

doneSecondFailure ==
    /\ active /\ ~stopped /\ failed
    /\ active' = FALSE
    /\ discarded' = discarded \cup buffer
    /\ buffer' = {} /\ failed' = FALSE
    /\ UNCHANGED <<queue, shouldFlush, payloadId, waited, sinceFlush, stopped,
                   unqueued, delivered, lost, received, owed, sinceFailure>>

\* failureTime is an unsigned int: past 2^32 milliseconds the conversion
\* yields a time long gone, and 0 in one millisecond of 2^32.
doneFirstFailure ==
    /\ active /\ ~stopped /\ ~failed
    /\ active' = FALSE
    /\ \/ failed' = TRUE /\ waited' = 0 /\ ~LongUptime
       \/ failed' = TRUE /\ waited' = RetryWait + 1 /\ LongUptime
       \/ failed' = FALSE /\ waited' = 0 /\ LongUptime
    /\ sinceFailure' = 0
    /\ lost' = IF failed' THEN lost ELSE lost \cup buffer
    /\ UNCHANGED <<queue, shouldFlush, buffer, payloadId, sinceFlush, stopped,
                   unqueued, delivered, discarded, received, owed>>

-----------------------------------------------------------------------------

\* LDClientClose, or 401 or 403 on any request.
stop ==
    /\ ~stopped
    /\ stopped' = TRUE
    /\ active' = FALSE
    /\ UNCHANGED <<queue, shouldFlush, buffer, payloadId, failed, waited,
                   sinceFlush, unqueued, settled, owed, sinceFailure>>

Older(age, most) == IF age < most THEN age + 1 ELSE age

Tick ==
    /\ waited' = Older(waited, RetryWait + 1)
    /\ sinceFailure' = Older(sinceFailure, RetryWait + 1)
    /\ sinceFlush' = Older(sinceFlush, FlushInterval)
    /\ UNCHANGED <<queue, shouldFlush, active, buffer, payloadId, failed,
                   stopped, unqueued, settled, owed>>

DeliveryNext ==
    \/ \E e \in Events : queueEvent(e)
    \/ LDClientFlush
    \/ pollBundle \/ pollBundleFails \/ pollRetry
    \/ serviceReceives
    \/ doneSuccess \/ doneFirstFailure \/ doneSecondFailure
    \/ stop
    \/ Tick

\* The network thread polls and time passes.
Fairness ==
    /\ WF_deliveryVars(pollBundle) /\ WF_deliveryVars(pollRetry)
    /\ WF_deliveryVars(Tick)

DeliverySpec == DeliveryInit /\ [][DeliveryNext]_deliveryVars /\ Fairness

-----------------------------------------------------------------------------
(* Properties.                                                             *)

(* No payload is posted empty: there are at most as many identifiers as    *)
(* events (poll()).                                                        *)
DeliveryTypeOK ==
    /\ {queue, buffer, unqueued, delivered, discarded, lost, owed}
         \subseteq SUBSET Events
    /\ {shouldFlush, active, failed, stopped} \subseteq BOOLEAN
    /\ payloadId \in 0..Cardinality(Events)
    /\ {waited, sinceFailure} \subseteq 0..(RetryWait + 1)
    /\ sinceFlush \in 0..FlushInterval
    /\ received \subseteq [id : 1..Cardinality(Events), events : SUBSET Events]

(* The service can tell a retry from new events: an event reaches it under *)
(* one payload identifier only, however often the payload is posted.       *)
OneIdPerEvent ==
    \A p, q \in received : p.events \cap q.events # {} => p = q

Places == <<unqueued, queue, buffer, delivered, discarded, lost>>

(* No event is reported delivered and discarded, or queued again once it   *)
(* was bundled, and none vanishes: each is in exactly one place (a payload *)
(* that is lost stays in the buffer until the next one overwrites it).     *)
Accounted ==
    /\ UNION {Places[i] : i \in 1..6} = Events
    /\ \A i, j \in 1..6 :
         (i # j /\ Places[i] \cap Places[j] # {}) => {i, j} = {3, 6}

(* A payload that failed is posted again only after the wait.              *)
RetryWaits ==
    [][(~active /\ active' /\ failed) => sinceFailure > RetryWait]_deliveryVars

(* External: every post ends, well or badly.  Nothing in the SDK makes it: *)
(* curl is given a timeout for the connection and none for the transfer    *)
(* (network.c:116), and events.c has no clock for a post in flight.        *)
TransfersEnd ==
    WF_deliveryVars(doneSuccess \/ doneFirstFailure \/ doneSecondFailure)

Settled(e) == e \in delivered \/ e \in discarded \/ e \in lost \/ stopped

(* If transfers end then a queued event is delivered in the end, or has    *)
(* failed twice, unless its request could not be built or the thread has   *)
(* stopped.                                                                *)
EventsSettle == TransfersEnd => \A e \in Events : (e \in queue) ~> Settled(e)

(* What the code does not have: the same whatever the service does.  One   *)
(* that takes a post and never answers keeps its events in flight and all  *)
(* later ones in the queue (network.c:116).                                *)
EventsSettleAnyway == \A e \in Events : (e \in queue) ~> Settled(e)

(* LDClientFlush "immediately flushes queued events": until the events     *)
(* queued at the call are bundled the request stays on.                    *)
FlushRemembered == owed # {} => shouldFlush

-----------------------------------------------------------------------------
(* The inductive invariant of the proofs.                                  *)

Types ==
    /\ {queue, buffer, unqueued, delivered, discarded, lost} \subseteq SUBSET Events
    /\ {active, failed, stopped} \subseteq BOOLEAN
    /\ payloadId \in Nat
    /\ received \subseteq [id : Nat, events : SUBSET Events]
    /\ waited \in Nat /\ sinceFailure \in Nat

(* Accounted, pair by pair.                                                *)
OnePlace ==
    /\ unqueued \cup queue \cup buffer \cup delivered \cup discarded \cup lost
         = Events
    /\ unqueued \cap (queue \cup buffer \cup delivered \cup discarded \cup lost) = {}
    /\ queue \cap (buffer \cup delivered \cup discarded \cup lost) = {}
    /\ buffer \cap (delivered \cup discarded) = {}
    /\ delivered \cap (discarded \cup lost) = {}
    /\ discarded \cap lost = {}

(* The service has seen nothing of what is yet to be bundled, and of the   *)
(* events in the buffer nothing but the payload in the buffer.             *)
ReceivedIsPast ==
    \A p \in received :
        /\ p.events \cap (unqueued \cup queue) = {}
        /\ p.events \cap buffer # {} => p = [id |-> payloadId, events |-> buffer]

(* A payload that is posted or to be posted again is not lost; one in the  *)
(* buffer of an idle thread is, so that the next bundle overwrites nothing.*)
BufferIsKept ==
    /\ active \/ failed => buffer \cap lost = {}
    /\ ~active /\ ~failed /\ ~stopped => buffer \subseteq lost

(* Below 2^32 milliseconds poll() computes the true time since the failure.*)
WaitIsTrue == ~LongUptime => waited = sinceFailure

Inv == Types /\ OneIdPerEvent /\ ReceivedIsPast /\ OnePlace /\ BufferIsKept
         /\ WaitIsTrue

=============================================================================
