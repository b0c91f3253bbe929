----------------------------- MODULE Streaming -----------------------------
(***************************************************************************)
(* The life of the streaming connection (streaming.c): poll() opens it,    *)
(* waits between attempts and kills a silent stream; done() is called when *)
(* curl reports its end.  The network thread calls both, one at a time.    *)
(* Ticks stand for seconds; each timestamp of the code is kept as the time *)
(* since, which stops at the largest value the code compares it with.      *)
(***************************************************************************)
EXTENDS Integers

CONSTANTS
    QuickClose,     \* 60 s: a stream that closes earlier has failed
    ReadTimeout,    \* 300 s without data: the stream is dead
    BackoffCap,     \* 30 s: longest backoff
    MaxAttempts     \* bound: attempts from which on the backoff is capped

ASSUME TimesAreOrdered ==
    /\ {QuickClose, ReadTimeout, BackoffCap, MaxAttempts} \subseteq Nat \ {0}
    /\ 2 ^ MaxAttempts >= 2 * BackoffCap

VARIABLES
    active,         \* a transfer is in flight
    attempts,       \* failures in a row
    waitLeft,       \* ticks until waitUntil, NoWait when waitUntil is 0
    sinceStart,     \* ticks since startedOn
    sinceRead,      \* ticks since lastReadTimeMilliseconds
    permanentFailure,
    headers,        \* the header list context->headers points to: "none",
                    \* "live", or "freed" with the pointer kept
    corrupt,        \* a list was freed twice
    stopped,        \* the network thread has left its loop
    sinceOpen, sinceClose   \* history: true ages of the connection's last
                            \* opening and closing

list == <<headers, corrupt>>
vars == <<active, attempts, waitLeft, sinceStart, sinceRead, permanentFailure,
          list, stopped, sinceOpen, sinceClose>>

NoWait == -1
Min(a, b) == IF a < b THEN a ELSE b

\* startedOn is 0 and the machine has been up for a while.
Idle ==
    /\ active = FALSE
    /\ attempts = 0
    /\ waitLeft = NoWait
    /\ sinceStart = QuickClose
    /\ sinceRead = ReadTimeout
    /\ permanentFailure = FALSE
    /\ headers = "none" /\ corrupt = FALSE
    /\ sinceOpen = QuickClose
    /\ sinceClose = BackoffCap

Init == Idle /\ stopped = FALSE

-----------------------------------------------------------------------------
(* done(): what the end of a transfer with this response code leaves.      *)

\* curl_slist_free_all(context->headers).  What follows a second time is
\* undefined: the process may be aborted, here stopped, or go on.
freeHeaders == corrupt' = (corrupt \/ headers = "freed")

resetMemory == freeHeaders /\ headers' = "none"

\* 0 is a transfer that broke, whatever its code; 404 stands for the 4xx
\* codes that are final, 503 for 400, 408, 429 and everything else.
Codes == {0, 200, 404, 503}

done(responseCode) ==
    /\ active' = FALSE
    /\ permanentFailure' = (permanentFailure \/ responseCode = 404)
    /\ resetMemory
    /\ attempts' = IF responseCode = 200 /\ sinceStart >= QuickClose
                     THEN 0 ELSE Min(attempts + 1, MaxAttempts)
    /\ sinceClose' = 0

transferEnds(responseCode) ==
    /\ active /\ ~stopped
    /\ done(responseCode)
    /\ UNCHANGED <<waitLeft, sinceStart, sinceRead, stopped, sinceOpen>>

-----------------------------------------------------------------------------
(* poll().                                                                 *)

MayPoll == ~stopped /\ ~permanentFailure

\* Fault: the handle is freed but done() is not called.
pollReadTimeoutOnlyFrees ==
    /\ MayPoll /\ active
    /\ sinceRead >= ReadTimeout
    /\ UNCHANGED vars

pollReadTimeout ==
    /\ MayPoll /\ active
    /\ sinceRead >= ReadTimeout
    /\ done(0)
    /\ UNCHANGED <<waitLeft, sinceStart, sinceRead, stopped, sinceOpen>>

\* Fault: no cap.
BackoffUncapped(n) == 2 ^ n \div 2

\* Half the backoff is fixed, the other half random.
Backoff(n) == Min(2 ^ n \div 2, BackoffCap)
Waits(n) == IF n = 1 THEN {1} ELSE (Backoff(n) \div 2)..Backoff(n)

\* Fault: every poll computes a new wait.
pollBackoffAgain ==
    /\ MayPoll /\ ~active
    /\ attempts > 0
    /\ waitLeft' \in Waits(attempts)
    /\ UNCHANGED <<active, attempts, sinceStart, sinceRead, permanentFailure,
                   list, stopped, sinceOpen, sinceClose>>

pollBackoff ==
    /\ MayPoll /\ ~active
    /\ attempts > 0 /\ waitLeft = NoWait
    /\ waitLeft' \in Waits(attempts)
    /\ UNCHANGED <<active, attempts, sinceStart, sinceRead, permanentFailure,
                   list, stopped, sinceOpen, sinceClose>>

\* Fault: a wait once scheduled counts as over.
ReadyTooEarly == MayPoll /\ ~active /\ (attempts > 0 => waitLeft # NoWait)

\* The wait is over, or none was due.  Only the former notes the start.
Ready == MayPoll /\ ~active /\ (attempts > 0 => waitLeft = 0)
NoteStart ==
    IF attempts > 0
      THEN waitLeft' = NoWait /\ sinceStart' = 0
      ELSE UNCHANGED <<waitLeft, sinceStart>>

pollConnect ==
    /\ Ready /\ NoteStart
    /\ active' = TRUE
    /\ sinceRead' = 0
    /\ sinceOpen' = 0
    /\ headers' = "live"
    /\ UNCHANGED <<attempts, permanentFailure, corrupt, stopped, sinceClose>>

\* LDi_prepareShared fails: the list of an earlier failure is freed again.
prepareSharedFails ==
    /\ Ready /\ NoteStart
    /\ freeHeaders
    /\ stopped' \in {FALSE, corrupt'}
    /\ UNCHANGED <<active, attempts, sinceRead, permanentFailure, headers,
                   sinceOpen, sinceClose>>

\* Something after it fails: the new list is freed, its pointer kept.
pollFails ==
    /\ Ready /\ NoteStart
    /\ headers' = "freed"
    /\ UNCHANGED <<active, attempts, sinceRead, permanentFailure, corrupt,
                   stopped, sinceOpen, sinceClose>>

-----------------------------------------------------------------------------
(* LDi_streamWriteCallback: a chunk arrives.  A handler that fails aborts  *)
(* the transfer, which is transferEnds(0).                                 *)

streamWrite ==
    /\ active /\ ~stopped
    /\ sinceRead' = 0
    /\ UNCHANGED <<active, attempts, waitLeft, sinceStart, permanentFailure,
                   list, stopped, sinceOpen, sinceClose>>

\* 401 or 403 on any request, or LDClientClose: the loop ends.
stop ==
    /\ ~stopped
    /\ stopped' = TRUE
    /\ active' = FALSE
    /\ resetMemory
    /\ UNCHANGED <<attempts, waitLeft, sinceStart, sinceRead, permanentFailure,
                   sinceOpen, sinceClose>>

Tick ==
    /\ waitLeft' = IF waitLeft > 0 THEN waitLeft - 1 ELSE waitLeft
    /\ sinceStart' = Min(sinceStart + 1, QuickClose)
    /\ sinceRead' = Min(sinceRead + 1, ReadTimeout)
    /\ sinceOpen' = Min(sinceOpen + 1, QuickClose)
    /\ sinceClose' = Min(sinceClose + 1, BackoffCap)
    /\ UNCHANGED <<active, attempts, permanentFailure, list, stopped>>

Next ==
    \/ \E code \in Codes : transferEnds(code)
    \/ pollReadTimeout \/ pollBackoff \/ pollConnect
    \/ prepareSharedFails \/ pollFails
    \/ streamWrite
    \/ stop
    \/ Tick

\* The network thread polls forever and time passes; building a curl handle
\* does not fail forever.  Nothing is assumed of the peer.
Fairness ==
    /\ WF_vars(pollReadTimeout) /\ WF_vars(pollBackoff)
    /\ SF_vars(pollConnect)
    /\ WF_vars(Tick)

Spec == Init /\ [][Next]_vars /\ Fairness

-----------------------------------------------------------------------------
(* Properties.                                                             *)

(* No wait that poll() sets exceeds the cap, jitter included.              *)
TypeOK ==
    /\ {active, permanentFailure, corrupt, stopped} \subseteq BOOLEAN
    /\ headers \in {"none", "live", "freed"}
    /\ attempts \in 0..MaxAttempts
    /\ waitLeft \in NoWait..BackoffCap
    /\ {sinceStart, sinceOpen} \subseteq 0..QuickClose
    /\ sinceRead \in 0..ReadTimeout
    /\ sinceClose \in 0..BackoffCap

LeastWait(n) == IF n = 0 THEN 0 ELSE IF n = 1 THEN 1 ELSE Backoff(n) \div 2

(* A connection is opened only when the time that the failures before it   *)
(* call for has passed since the last one closed, although each round of   *)
(* poll() recomputes what to do from attempts and waitUntil alone.         *)
BackoffRespected ==
    [][(~active /\ active') => sinceClose >= LeastWait(attempts)]_active

(* Short of a final response or the end of the thread the SDK always gets  *)
(* back to an open stream: no state leaves it waiting for good.            *)
Reconnects == (~active) ~> (active \/ permanentFailure \/ stopped)

(* A stream that has gone silent does not stay open.                       *)
SilentStreamKilled ==
    (active /\ sinceRead = ReadTimeout)
      ~> (~active \/ sinceRead < ReadTimeout)

(* Each header list is freed once.                                         *)
HeadersFreedOnce == ~corrupt

(* done() says a stream "closed within 60 seconds of start" counts as a    *)
(* failure, so that the next attempt waits.                                *)
QuickCloseIsFailure ==
    [][(active /\ ~active' /\ ~stopped' /\ sinceOpen < QuickClose)
         => attempts' > 0]_vars

-----------------------------------------------------------------------------
(* The inductive invariant.                                                *)

\* A wait is set only between a failure and the next attempt, and what is
\* left of it makes up for the time that has not passed since the failure.
WaitMakesUp ==
    /\ active \/ attempts = 0 => waitLeft = NoWait
    /\ waitLeft # NoWait => waitLeft + sinceClose >= LeastWait(attempts)

Inv == TypeOK /\ WaitMakesUp

=============================================================================
