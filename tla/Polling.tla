------------------------------ MODULE Polling ------------------------------
(***************************************************************************)
(* The polling interface (polling.c), used when streaming is off: request  *)
(* all features, collect the body in chunks, replace the store's content.  *)
(* A response is a sequence of chunks; those of response number n are all  *)
(* n.  Ticks stand for time; each age stops at PollInterval.               *)
(***************************************************************************)
EXTENDS Integers, Sequences

CONSTANTS
    PollInterval,   \* config->pollInterval
    MaxChunks,      \* bound: chunks of a response
    Responses       \* bound: response numbers, reused cyclically from 0

VARIABLES
    active,         \* a request is in flight
    memory,         \* chunks collected so far; <<>> is a NULL pointer
    sincePoll,      \* now - lastpoll
    response, sent, \* the server: number and chunks sent of this response
    applied,        \* the body the store was last filled with
    stopped,
    asserted,       \* updateStore was called without a body
    sinceDone       \* history: true age of the last request's end

vars == <<active, memory, sincePoll, response, sent, applied, stopped, asserted,
          sinceDone>>

\* lastpoll is 0 and the machine has been up for a while.
Idle ==
    /\ active = FALSE
    /\ memory = <<>>
    /\ sincePoll = PollInterval
    /\ response = 0 /\ sent = 0
    /\ applied = <<>>
    /\ asserted = FALSE
    /\ sinceDone = PollInterval

Init == Idle /\ stopped = FALSE

-----------------------------------------------------------------------------

pollDue == ~active /\ sincePoll >= PollInterval

poll ==
    /\ ~stopped /\ pollDue
    /\ active' = TRUE
    /\ response' = (response + 1) % Responses /\ sent' = 0
    /\ UNCHANGED <<memory, sincePoll, applied, stopped, asserted, sinceDone>>

writeCallback ==
    /\ active /\ ~stopped /\ sent < MaxChunks
    /\ sent' = sent + 1
    /\ memory' = Append(memory, response)
    /\ UNCHANGED <<active, sincePoll, response, applied, stopped, asserted,
                   sinceDone>>

-----------------------------------------------------------------------------
(* done().  updateStore asserts that there is a body, replaces the store's *)
(* content when it parses and validates, and has the next poll wait either *)
(* way; resetMemory ends every request.                                    *)

\* Fault: only a success frees the body.
resetMemoryOnSuccess(success) ==
    memory' = IF success THEN <<>> ELSE memory

resetMemory(success) == memory' = <<>>

updateStore(valid) ==
    /\ asserted' = (asserted \/ memory = <<>>)
    /\ applied' = IF valid /\ memory # <<>> THEN memory ELSE applied

doneSuccess(valid) ==
    /\ active /\ ~stopped
    /\ active' = FALSE
    /\ updateStore(valid)
    /\ sincePoll' = 0 /\ sinceDone' = 0
    /\ resetMemory(TRUE)
    /\ UNCHANGED <<response, sent, stopped>>

\* Fault: active is left set.
doneFailureStaysActive ==
    /\ active /\ ~stopped
    /\ sinceDone' = 0
    /\ resetMemory(FALSE)
    /\ UNCHANGED <<active, sincePoll, response, sent, applied, stopped, asserted>>

\* Any other response, or a transfer that broke half way.
doneFailure ==
    /\ active /\ ~stopped
    /\ active' = FALSE
    /\ sinceDone' = 0
    /\ resetMemory(FALSE)
    /\ UNCHANGED <<sincePoll, response, sent, applied, stopped, asserted>>

\* LDClientClose, or 401 or 403 on any request: destroy().
stop ==
    /\ ~stopped
    /\ stopped' = TRUE
    /\ active' = FALSE
    /\ memory' = <<>>
    /\ UNCHANGED <<sincePoll, response, sent, applied, asserted, sinceDone>>

Older(age) == IF age < PollInterval THEN age + 1 ELSE age

Tick ==
    /\ sincePoll' = Older(sincePoll)
    /\ sinceDone' = Older(sinceDone)
    /\ UNCHANGED <<active, memory, response, sent, applied, stopped, asserted>>

Next ==
    \/ poll \/ writeCallback
    \/ \E valid \in BOOLEAN : doneSuccess(valid)
    \/ doneFailure
    \/ stop
    \/ Tick

\* The network thread polls and time passes.
Fairness == WF_vars(poll) /\ WF_vars(Tick)

Spec == Init /\ [][Next]_vars /\ Fairness

-----------------------------------------------------------------------------
(* Properties.                                                             *)

(* What the body collects is exactly what the server sent of this          *)
(* response, in full: nothing of an earlier one that broke half way is in  *)
(* front of it, whatever came before.                                      *)
BodyIsOneResponse ==
    active => memory = [i \in 1..sent |-> response]

(* External: every transfer ends, well or badly.  Nothing in the SDK makes *)
(* it: curl is given a timeout for the connection and none for the         *)
(* transfer (network.c:116), and polling.c has no clock of its own.        *)
TransfersEnd ==
    WF_vars((\E valid \in BOOLEAN : doneSuccess(valid)) \/ doneFailure)

(* If transfers end then polling never does, whatever the responses: poll()*)
(* starts one request after the other until the thread stops.              *)
KeepsPolling == TransfersEnd => <>stopped \/ []<><<poll>>_vars

(* The polling interval lies between one request and the next.             *)
PollsSpaced == [][(~active /\ active') => sinceDone >= PollInterval]_active

(* updateStore's LD_ASSERT(rawupdate): a successful response has a body.   *)
BodyPresent == ~asserted

-----------------------------------------------------------------------------
(* The inductive invariant: nothing is left of a request that has ended.   *)

Inv ==
    /\ sent \in Nat
    /\ BodyIsOneResponse
    /\ ~active => memory = <<>>

=============================================================================
