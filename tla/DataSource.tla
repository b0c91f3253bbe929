----------------------------- MODULE DataSource -----------------------------
(***************************************************************************)
(* Where the features come from.  LDi_networkthread runs the polling and   *)
(* the streaming interface side by side; config->stream decides, for good, *)
(* which of the two ever gets past the first test of its poll().  The      *)
(* other stays idle, as if it had stopped before it began.                 *)
(***************************************************************************)
EXTENDS Streaming, Sequences

CONSTANTS PollInterval, MaxChunks, Responses    \* see Polling

ASSUME PollingBounds == {PollInterval, MaxChunks, Responses} \subseteq Nat \ {0}

\* The variables of Polling; pollActive, pollStopped are its active, stopped.
VARIABLES pollActive, memory, sincePoll, response, sent, applied, pollStopped,
          asserted, sinceDone

P == INSTANCE Polling WITH active <- pollActive, stopped <- pollStopped

pollVars == <<pollActive, memory, sincePoll, response, sent, applied, pollStopped,
              asserted, sinceDone>>

configured ==
    \/ Init /\ P!Idle /\ pollStopped = TRUE
    \/ P!Init /\ Idle /\ stopped = TRUE

step ==
    \/ Next /\ UNCHANGED pollVars
    \/ P!Next /\ UNCHANGED vars

Source == configured /\ [][step]_<<vars, pollVars>> /\ Fairness /\ P!Fairness

-----------------------------------------------------------------------------
(* Properties: those of Streaming, and of Polling the following.           *)

(* What the body collects is exactly what the server sent of this response *)
(* (done() and resetMemory of polling.c): nothing of an earlier one that   *)
(* broke half way is in front of it.                                       *)
BodyIsOneResponse == P!BodyIsOneResponse

(* If transfers end then poll() starts one request after the other, until  *)
(* the thread stops.                                                       *)
KeepsPolling == P!KeepsPolling

\* The inductive invariants of the two, side by side.
SourceInv == Inv /\ P!Inv

=============================================================================
