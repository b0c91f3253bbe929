-------------------------- MODULE DataSourceProofs --------------------------
(***************************************************************************)
(* The streaming interface waits out its backoff, and the polling          *)
(* interface applies bodies of one response, for all times, caps and       *)
(* response sizes.  SourceInv is inductive: it adds that what is left of a *)
(* wait makes up for the time since the failure, and that nothing is left  *)
(* of a request that has ended.                                            *)
(*                                                                         *)
(* The SSE parser gives the handlers the events of the bytes received,     *)
(* wherever the chunks end, for streams of any length.  ChunkInv is        *)
(* inductive: the parser is where it would be had it met the bytes at      *)
(* once.  What it does with bytes met at once is then found by induction   *)
(* on them.                                                                *)
(***************************************************************************)
EXTENDS DataSource, EventStream, FiniteSetTheorems, SequenceTheorems,
        WellFoundedInduction, TLAPS

(* Powers of two, by counting the subsets of an interval.                  *)
LEMMA PowerOfTwo ==
    ASSUME NEW n \in Nat
    PROVE  2 ^ n \in Nat
<1>1. 1 \in Int /\ n \in Int
  OBVIOUS
<1>2. IsFiniteSet(1..n) /\ Cardinality(1..n) = IF 1 > n THEN 0 ELSE n - 1 + 1
  BY <1>1, FS_Interval, Zenon
<1>3. Cardinality(1..n) = n
  BY <1>2
<1>4. IsFiniteSet(SUBSET (1..n)) /\ Cardinality(SUBSET (1..n)) = 2 ^ Cardinality(1..n)
  BY <1>2, FS_SUBSET
<1> QED
  BY <1>3, <1>4, FS_CardinalityType

(* The waits poll() chooses from lie between the least one and the cap.    *)
LEMMA WaitsBounded ==
    ASSUME NEW n \in Nat \ {0}
    PROVE  /\ LeastWait(n) \in 0..BackoffCap
           /\ \A w \in Waits(n) : w \in LeastWait(n)..BackoffCap
<1>1. 2 ^ n \in Nat /\ BackoffCap \in Nat \ {0}
  BY PowerOfTwo, TimesAreOrdered
<1> DEFINE b == Backoff(n)
<1>2. b \in 0..BackoffCap
  <2>1. 2 ^ n \div 2 \in Nat
    BY <1>1
  <2> QED
    BY <1>1, <2>1 DEF Backoff, Min
<1> HIDE DEF b
<1>3. b \div 2 \in 0..b
  BY <1>1, <1>2
<1>4. CASE n = 1
  BY <1>1, <1>4 DEF LeastWait, Waits
<1>5. CASE n # 1
  <2>1. LeastWait(n) = b \div 2 /\ Waits(n) = (b \div 2)..b
    BY <1>5 DEF LeastWait, Waits, b
  <2> QED
    BY <1>1, <1>2, <1>3, <2>1
<1> QED
  BY <1>4, <1>5

-----------------------------------------------------------------------------
(* Streaming.                                                              *)

(* The constants are positive.                                             *)
LEMMA Times ==
    /\ QuickClose \in Nat \ {0} /\ ReadTimeout \in Nat \ {0}
    /\ BackoffCap \in Nat \ {0} /\ MaxAttempts \in Nat \ {0}
BY TimesAreOrdered

(* The stream starts idle, whether or not it is configured.                *)
LEMMA IdleInv == Idle /\ stopped \in BOOLEAN => Inv
<1> SUFFICES ASSUME Idle, stopped \in BOOLEAN
             PROVE  Inv
  OBVIOUS
<1>1. TypeOK
  <2>1. {active, permanentFailure, corrupt, stopped} \subseteq BOOLEAN
    BY DEF Idle
  <2>2. /\ headers \in {"none", "live", "freed"}
        /\ attempts \in 0..MaxAttempts /\ waitLeft \in NoWait..BackoffCap
        /\ {sinceStart, sinceOpen} \subseteq 0..QuickClose
        /\ sinceRead \in 0..ReadTimeout /\ sinceClose \in 0..BackoffCap
    BY Times DEF Idle, NoWait
  <2> QED
    BY <2>1, <2>2 DEF TypeOK
<1>2. WaitMakesUp
  BY DEF Idle, WaitMakesUp
<1> QED
  BY <1>1, <1>2 DEF Inv

(* The types of what is counted, one by one.                               *)
LEMMA Counters ==
    ASSUME TypeOK
    PROVE  /\ attempts \in 0..MaxAttempts /\ waitLeft \in -1..BackoffCap
           /\ sinceStart \in 0..QuickClose /\ sinceOpen \in 0..QuickClose
           /\ sinceRead \in 0..ReadTimeout /\ sinceClose \in 0..BackoffCap
           /\ active \in BOOLEAN /\ permanentFailure \in BOOLEAN
           /\ corrupt \in BOOLEAN /\ stopped \in BOOLEAN
BY DEF TypeOK, NoWait

(* The end of a stream, by whichever way: no wait was set while it was     *)
(* open.                                                                   *)
LEMMA EndInv ==
    ASSUME Inv, (\E code \in Codes : transferEnds(code)) \/ pollReadTimeout
    PROVE  Inv'
<1>1. PICK code \in Codes : done(code)
  BY DEF transferEnds, pollReadTimeout, Codes
<1>2. UNCHANGED <<waitLeft, sinceStart, sinceRead, stopped, sinceOpen>> /\ active
  BY DEF transferEnds, pollReadTimeout
<1>3. waitLeft = NoWait /\ TypeOK
  BY <1>2 DEF Inv, WaitMakesUp
<1>4. WaitMakesUp'
  BY <1>2, <1>3 DEF WaitMakesUp, NoWait
<1>5. TypeOK'
  <2>1. {active, permanentFailure, corrupt, stopped}' \subseteq BOOLEAN
    BY <1>1, <1>2, <1>3, Counters DEF done, resetMemory, freeHeaders
  <2>2. headers' = "none" /\ sinceClose' = 0
    BY <1>1 DEF done, resetMemory
  <2>3. attempts' \in 0..MaxAttempts
    BY <1>1, <1>3, Counters, Times DEF done, Min
  <2> QED
    BY <1>2, <1>3, <2>1, <2>2, <2>3, Times DEF TypeOK
<1> QED
  BY <1>4, <1>5 DEF Inv

(* A wait is chosen: at least what the failures call for.                  *)
LEMMA BackoffInv ==
    ASSUME Inv, pollBackoff
    PROVE  Inv'
<1>1. /\ ~active /\ attempts > 0 /\ waitLeft' \in Waits(attempts)
      /\ UNCHANGED <<active, attempts, sinceStart, sinceRead, permanentFailure,
                     headers, corrupt, stopped, sinceOpen, sinceClose>>
  BY DEF pollBackoff, list
<1>2. attempts \in Nat \ {0} /\ sinceClose \in Nat /\ TypeOK
  BY <1>1, Counters, Times DEF Inv
<1>3. waitLeft' \in LeastWait(attempts)..BackoffCap /\ LeastWait(attempts) \in 0..BackoffCap
  BY <1>1, <1>2, WaitsBounded
<1>4. LeastWait(attempts)' = LeastWait(attempts)
  BY <1>1 DEF LeastWait, Backoff
<1>5. WaitMakesUp'
  BY <1>1, <1>2, <1>3, <1>4 DEF WaitMakesUp
<1>6. TypeOK'
  <2>1. waitLeft' \in NoWait..BackoffCap
    BY <1>3, Times DEF NoWait
  <2> QED
    BY <1>1, <1>2, <2>1 DEF TypeOK
<1> QED
  BY <1>5, <1>6 DEF Inv

(* An attempt, which may fail to build its request: the wait is over and   *)
(* forgotten.                                                              *)
LEMMA AttemptInv ==
    ASSUME Inv, pollConnect \/ prepareSharedFails \/ pollFails
    PROVE  Inv'
<1>1. /\ UNCHANGED <<attempts, permanentFailure, sinceClose>>
      /\ headers' \in {"live", "freed", headers} /\ active' \in {active, TRUE}
      /\ corrupt' \in {corrupt, TRUE} /\ stopped' \in {stopped, FALSE, TRUE}
      /\ sinceRead' \in {sinceRead, 0} /\ sinceOpen' \in {sinceOpen, 0}
  BY Counters DEF Inv, pollConnect, prepareSharedFails, pollFails, freeHeaders
<1>2. TypeOK /\ Ready /\ NoteStart
  BY DEF Inv, pollConnect, prepareSharedFails, pollFails
<1>3. waitLeft' = NoWait /\ sinceStart' \in {sinceStart, 0}
  BY <1>2, Counters DEF NoteStart, Inv, WaitMakesUp
<1>4. WaitMakesUp'
  BY <1>3 DEF WaitMakesUp
<1>5. TypeOK'
  <2>1. {active, permanentFailure, corrupt, stopped}' \subseteq BOOLEAN
    BY <1>1, <1>2, Counters
  <2>2. /\ attempts' \in 0..MaxAttempts /\ waitLeft' \in NoWait..BackoffCap
        /\ {sinceStart, sinceOpen}' \subseteq 0..QuickClose
        /\ sinceRead' \in 0..ReadTimeout /\ sinceClose' \in 0..BackoffCap
    BY <1>1, <1>2, <1>3, Counters, Times DEF NoWait
  <2>3. headers' \in {"none", "live", "freed"}
    BY <1>1, <1>2 DEF TypeOK
  <2> QED
    BY <2>1, <2>2, <2>3 DEF TypeOK
<1> QED
  BY <1>4, <1>5 DEF Inv

(* A chunk, or the end of the thread.                                      *)
LEMMA WriteOrStopInv ==
    ASSUME Inv, streamWrite \/ stop
    PROVE  Inv'
<1>1. /\ UNCHANGED <<attempts, waitLeft, sinceStart, permanentFailure, sinceOpen,
                     sinceClose>>
      /\ active' \in {active, FALSE} /\ stopped' \in {stopped, TRUE}
      /\ headers' \in {headers, "none"} /\ sinceRead' \in {sinceRead, 0}
      /\ corrupt' \in {corrupt, TRUE} /\ TypeOK
  BY Counters DEF Inv, streamWrite, stop, resetMemory, freeHeaders, list
<1>2. LeastWait(attempts)' = LeastWait(attempts)
  BY <1>1 DEF LeastWait, Backoff
<1>3. WaitMakesUp'
  <2>1. active' => active
    BY <1>1, Counters
  <2> QED
    BY <1>1, <1>2, <2>1 DEF Inv, WaitMakesUp
<1>4. TypeOK'
  <2>1. {active, permanentFailure, corrupt, stopped}' \subseteq BOOLEAN
    BY <1>1, Counters
  <2>2. sinceRead' \in 0..ReadTimeout
    BY <1>1, Counters, Times
  <2> QED
    BY <1>1, <2>1, <2>2 DEF TypeOK
<1> QED
  BY <1>3, <1>4 DEF Inv

(* Time passes: what the wait loses, the time since the failure gains,     *)
(* unless that time has reached the cap, which no wait exceeds.            *)
LEMMA TickInv ==
    ASSUME Inv, Tick
    PROVE  Inv'
<1>1. TypeOK /\ UNCHANGED <<active, attempts, permanentFailure, headers, corrupt, stopped>>
  BY DEF Inv, Tick, list
<1>2. /\ sinceStart' \in 0..QuickClose /\ sinceOpen' \in 0..QuickClose
      /\ sinceRead' \in 0..ReadTimeout
      /\ sinceClose' \in 0..BackoffCap
      /\ sinceClose' = sinceClose + 1 \/ sinceClose' = BackoffCap
      /\ sinceClose' >= sinceClose
  BY <1>1, Counters, Times DEF Tick, Min
<1>3. /\ waitLeft' \in -1..BackoffCap
      /\ waitLeft' # -1 <=> waitLeft # -1
      /\ waitLeft' = waitLeft \/ waitLeft' = waitLeft - 1
      /\ waitLeft = 0 => waitLeft' = 0
  BY <1>1, Counters, Times DEF Tick
<1>4. LeastWait(attempts)' = LeastWait(attempts)
  BY <1>1 DEF LeastWait, Backoff
<1>5. WaitMakesUp'
  <2>1. ASSUME waitLeft' # NoWait
        PROVE  waitLeft' + sinceClose' >= LeastWait(attempts)
    <3>1. waitLeft # NoWait /\ attempts \in Nat \ {0}
      BY <1>1, <1>3, <2>1, Counters, Times DEF Inv, WaitMakesUp, NoWait
    <3>2. /\ LeastWait(attempts) \in 0..BackoffCap
          /\ waitLeft + sinceClose >= LeastWait(attempts)
      BY <3>1, WaitsBounded DEF Inv, WaitMakesUp
    <3> QED
      BY <1>1, <1>2, <1>3, <2>1, <3>2, Counters, Times DEF NoWait
  <2>2. active' \/ attempts' = 0 => waitLeft' = NoWait
    BY <1>1, <1>3 DEF Inv, WaitMakesUp, NoWait
  <2> QED
    BY <1>4, <2>1, <2>2 DEF WaitMakesUp
<1>6. TypeOK'
  BY <1>1, <1>2, <1>3 DEF TypeOK, NoWait
<1> QED
  BY <1>5, <1>6 DEF Inv

(* The invariant of the stream is inductive.                               *)
LEMMA StreamInv ==
    ASSUME Inv, [Next]_vars
    PROVE  Inv'
<1>1. CASE UNCHANGED vars
  BY <1>1 DEF vars, list, Inv, TypeOK, WaitMakesUp, LeastWait, Backoff
<1> QED
  BY <1>1, EndInv, BackoffInv, AttemptInv, WriteOrStopInv, TickInv DEF Next

-----------------------------------------------------------------------------
(* Polling.                                                                *)

(* A body of n chunks of response r is a sequence; without chunks it is    *)
(* empty, and with one more it is a body of n + 1 chunks.                  *)
LEMMA Bodies ==
    ASSUME NEW n \in Nat, NEW r
    PROVE  /\ [i \in 1..0 |-> r] = <<>>
           /\ Append([i \in 1..n |-> r], r) = [i \in 1..n + 1 |-> r]
<1> DEFINE body(m) == [i \in 1..m |-> r]
<1>1. \A m \in Nat : body(m) \in Seq({r}) /\ Len(body(m)) = m
  OBVIOUS
<1>2. Append(body(n), r) \in Seq({r}) /\ Len(Append(body(n), r)) = n + 1
  BY <1>1
<1>3. \A i \in 1..n + 1 : Append(body(n), r)[i] = r
  BY <1>1
<1>4. Append(body(n), r) = body(n + 1)
  BY <1>1, <1>2, <1>3, SeqEqual
<1>5. body(0) = <<>>
  BY <1>1
<1> QED
  BY <1>4, <1>5

(* A request starts with an empty body, each chunk is added to it, and     *)
(* every way a request ends empties it.                                    *)
LEMMA PollingInv ==
    ASSUME P!Inv, [P!Next]_pollVars
    PROVE  P!Inv'
<1>1. CASE UNCHANGED pollVars
  BY <1>1 DEF pollVars, P!Inv, P!BodyIsOneResponse
<1>2. CASE P!poll
  <2>1. memory' = <<>> /\ sent' = 0 /\ pollActive'
    BY <1>2 DEF P!poll, P!pollDue, P!Inv
  <2>2. [i \in 1..0 |-> response'] = <<>>
    BY Bodies
  <2> QED
    BY <2>1, <2>2 DEF P!Inv, P!BodyIsOneResponse
<1>3. CASE P!writeCallback
  <2>1. /\ pollActive /\ pollActive' = pollActive /\ sent' = sent + 1 /\ response' = response
        /\ memory' = Append(memory, response)
    BY <1>3 DEF P!writeCallback
  <2>2. sent \in Nat /\ memory = [i \in 1..sent |-> response]
    BY <2>1 DEF P!Inv, P!BodyIsOneResponse
  <2>3. memory' = [i \in 1..sent + 1 |-> response]
    BY <2>1, <2>2, Bodies
  <2> QED
    BY <2>1, <2>2, <2>3 DEF P!Inv, P!BodyIsOneResponse
<1>4. CASE (\E valid \in BOOLEAN : P!doneSuccess(valid)) \/ P!doneFailure \/ P!stop
  <2>1. pollActive' = FALSE /\ memory' = <<>> /\ sent' = sent
    BY <1>4 DEF P!doneSuccess, P!doneFailure, P!stop, P!resetMemory
  <2> QED
    BY <2>1 DEF P!Inv, P!BodyIsOneResponse
<1>5. CASE P!Tick
  BY <1>5 DEF P!Tick, P!Inv, P!BodyIsOneResponse
<1> QED
  BY <1>1, <1>2, <1>3, <1>4, <1>5 DEF P!Next

-----------------------------------------------------------------------------
(* Both.                                                                   *)

(* Whichever interface is configured, both start idle.                     *)
LEMMA ConfiguredInv == configured => SourceInv
<1> SUFFICES ASSUME configured
             PROVE  SourceInv
  OBVIOUS
<1>1. Idle /\ stopped \in BOOLEAN /\ P!Idle
  BY DEF configured, Init, P!Init
<1>2. P!Inv
  BY <1>1 DEF P!Idle, P!Inv, P!BodyIsOneResponse
<1> QED
  BY <1>1, <1>2, IdleInv DEF SourceInv

(* SourceInv is inductive.                                                 *)
LEMMA StepInv == SourceInv /\ [step]_<<vars, pollVars>> => SourceInv'
BY StreamInv, PollingInv DEF SourceInv, step

(* The network thread keeps both invariants, for any constants.            *)
THEOREM SourceInvHolds == Source => []SourceInv
BY ConfiguredInv, StepInv, PTL DEF Source

(* poll() of streaming.c: no wait exceeds the cap, jitter included, and    *)
(* the counters stay in their ranges.                                      *)
THEOREM WaitsStayCapped == Source => []TypeOK
<1>1. SourceInv => TypeOK
  BY DEF SourceInv, Inv
<1> QED
  BY <1>1, SourceInvHolds, PTL

(* writeCallback and done() of polling.c: the body is what the server sent *)
(* of this response and nothing else, for responses of any size.           *)
THEOREM BodiesNeverMix == Source => []BodyIsOneResponse
<1>1. SourceInv => BodyIsOneResponse
  BY DEF SourceInv, P!Inv, BodyIsOneResponse
<1> QED
  BY <1>1, SourceInvHolds, PTL

(* A stream opens only in a step of poll(), when the wait is over.         *)
LEMMA OpensWhenReady ==
    ASSUME SourceInv, [step]_<<vars, pollVars>>, ~active, active'
    PROVE  sinceClose >= LeastWait(attempts)
<1>1. TypeOK /\ WaitMakesUp
  BY DEF SourceInv, Inv
<1>2. Ready
  BY <1>1, Counters DEF step, vars, Next, transferEnds, pollReadTimeout, done, pollBackoff,
         pollConnect, prepareSharedFails, pollFails, streamWrite, stop, Tick
<1>3. CASE attempts > 0
  <2>1. waitLeft = 0 /\ 0 + sinceClose >= LeastWait(attempts)
    BY <1>1, <1>2, <1>3 DEF Ready, WaitMakesUp, NoWait
  <2> QED
    BY <1>1, <2>1, Counters
<1>4. CASE ~(attempts > 0)
  BY <1>1, <1>4, Counters, Times DEF LeastWait
<1> QED
  BY <1>3, <1>4

(* done() and poll() of streaming.c: between the failures in a row and the *)
(* next attempt lies the time they call for, whatever the configuration of *)
(* times and caps and however poll() fails in between.                     *)
THEOREM BackoffAlwaysRespected == Source => BackoffRespected
<1>1. SourceInv /\ [step]_<<vars, pollVars>> =>
        [(~active /\ active') => sinceClose >= LeastWait(attempts)]_active
  BY OpensWhenReady
<1> QED
  BY <1>1, SourceInvHolds, PTL DEF Source, BackoffRespected

-----------------------------------------------------------------------------
(* Induction over the natural numbers.                                     *)

Below == {pair \in Nat \X Nat : pair[1] < pair[2]}

LEMMA LeastNumber ==
    ASSUME NEW S \in SUBSET Nat, S # {}
    PROVE  \E m \in S : \A n \in S : m <= n
<1>1. OpToRel(<, Nat) = Below
  BY Zenon DEF OpToRel, Below
<1>2. IsWellFoundedOn(Below, Nat)
  BY <1>1, NatLessThanWellFounded, Zenon
<1>3. PICK m \in S : \A n \in S : <<n, m>> \notin Below
  BY <1>2, WFMin
<1>4. ASSUME NEW n \in S PROVE m <= n
  <2>1. m \in Nat /\ n \in Nat
    OBVIOUS
  <2>2. ~(n < m)
    BY <1>3, <2>1 DEF Below
  <2> QED
    BY <2>1, <2>2
<1> QED
  BY <1>4

(* Induction: a set of numbers with 0 in it that is closed under the       *)
(* successor holds them all.                                               *)
LEMMA NumberInduction ==
    ASSUME NEW S, 0 \in S, \A n \in Nat : n \in S => n + 1 \in S
    PROVE  \A n \in Nat : n \in S
<1> SUFFICES ASSUME Nat \ S # {} PROVE FALSE
  OBVIOUS
<1>1. Nat \ S \in SUBSET Nat
  OBVIOUS
<1>2. PICK m \in Nat \ S : \A n \in Nat \ S : m <= n
  BY <1>1, LeastNumber
<1>3. m \in Nat /\ m # 0
  OBVIOUS
<1>4. m - 1 \in Nat /\ ~(m <= m - 1)
  BY <1>3
<1>5. m - 1 \in S
  BY <1>2, <1>4
<1>6. (m - 1) + 1 = m
  BY <1>3
<1> QED
  BY <1>4, <1>5, <1>6

(* The loop is well defined, for a sequence of any length.                 *)
IsLoop(f, bytes, first, n) ==
    f = [i \in 0..n |-> IF i = 0 THEN first ELSE Advance(bytes, f[i - 1], i)]

LEMMA LoopExists ==
    ASSUME NEW bytes, NEW first, NEW n \in Nat
    PROVE  \E f : IsLoop(f, bytes, first, n)
<1> DEFINE S == {m \in Nat : \E f : IsLoop(f, bytes, first, m)}
<1>1. 0 \in S
  <2> DEFINE g == [i \in 0..0 |-> first]
  <2>1. IsLoop(g, bytes, first, 0)
    BY DEF IsLoop
  <2> QED
    BY <2>1
<1>2. ASSUME NEW m \in Nat, m \in S PROVE m + 1 \in S
  <2>1. PICK f : IsLoop(f, bytes, first, m)
    BY <1>2
  <2> DEFINE g == [i \in 0..(m + 1) |-> IF i = m + 1 THEN Advance(bytes, f[m], m + 1) ELSE f[i]]
             h == [i \in 0..(m + 1) |-> IF i = 0 THEN first ELSE Advance(bytes, g[i - 1], i)]
  <2>2. \A i \in 0..m : f[i] = IF i = 0 THEN first ELSE Advance(bytes, f[i - 1], i)
    BY <2>1 DEF IsLoop
  <2>3. ASSUME NEW i \in 0..(m + 1) PROVE g[i] = h[i]
    <3>1. CASE i = 0
      BY <3>1, <2>2
    <3>2. CASE i \in 1..m
      <4>1. i - 1 \in 0..m /\ i - 1 # m + 1 /\ i - 1 \in 0..(m + 1)
        BY <3>2
      <4>2. g[i - 1] = f[i - 1] /\ g[i] = f[i] /\ i # 0 /\ i \in 0..m
        BY <3>2, <4>1
      <4>3. f[i] = Advance(bytes, f[i - 1], i)
        BY <4>2, <2>2
      <4> QED
        BY <4>2, <4>3
    <3>3. CASE i = m + 1
      <4>1. i - 1 = m /\ i # 0 /\ m \in 0..(m + 1) /\ m # m + 1
        BY <3>3
      <4> QED
        BY <3>3, <4>1
    <3> QED
      BY <3>1, <3>2, <3>3
  <2>4. g = h
    BY <2>3
  <2>5. IsLoop(g, bytes, first, m + 1)
    BY <2>4 DEF IsLoop
  <2> QED
    BY <2>5
<1>3. n \in S
  BY <1>1, <1>2, NumberInduction
<1> QED
  BY <1>3

(* Each step of the loop meets one more byte.                              *)
Steps(loop, bytes, st) ==
    /\ loop[0] = [consumed |-> 0, st |-> st]
    /\ \A i \in 1..Len(bytes) : loop[i] = Advance(bytes, loop[i - 1], i)

LEMMA LoopSteps ==
    ASSUME NEW T, NEW bytes \in Seq(T), NEW st
    PROVE  Steps(processLines(bytes, st), bytes, st)
<1> DEFINE first == [consumed |-> 0, st |-> st]
           loop == processLines(bytes, st)
<1>0. Len(bytes) \in Nat
  OBVIOUS
<1>1. loop = CHOOSE f : IsLoop(f, bytes, first, Len(bytes))
  BY DEF processLines, IsLoop
<1>2. \E f : IsLoop(f, bytes, first, Len(bytes))
  BY <1>0, LoopExists
<1> HIDE DEF loop
<1>3. IsLoop(loop, bytes, first, Len(bytes))
  BY <1>1, <1>2
<1>4. loop[0] = first
  BY <1>0, <1>3 DEF IsLoop
<1>5. \A i \in 1..Len(bytes) : loop[i] = Advance(bytes, loop[i - 1], i)
  BY <1>0, <1>3 DEF IsLoop
<1>6. Steps(loop, bytes, st)
  BY <1>4, <1>5 DEF Steps
<1> QED
  BY <1>6 DEF loop

States(T) == [name : Seq(T), body : Seq(T), handled : Seq(T \X Seq(T)), ok : BOOLEAN]
Loops(T, i) == [consumed : 0..i, st : States(T)]

LEMMA OnEventBoolean ==
    ASSUME NEW name, NEW body
    PROVE  LDi_onEvent(name, body) \in BOOLEAN
<1>0. Accepted(body) \in BOOLEAN
  BY DEF Accepted
<1>1. CASE name = "put"
  <2>1. LDi_onEvent(name, body) = onPut(body)
    BY <1>1 DEF LDi_onEvent
  <2> QED
    BY <2>1, Zenon DEF onPut
<1>2. CASE name = "patch"
  <2>1. LDi_onEvent(name, body) = onPatch(body)
    BY <1>2 DEF LDi_onEvent
  <2> QED
    BY <1>0, <2>1 DEF onPatch
<1>3. CASE name = "delete"
  <2>1. LDi_onEvent(name, body) = onDelete(body)
    BY <1>3 DEF LDi_onEvent
  <2> QED
    BY <1>0, <2>1 DEF onDelete
<1>4. CASE name \notin {"put", "patch", "delete"}
  BY <1>4 DEF LDi_onEvent
<1> QED
  BY <1>1, <1>2, <1>3, <1>4

LEMMA DispatchTypes ==
    ASSUME NEW T, NEW st \in States(T)
    PROVE  dispatch(st) \in States(T)
<1> DEFINE complete == st.name # NULL /\ st.body # NULL
           ok == complete => LDi_onEvent(st.name[1], st.body)
           more == IF complete /\ ok THEN Append(st.handled, <<st.name[1], st.body>>)
                   ELSE st.handled
<1>1. ok \in BOOLEAN
  BY OnEventBoolean
<1>2. more \in Seq(T \X Seq(T))
  <2>1. CASE complete
    <3>1. st.name \in Seq(T) /\ st.name # <<>>
      BY <2>1 DEF States, NULL
    <3>2. st.name[1] \in T
      BY <3>1
    <3>3. st.body \in Seq(T) /\ st.handled \in Seq(T \X Seq(T))
      BY DEF States
    <3>4. <<st.name[1], st.body>> \in T \X Seq(T)
      BY <3>2, <3>3
    <3>5. Append(st.handled, <<st.name[1], st.body>>) \in Seq(T \X Seq(T))
      BY <3>3, <3>4, AppendProperties
    <3> QED
      BY <3>3, <3>5
  <2>2. CASE ~complete
    BY <2>2 DEF States
  <2> QED
    BY <2>1, <2>2
<1>3. dispatch(st) = [name |-> NULL, body |-> NULL, ok |-> ok, handled |-> more]
  BY Zenon DEF dispatch
<1>4. NULL \in Seq(T)
  BY DEF NULL
<1> HIDE DEF ok, more
<1> QED
  BY <1>1, <1>2, <1>3, <1>4 DEF States

LEMMA LineTypes ==
    ASSUME NEW T, NEW st \in States(T), NEW line \in Seq(T)
    PROVE  LDi_processLine(st, line) \in States(T)
<1>1. CASE line = <<>>
  BY <1>1, DispatchTypes DEF LDi_processLine
<1>2. CASE line # <<>>
  <2>1. Tail(line) \in Seq(T)
    BY <1>2
  <2>2. st.body \o Tail(line) \in Seq(T)
    BY <2>1 DEF States
  <2> QED
    BY <1>2, <2>1, <2>2 DEF LDi_processLine, States
<1> QED
  BY <1>1, <1>2

(* What memchr has passed: the loop's state is unchanged since the last    *)
(* line it finished, and no line ends after it.                            *)
LEMMA LoopShape ==
    ASSUME NEW T, NEW bytes \in Seq(T), NEW st \in States(T)
    PROVE  \A i \in 0..Len(bytes) :
             LET loop == processLines(bytes, st)
                 at == loop[i]
             IN  /\ at \in Loops(T, i)
                 /\ at.st.ok => \A k \in at.consumed..i : loop[k] = at
                 /\ at.st.ok => \A k \in (at.consumed + 1)..i : bytes[k] # NL
<1> DEFINE loop == processLines(bytes, st)
           Shape(i) == /\ loop[i] \in Loops(T, i)
                       /\ loop[i].st.ok => \A k \in loop[i].consumed..i : loop[k] = loop[i]
                       /\ loop[i].st.ok => \A k \in (loop[i].consumed + 1)..i : bytes[k] # NL
           S == {i \in Nat : i \in 0..Len(bytes) => Shape(i)}
<1>0. Len(bytes) \in Nat
  OBVIOUS
<1>00. Steps(loop, bytes, st)
  BY LoopSteps
<1> HIDE DEF loop
<1>1. loop[0] = [consumed |-> 0, st |-> st]
  BY <1>00 DEF Steps
<1>2. \A i \in 1..Len(bytes) : loop[i] = Advance(bytes, loop[i - 1], i)
  BY <1>00 DEF Steps
<1>3. 0 \in S
  BY <1>1 DEF Loops
<1>4. ASSUME NEW i \in Nat, i \in S PROVE i + 1 \in S
  <2> SUFFICES ASSUME i + 1 \in 0..Len(bytes) PROVE Shape(i + 1)
    OBVIOUS
  <2>1. i \in 0..Len(bytes) /\ i + 1 \in 1..Len(bytes) /\ (i + 1) - 1 = i
    BY <1>0
  <2>2. Shape(i)
    BY <1>4, <2>1
  <2>3. loop[i + 1] = Advance(bytes, loop[i], i + 1)
    BY <1>2, <2>1
  <2>4. loop[i].consumed \in 0..i /\ loop[i].st \in States(T)
    BY <2>2 DEF Loops
  <2>5. CASE bytes[i + 1] = NL /\ loop[i].st.ok
    <3> DEFINE line == SubSeq(bytes, loop[i].consumed + 1, i)
    <3>1. loop[i + 1] = [consumed |-> i + 1, st |-> LDi_processLine(loop[i].st, line)]
      BY <2>1, <2>3, <2>5 DEF Advance
    <3>2. line \in Seq(T)
      BY <2>1, <2>4
    <3>3. LDi_processLine(loop[i].st, line) \in States(T)
      BY <2>4, <3>2, LineTypes
    <3>4. loop[i + 1] \in Loops(T, i + 1)
      BY <3>1, <3>3 DEF Loops
    <3>5. loop[i + 1].consumed = i + 1
      BY <3>1
    <3> QED
      BY <3>4, <3>5
  <2>6. CASE ~(bytes[i + 1] = NL /\ loop[i].st.ok)
    <3>1. loop[i + 1] = loop[i]
      BY <2>3, <2>6 DEF Advance
    <3>2. loop[i + 1] \in Loops(T, i + 1)
      BY <2>2, <3>1 DEF Loops
    <3>3. ASSUME loop[i].st.ok, NEW k \in loop[i].consumed..(i + 1)
          PROVE  loop[k] = loop[i]
      <4>1. k \in loop[i].consumed..i \/ k = i + 1
        BY <2>4
      <4> QED
        BY <2>2, <3>1, <3>3, <4>1
    <3>4. ASSUME loop[i].st.ok, NEW k \in (loop[i].consumed + 1)..(i + 1)
          PROVE  bytes[k] # NL
      <4>1. k \in (loop[i].consumed + 1)..i \/ k = i + 1
        BY <2>4
      <4> QED
        BY <2>2, <2>6, <3>4, <4>1
    <3> QED
      BY <3>1, <3>2, <3>3, <3>4
  <2> QED
    BY <2>5, <2>6
<1>5. \A i \in Nat : i \in S
  <2> HIDE DEF S
  <2> QED
    BY <1>3, <1>4, NumberInduction
<1>6. \A i \in 0..Len(bytes) : Shape(i)
  BY <1>5
<1> QED
  BY <1>6 DEF loop

(* The loop over a stream does the same on a prefix of it.                 *)
LEMMA LoopPrefix ==
    ASSUME NEW T, NEW A \in Seq(T), NEW B \in Seq(T), NEW st \in States(T)
    PROVE  \A i \in 0..Len(A) : processLines(A \o B, st)[i] = processLines(A, st)[i]
<1> DEFINE loop == processLines(A \o B, st)
           short == processLines(A, st)
           S == {i \in Nat : i \in 0..Len(A) => loop[i] = short[i]}
<1>0. /\ Len(A) \in Nat /\ A \o B \in Seq(T) /\ Len(A \o B) \in Nat
      /\ Len(A) <= Len(A \o B)
      /\ \A i \in 1..Len(A) : (A \o B)[i] = A[i]
  OBVIOUS
<1>00. Steps(loop, A \o B, st) /\ Steps(short, A, st)
  BY <1>0, LoopSteps
<1>1. loop[0] = short[0]
  <2> HIDE DEF loop, short
  <2> QED
    BY <1>00 DEF Steps
<1>2. \A i \in 1..Len(A) : /\ loop[i] = Advance(A \o B, loop[i - 1], i)
                            /\ short[i] = Advance(A, short[i - 1], i)
  <2> HIDE DEF loop, short
  <2> QED
    BY <1>0, <1>00 DEF Steps
<1>3. \A i \in 0..Len(A) : short[i].consumed \in 0..i
  BY LoopShape DEF Loops
<1> HIDE DEF loop, short
<1>4. 0 \in S
  BY <1>1
<1>5. ASSUME NEW i \in Nat, i \in S PROVE i + 1 \in S
  <2> SUFFICES ASSUME i + 1 \in 0..Len(A) PROVE loop[i + 1] = short[i + 1]
    OBVIOUS
  <2>1. i \in 0..Len(A) /\ i + 1 \in 1..Len(A) /\ (i + 1) - 1 = i
    BY <1>0
  <2>2. loop[i] = short[i]
    BY <1>5, <2>1
  <2> DEFINE c == short[i].consumed
  <2>3. c \in 0..i
    BY <1>3, <2>1
  <2> HIDE DEF c
  <2>4. SubSeq(A \o B, c + 1, i) = SubSeq(A, c + 1, i)
    <3>1. \A k \in (c + 1)..i : (A \o B)[k] = A[k]
      BY <1>0, <2>1, <2>3
    <3> QED
      BY <1>0, <2>1, <2>3, <3>1
  <2>5. (A \o B)[i + 1] = A[i + 1]
    BY <1>0, <2>1
  <2>6. /\ loop[i + 1] = Advance(A \o B, short[i], i + 1)
        /\ short[i + 1] = Advance(A, short[i], i + 1)
    BY <1>2, <2>1, <2>2
  <2> QED
    BY <2>1, <2>4, <2>5, <2>6 DEF Advance, c
<1>6. \A i \in Nat : i \in S
  <2> HIDE DEF S
  <2> QED
    BY <1>4, <1>5, NumberInduction
<1>7. \A i \in 0..Len(A) : loop[i] = short[i]
  BY <1>6
<1> QED
  BY <1>7 DEF loop, short

LEMMA CutProperties ==
    ASSUME NEW T, NEW bytes \in Seq(T), NEW c \in 0..Len(bytes), NEW d \in c..Len(bytes)
    PROVE  /\ SubSeq(bytes, c + 1, d) \in Seq(T)
           /\ Len(SubSeq(bytes, c + 1, d)) = d - c
           /\ \A i \in 1..(d - c) : SubSeq(bytes, c + 1, d)[i] = bytes[c + i]
<1>1. Len(bytes) \in Nat /\ c \in Nat /\ d \in Nat /\ c <= d /\ d <= Len(bytes)
  OBVIOUS
<1>2. \A i \in (c + 1)..d : bytes[i] \in T
  BY <1>1, ElementOfSeq
<1>3. /\ SubSeq(bytes, c + 1, d) \in Seq(T)
      /\ Len(SubSeq(bytes, c + 1, d)) = IF c + 1 <= d THEN d - (c + 1) + 1 ELSE 0
      /\ \A i \in 1..(d - (c + 1) + 1) : SubSeq(bytes, c + 1, d)[i] = bytes[c + 1 + i - 1]
  <2>1. c + 1 \in Int /\ d \in Int
    BY <1>1
  <2> QED
    BY <1>2, <2>1, SubSeqProperties
<1>4. d - (c + 1) + 1 = d - c /\ \A i \in 1..(d - c) : c + 1 + i - 1 = c + i
  BY <1>1
<1>5. (IF c + 1 <= d THEN d - c ELSE 0) = d - c
  BY <1>1
<1> QED
  BY <1>3, <1>4, <1>5

LEMMA CutOfRest ==
    ASSUME NEW T, NEW bytes \in Seq(T), NEW c \in 0..Len(bytes),
           NEW j \in 0..(Len(bytes) - c), NEW q \in 0..j
    PROVE  SubSeq(SubSeq(bytes, c + 1, Len(bytes)), q + 1, j) = SubSeq(bytes, (c + q) + 1, c + j)
<1> DEFINE rest == SubSeq(bytes, c + 1, Len(bytes))
           s == SubSeq(rest, q + 1, j)
           t == SubSeq(bytes, (c + q) + 1, c + j)
<1>0. Len(bytes) \in Nat /\ c \in Nat /\ j \in Nat /\ q \in Nat /\ q <= j /\ c + j <= Len(bytes)
      /\ c <= Len(bytes)
  OBVIOUS
<1>1. /\ rest \in Seq(T) /\ Len(rest) = Len(bytes) - c
      /\ \A i \in 1..(Len(bytes) - c) : rest[i] = bytes[c + i]
  <2>1. Len(bytes) \in c..Len(bytes)
    BY <1>0
  <2> QED
    BY <2>1, CutProperties
<1> HIDE DEF rest
<1>2. /\ s \in Seq(T) /\ Len(s) = j - q /\ \A i \in 1..(j - q) : s[i] = rest[q + i]
  <2>1. q \in 0..Len(rest) /\ j \in q..Len(rest)
    BY <1>0, <1>1
  <2> QED
    BY <1>1, <2>1, CutProperties
<1>3. /\ t \in Seq(T) /\ Len(t) = (c + j) - (c + q)
      /\ \A i \in 1..((c + j) - (c + q)) : t[i] = bytes[(c + q) + i]
  <2>1. c + q \in 0..Len(bytes) /\ c + j \in (c + q)..Len(bytes)
    BY <1>0
  <2> QED
    BY <2>1, CutProperties
<1> HIDE DEF s, t
<1>4. (c + j) - (c + q) = j - q
  BY <1>0
<1>5. ASSUME NEW i \in 1..Len(s) PROVE s[i] = t[i]
  <2>1. q + i \in 1..(Len(bytes) - c) /\ c + (q + i) = (c + q) + i /\ i \in 1..(j - q)
    BY <1>0, <1>2
  <2>2. s[i] = rest[q + i]
    BY <1>2, <2>1
  <2>3. rest[q + i] = bytes[c + (q + i)]
    BY <1>1, <2>1
  <2>4. t[i] = bytes[(c + q) + i]
    BY <1>3, <1>4, <2>1
  <2> QED
    BY <2>1, <2>2, <2>3, <2>4
<1>6. Len(s) = Len(t)
  BY <1>2, <1>3, <1>4
<1>7. s = t
  BY <1>2, <1>3, <1>5, <1>6, SeqEqual
<1> QED
  BY <1>7 DEF s, t, rest

(* The loop resumed on what it had not consumed goes on as if it had never *)
(* stopped.                                                                *)
Resumes(loop, resumed, c, n) ==
    \A j \in 0..n : /\ loop[c + j].st = resumed[j].st
                    /\ loop[c + j].consumed = c + resumed[j].consumed

LEMMA LoopResume ==
    ASSUME NEW T, NEW bytes \in Seq(T), NEW st \in States(T), NEW c \in 0..Len(bytes),
           processLines(bytes, st)[c].consumed = c
    PROVE  LET loop == processLines(bytes, st)
               rest == SubSeq(bytes, c + 1, Len(bytes))
           IN  Resumes(loop, processLines(rest, loop[c].st), c, Len(rest))
<1> DEFINE loop == processLines(bytes, st)
           rest == SubSeq(bytes, c + 1, Len(bytes))
           resumed == processLines(rest, loop[c].st)
           Same(j) == /\ loop[c + j].st = resumed[j].st
                      /\ loop[c + j].consumed = c + resumed[j].consumed
           S == {j \in Nat : j \in 0..Len(rest) => Same(j)}
<1>0. /\ Len(bytes) \in Nat /\ c \in Nat /\ rest \in Seq(T) /\ Len(rest) = Len(bytes) - c
      /\ Len(rest) \in Nat
      /\ \A j \in 1..Len(rest) : rest[j] = bytes[c + j]
  OBVIOUS
<1>1. loop[c] \in Loops(T, c)
  BY LoopShape
<1>2. loop[c].st \in States(T)
  BY <1>1 DEF Loops
<1>00. Steps(loop, bytes, st) /\ Steps(resumed, rest, loop[c].st)
  BY <1>0, LoopSteps
<1>3. resumed[0] = [consumed |-> 0, st |-> loop[c].st]
  <2> HIDE DEF loop, resumed, rest
  <2> QED
    BY <1>00 DEF Steps
<1>4. \A j \in 1..Len(rest) : resumed[j] = Advance(rest, resumed[j - 1], j)
  <2> HIDE DEF loop, resumed, rest
  <2> QED
    BY <1>00 DEF Steps
<1>5. \A i \in 1..Len(bytes) : loop[i] = Advance(bytes, loop[i - 1], i)
  <2> HIDE DEF loop, resumed, rest
  <2> QED
    BY <1>00 DEF Steps
<1>6. \A j \in 0..Len(rest) : resumed[j].consumed \in 0..j
  BY <1>0, <1>2, LoopShape DEF Loops
<1>7. loop[c].consumed = c
  OBVIOUS
<1> HIDE DEF loop, resumed
<1>8. 0 \in S
  <2>1. c + 0 = c
    BY <1>0
  <2>2. resumed[0].st = loop[c].st /\ resumed[0].consumed = 0
    BY <1>3
  <2> QED
    BY <1>0, <1>7, <2>1, <2>2
<1>9. ASSUME NEW j \in Nat, j \in S PROVE j + 1 \in S
  <2> SUFFICES ASSUME j + 1 \in 0..Len(rest) PROVE Same(j + 1)
    OBVIOUS
  <2> HIDE DEF rest
  <2>1. /\ j \in 0..Len(rest) /\ j + 1 \in 1..Len(rest) /\ (j + 1) - 1 = j
        /\ c + (j + 1) \in 1..Len(bytes) /\ (c + (j + 1)) - 1 = c + j
    BY <1>0 DEF rest
  <2>2. Same(j)
    BY <1>9, <2>1
  <2> DEFINE q == resumed[j].consumed
  <2>3. q \in 0..j
    BY <1>6, <2>1
  <2>4. /\ loop[c + (j + 1)] = Advance(bytes, loop[c + j], c + (j + 1))
        /\ resumed[j + 1] = Advance(rest, resumed[j], j + 1)
    BY <1>4, <1>5, <2>1
  <2>5. rest[j + 1] = bytes[c + (j + 1)]
    BY <1>0, <2>1
  <2>6. CASE rest[j + 1] = NL /\ resumed[j].st.ok
    <3> HIDE DEF q
    <3>1. SubSeq(bytes, (c + q) + 1, c + j) = SubSeq(rest, q + 1, j)
      <4>1. j \in 0..(Len(bytes) - c)
        BY <1>0, <2>1
      <4> QED
        BY <2>3, <4>1, CutOfRest DEF rest
    <3>2. resumed[j + 1] = [consumed |-> j + 1,
                            st |-> LDi_processLine(resumed[j].st, SubSeq(rest, q + 1, j))]
      BY <2>1, <2>4, <2>6 DEF Advance, q
    <3>3. loop[c + (j + 1)] =
            [consumed |-> c + (j + 1),
             st |-> LDi_processLine(loop[c + j].st, SubSeq(bytes, (c + q) + 1, c + j))]
      BY <2>1, <2>2, <2>4, <2>5, <2>6 DEF Advance, q
    <3>4. resumed[j + 1].st = loop[c + (j + 1)].st
      <4>1. resumed[j].st = loop[c + j].st
        BY <2>2
      <4>2. resumed[j + 1].st = LDi_processLine(resumed[j].st, SubSeq(rest, q + 1, j))
        BY <3>2
      <4>3. loop[c + (j + 1)].st
              = LDi_processLine(loop[c + j].st, SubSeq(bytes, (c + q) + 1, c + j))
        BY <3>3
      <4> QED
        BY <3>1, <4>1, <4>2, <4>3, Zenon
    <3>5. resumed[j + 1].consumed = j + 1 /\ loop[c + (j + 1)].consumed = c + (j + 1)
      BY <3>2, <3>3
    <3> QED
      BY <3>4, <3>5
  <2>7. CASE ~(rest[j + 1] = NL /\ resumed[j].st.ok)
    <3>1. resumed[j + 1] = resumed[j] /\ loop[c + (j + 1)] = loop[c + j]
      BY <2>2, <2>4, <2>5, <2>7 DEF Advance
    <3> QED
      BY <2>2, <3>1
  <2> QED
    BY <2>6, <2>7
<1>10. \A j \in Nat : j \in S
  <2> HIDE DEF S
  <2> QED
    BY <1>8, <1>9, NumberInduction
<1>11. \A j \in 0..Len(rest) : Same(j)
  BY <1>0, <1>10
<1>12. Resumes(loop, resumed, c, Len(rest))
  BY <1>11 DEF Resumes
<1> QED
  BY <1>12 DEF loop, resumed

-----------------------------------------------------------------------------

LEMMA FreshType == \A T : Fresh \in States(T)
  BY DEF Fresh, States, NULL

(* Bytes met in two chunks leave the loop where meeting them at once does. *)
Continues(T, A, B) ==
    LET c == AllAtOnce(A).consumed
        bytes == SubSeq(A, c + 1, Len(A)) \o B
        last == processLines(bytes, AllAtOnce(A).st)[Len(bytes)]
    IN  /\ bytes \in Seq(T) /\ last \in Loops(T, Len(bytes))
        /\ AllAtOnce(A \o B).st = last.st
        /\ SubSeq(bytes, last.consumed + 1, Len(bytes))
             = SubSeq(A \o B, AllAtOnce(A \o B).consumed + 1, Len(A \o B))

LEMMA ChunkAfterChunk ==
    ASSUME NEW T, NEW A \in Seq(T), NEW B \in Seq(T), AllAtOnce(A).st.ok
    PROVE  Continues(T, A, B)
<1> DEFINE whole == A \o B
           loop == processLines(whole, Fresh)
           a == processLines(A, Fresh)[Len(A)]
           c == a.consumed
           rest == SubSeq(whole, c + 1, Len(whole))
           bytes == SubSeq(A, c + 1, Len(A)) \o B
           last == processLines(bytes, a.st)[Len(bytes)]
<1>0. Fresh \in States(T)
  BY FreshType
<1>1. /\ whole \in Seq(T) /\ Len(A) \in Nat /\ Len(B) \in Nat
      /\ Len(whole) = Len(A) + Len(B)
      /\ \A i \in 1..(Len(A) + Len(B)) : whole[i] = IF i <= Len(A) THEN A[i] ELSE B[i - Len(A)]
  BY ConcatProperties
<1>2. a \in Loops(T, Len(A))
  BY <1>0, <1>1, LoopShape
<1>3. c \in 0..Len(A) /\ a.st \in States(T)
  BY <1>2 DEF Loops
<1>4. loop[c] = a
  <2>1. \A i \in 0..Len(A) : loop[i] = processLines(A, Fresh)[i]
    BY <1>0, LoopPrefix
  <2>2. a.st.ok
    BY DEF AllAtOnce
  <2>3. \A k \in c..Len(A) : processLines(A, Fresh)[k] = a
    <3>1. Len(A) \in 0..Len(A)
      BY <1>1
    <3> QED
      BY <1>0, <2>2, <3>1, LoopShape
  <2>4. c \in c..Len(A) /\ c \in 0..Len(A)
    BY <1>1, <1>3
  <2> HIDE DEF a, c, loop
  <2> QED
    BY <2>1, <2>3, <2>4
<1>5. c \in 0..Len(whole) /\ loop[c].consumed = c /\ loop[c].st = a.st
  <2> HIDE DEF a, loop, whole
  <2> QED
    BY <1>1, <1>3, <1>4
<1> DEFINE resumed == processLines(rest, a.st)
<1>6. \A j \in 0..Len(rest) : /\ loop[c + j].st = resumed[j].st
                               /\ loop[c + j].consumed = c + resumed[j].consumed
  <2>1. Resumes(loop, processLines(rest, loop[c].st), c, Len(rest))
    <3> HIDE DEF a, c, whole
    <3> QED
      BY <1>0, <1>1, <1>5, LoopResume
  <2>2. Resumes(loop, resumed, c, Len(rest))
    <3>1. loop[c].st = a.st
      BY <1>5
    <3> HIDE DEF a, loop, rest, c
    <3> QED
      BY <2>1, <3>1
  <2> HIDE DEF loop, resumed, rest, c
  <2> QED
    BY <2>2 DEF Resumes
<1>7. rest = bytes /\ bytes \in Seq(T) /\ Len(rest) = Len(whole) - c
  <2> HIDE DEF a, c, whole
  <2> DEFINE left == SubSeq(A, c + 1, Len(A))
  <2>1. /\ left \in Seq(T) /\ Len(left) = Len(A) - c
        /\ \A i \in 1..(Len(A) - c) : left[i] = A[c + i]
    <3>1. Len(A) \in c..Len(A)
      BY <1>1, <1>3
    <3> QED
      BY <1>3, <3>1, CutProperties
  <2>2. /\ rest \in Seq(T) /\ Len(rest) = Len(whole) - c
        /\ \A i \in 1..(Len(whole) - c) : rest[i] = whole[c + i]
    <3>1. Len(whole) \in c..Len(whole)
      BY <1>1, <1>5
    <3> QED
      BY <1>1, <1>5, <3>1, CutProperties
  <2> HIDE DEF left, rest
  <2>3. /\ left \o B \in Seq(T) /\ Len(left \o B) = Len(left) + Len(B)
        /\ \A i \in 1..(Len(left) + Len(B)) :
             (left \o B)[i] = IF i <= Len(left) THEN left[i] ELSE B[i - Len(left)]
    BY <2>1, ConcatProperties
  <2>4. Len(rest) = Len(left \o B)
    BY <1>1, <1>3, <2>1, <2>2, <2>3
  <2>5. ASSUME NEW i \in 1..Len(rest) PROVE rest[i] = (left \o B)[i]
    <3>1. rest[i] = whole[c + i] /\ c + i \in 1..(Len(A) + Len(B)) /\ i \in Nat
      BY <1>1, <1>3, <2>2
    <3>2. CASE i <= Len(left)
      <4>1. i \in 1..(Len(A) - c) /\ c + i <= Len(A)
        BY <1>1, <1>3, <2>1, <3>1, <3>2
      <4>2. (left \o B)[i] = left[i]
        BY <2>3, <2>4, <3>2
      <4> QED
        BY <1>1, <2>1, <3>1, <4>1, <4>2
    <3>3. CASE ~(i <= Len(left))
      <4>1. ~(c + i <= Len(A)) /\ (c + i) - Len(A) = i - Len(left)
        BY <1>1, <1>3, <2>1, <3>1, <3>3
      <4>2. (left \o B)[i] = B[i - Len(left)]
        BY <2>3, <2>4, <3>3
      <4>3. whole[c + i] = B[(c + i) - Len(A)]
        BY <1>1, <3>1, <4>1
      <4> QED
        BY <3>1, <4>1, <4>2, <4>3
    <3> QED
      BY <3>2, <3>3
  <2>6. rest = left \o B
    BY <2>2, <2>3, <2>4, <2>5, SeqEqual
  <2> QED
    BY <2>2, <2>3, <2>6 DEF left
<1>8. resumed[Len(rest)] \in Loops(T, Len(rest))
  <2>1. Len(rest) \in 0..Len(rest)
    BY <1>1, <1>5, <1>7
  <2> QED
    BY <1>3, <1>7, <2>1, LoopShape
<1>9. resumed[Len(rest)] = last
  BY <1>7
<1>10. AllAtOnce(A \o B) = loop[c + Len(rest)]
  <2>1. c + Len(rest) = Len(whole)
    BY <1>1, <1>5, <1>7
  <2> QED
    BY <2>1 DEF AllAtOnce
<1>11. /\ AllAtOnce(A \o B).st = last.st
       /\ AllAtOnce(A \o B).consumed = c + last.consumed
  <2>1. Len(rest) \in 0..Len(rest)
    BY <1>1, <1>5, <1>7
  <2> HIDE DEF loop, resumed, last, rest, c, whole
  <2> QED
    BY <1>6, <1>9, <1>10, <2>1
<1>12. last \in Loops(T, Len(bytes))
  <2> HIDE DEF resumed, last, rest, bytes
  <2> QED
    BY <1>7, <1>8, <1>9
<1>13. SubSeq(bytes, last.consumed + 1, Len(bytes))
         = SubSeq(whole, (c + last.consumed) + 1, Len(whole))
  <2> DEFINE q == last.consumed
  <2>1. q \in 0..Len(bytes)
    BY <1>12 DEF Loops
  <2>2. Len(bytes) = Len(whole) - c /\ bytes = rest
    BY <1>7
  <2> HIDE DEF last, bytes, a, c, whole, q
  <2>3. Len(bytes) \in 0..(Len(whole) - c) /\ c + Len(bytes) = Len(whole)
    BY <1>1, <1>5, <2>2
  <2>4. SubSeq(SubSeq(whole, c + 1, Len(whole)), q + 1, Len(bytes))
          = SubSeq(whole, (c + q) + 1, c + Len(bytes))
    BY <1>1, <1>5, <2>1, <2>3, CutOfRest
  <2> QED
    BY <2>2, <2>3, <2>4 DEF q
<1>14. AllAtOnce(A) = a
  BY DEF AllAtOnce
<1> HIDE DEF a, last, bytes, whole
<1> QED
  BY <1>7, <1>11, <1>12, <1>13, <1>14 DEF bytes, last, whole, Continues

(* The parser is where it would be had it met the bytes at once, on the    *)
(* first connection and on every one that follows a clean close.           *)
ChunkInv ==
    /\ connections \in Nat \ {0}
    /\ (CleanClose \/ connections = 1) => ParserInv

LEMMA AllOfNothing == AllAtOnce(<<>>) = [consumed |-> 0, st |-> Fresh]
<1>1. <<>> \in Seq({}) /\ Len(<<>>) = 0
  OBVIOUS
<1>2. Steps(processLines(<<>>, Fresh), <<>>, Fresh)
  BY <1>1, LoopSteps
<1> QED
  BY <1>1, <1>2 DEF Steps, AllAtOnce

LEMMA InitInv == ParserInit => ChunkInv
<1> SUFFICES ASSUME ParserInit PROVE ChunkInv
  OBVIOUS
<1>1. AllAtOnce(<<>>).st = Fresh /\ AllAtOnce(<<>>).consumed = 0
  BY AllOfNothing
<1>2. <<>> \in Seq(Tokens) /\ SubSeq(<<>>, 0 + 1, Len(<<>>)) = <<>>
  BY SubSeqEmpty
<1> QED
  BY <1>1, <1>2 DEF ParserInit, ChunkInv, ParserInv, Fresh, NULL

LEMMA LineTokens ==
    ASSUME NEW line \in Lines
    PROVE  line \in Seq(Tokens)
<1>1. CASE \E name \in Names : line = <<"event:", name>>
  BY <1>1 DEF Tokens
<1>2. CASE \E d \in Data : line = <<"data:", d>>
  BY <1>2 DEF Tokens
<1>3. CASE line = <<":">>
  BY <1>3 DEF Tokens
<1>4. CASE line = <<>>
  BY <1>4
<1> QED
  BY <1>1, <1>2, <1>3, <1>4, Zenon DEF Lines

LEMMA SendsInv ==
    ASSUME ParserInv, NEW line \in Lines, serverSends(line)
    PROVE  ParserInv'
<1>1. line \in Seq(Tokens) /\ <<NL>> \in Seq(Tokens)
  BY LineTokens DEF Tokens
<1>2. wire' \in Seq(Tokens)
  BY <1>1 DEF ParserInv, serverSends
<1>3. received' = received /\ handled' = handled /\ UNCHANGED <<connected, buffer, bufferSize,
         eventName, eventBody>>
  BY DEF serverSends
<1>4. AllAtOnce(received)' = AllAtOnce(received)
  BY <1>3 DEF AllAtOnce, processLines, Advance, LDi_processLine, dispatch, LDi_onEvent, onPut,
              onPatch, onDelete, Accepted, Fresh
<1> QED
  BY <1>2, <1>3, <1>4 DEF ParserInv

LEMMA ProcessInv ==
    ASSUME ParserInv, NEW n \in 1..Len(wire), LDSSEParserProcess(n)
    PROVE  ParserInv'
<1> DEFINE chunk == SubSeq(wire, 1, n)
           c == AllAtOnce(received).consumed
           bytes == SubSeq(received, c + 1, Len(received)) \o chunk
           st == AllAtOnce(received).st
           last == processLines(bytes, st)[Len(bytes)]
<1>1. /\ wire \in Seq(Tokens) /\ received \in Seq(Tokens) /\ connected
      /\ st = [name |-> eventName, body |-> eventBody, handled |-> handled, ok |-> TRUE]
      /\ buffer = SubSeq(received, c + 1, Len(received))
      /\ bufferSize = Len(buffer)
  BY DEF ParserInv, LDSSEParserProcess
<1>2. chunk \in Seq(Tokens) /\ wire' \in Seq(Tokens)
  <2>1. wire' = SubSeq(wire, n + 1, Len(wire)) /\ Len(wire) \in Nat /\ n \in Nat /\ n <= Len(wire)
    BY <1>1 DEF LDSSEParserProcess
  <2>2. 0 \in 0..Len(wire) /\ n \in 0..Len(wire) /\ Len(wire) \in n..Len(wire) /\ 0 + 1 = 1
    BY <2>1
  <2>3. SubSeq(wire, n + 1, Len(wire)) \in Seq(Tokens)
    BY <1>1, <2>2, CutProperties
  <2>4. SubSeq(wire, 0 + 1, n) \in Seq(Tokens)
    BY <1>1, <2>2, CutProperties
  <2> QED
    BY <2>1, <2>2, <2>3, <2>4
<1>3. OldBytes = {buffer}
  BY <1>1 DEF OldBytes
<1>4. /\ received' = received \o chunk
      /\ handled' = last.st.handled
      /\ connected' = last.st.ok
      /\ last.st.ok =>
           /\ buffer' = SubSeq(bytes, last.consumed + 1, Len(bytes))
           /\ bufferSize' = Len(bytes) - last.consumed
           /\ eventName' = last.st.name /\ eventBody' = last.st.body
      /\ ~last.st.ok => buffer' = NULL /\ eventName' = NULL /\ eventBody' = NULL
  <2>1. buffer \o chunk = bytes
    BY <1>1
  <2>2. st = [name |-> eventName, body |-> eventBody, handled |-> handled, ok |-> TRUE]
    BY <1>1
  <2>3. PICK old \in OldBytes :
          LET all == old \o chunk
              loop == processLines(all, [name |-> eventName, body |-> eventBody,
                                         handled |-> handled, ok |-> TRUE])
              end == loop[Len(all)].st
              consumed == loop[Len(all)].consumed
          IN  /\ handled' = end.handled
              /\ received' = received \o chunk
              /\ connected' = end.ok
              /\ IF end.ok
                   THEN /\ buffer' = SubSeq(all, consumed + 1, Len(all))
                        /\ bufferSize' = Len(all) - consumed
                        /\ eventName' = end.name /\ eventBody' = end.body
                   ELSE parserDestroyed(Len(all))
    BY Zenon DEF LDSSEParserProcess
  <2>4. old \o chunk = bytes
    BY <1>3, <2>1
  <2> HIDE DEF bytes, st, chunk
  <2>5. /\ handled' = last.st.handled
        /\ received' = received \o chunk
        /\ connected' = last.st.ok
        /\ IF last.st.ok
             THEN /\ buffer' = SubSeq(bytes, last.consumed + 1, Len(bytes))
                  /\ bufferSize' = Len(bytes) - last.consumed
                  /\ eventName' = last.st.name /\ eventBody' = last.st.body
             ELSE parserDestroyed(Len(bytes))
    BY <2>2, <2>3, <2>4, Zenon
  <2>6. CASE last.st.ok
    BY <2>5, <2>6, Zenon
  <2>7. CASE ~last.st.ok
    BY <2>5, <2>7, Zenon DEF parserDestroyed
  <2> QED
    BY <2>6, <2>7, Zenon
<1>5. st.ok
  BY <1>1
<1>6. /\ bytes \in Seq(Tokens) /\ last \in Loops(Tokens, Len(bytes))
      /\ AllAtOnce(received \o chunk).st = last.st
      /\ SubSeq(bytes, last.consumed + 1, Len(bytes))
           = SubSeq(received \o chunk, AllAtOnce(received \o chunk).consumed + 1,
                    Len(received \o chunk))
  <2> HIDE DEF chunk
  <2>1. Continues(Tokens, received, chunk)
    BY <1>1, <1>2, <1>5, ChunkAfterChunk
  <2> QED
    BY <2>1, Zenon DEF Continues
<1> HIDE DEF chunk, bytes, st, last
<1>7. received \o chunk \in Seq(Tokens)
  BY <1>1, <1>2, ConcatProperties
<1>8. last.consumed \in 0..Len(bytes) /\ last.st \in States(Tokens)
  BY <1>6 DEF Loops
<1>9. AllAtOnce(received)' = AllAtOnce(received \o chunk)
  BY <1>4 DEF AllAtOnce, processLines, Advance, LDi_processLine, dispatch, LDi_onEvent, onPut,
              onPatch, onDelete, Accepted, Fresh
<1>10. CASE last.st.ok
  <2>1. connected'
    BY <1>4, <1>10
  <2>2. last.st = [name |-> last.st.name, body |-> last.st.body, handled |-> last.st.handled,
                   ok |-> TRUE]
    BY <1>8, <1>10 DEF States
  <2>3. AllAtOnce(received)'.st = [name |-> eventName', body |-> eventBody',
                                  handled |-> handled', ok |-> TRUE]
    BY <1>4, <1>6, <1>9, <1>10, <2>2
  <2>4. buffer' = SubSeq(received', AllAtOnce(received)'.consumed + 1, Len(received'))
    BY <1>4, <1>6, <1>9, <1>10
  <2>5. bufferSize' = Len(buffer')
    <3>1. Len(bytes) \in last.consumed..Len(bytes)
      BY <1>6, <1>8
    <3>2. Len(SubSeq(bytes, last.consumed + 1, Len(bytes))) = Len(bytes) - last.consumed
      BY <1>6, <1>8, <3>1, CutProperties
    <3> QED
      BY <1>4, <1>10, <3>2
  <2> QED
    BY <1>2, <1>4, <1>6, <1>7, <1>9, <2>1, <2>3, <2>4, <2>5 DEF ParserInv
<1>11. CASE ~last.st.ok
  <2>1. ~connected'
    BY <1>4, <1>11
  <2> QED
    BY <1>2, <1>4, <1>6, <1>7, <1>9, <1>11, <2>1 DEF ParserInv
<1> QED
  BY <1>10, <1>11

LEMMA NextInv == ChunkInv /\ [ParserNext]_parserVars => ChunkInv'
<1> SUFFICES ASSUME ChunkInv, [ParserNext]_parserVars PROVE ChunkInv'
  OBVIOUS
<1>1. ASSUME UNCHANGED <<connected, connections, buffer, bufferSize, eventName, eventBody,
                         handled, received>>,
             wire' = wire
      PROVE  ChunkInv'
  <2>1. AllAtOnce(received)' = AllAtOnce(received)
    BY <1>1 DEF AllAtOnce, processLines, Advance, LDi_processLine, dispatch, LDi_onEvent, onPut,
                onPatch, onDelete, Accepted, Fresh
  <2> QED
    BY <1>1, <2>1 DEF ChunkInv, ParserInv
<1>2. ASSUME NEW line \in Lines, serverSends(line) PROVE ChunkInv'
  <2>1. connections' = connections
    BY <1>2 DEF serverSends
  <2> QED
    BY <1>2, <2>1, SendsInv DEF ChunkInv
<1>3. ASSUME NEW n \in 1..Len(wire), LDSSEParserProcess(n) PROVE ChunkInv'
  <2>1. connections' = connections
    BY <1>3 DEF LDSSEParserProcess
  <2> QED
    BY <1>3, <2>1, ProcessInv DEF ChunkInv
<1>4. CASE disconnect
  <2>1. AllAtOnce(received)' = AllAtOnce(received)
    BY <1>4 DEF AllAtOnce, processLines, Advance, LDi_processLine, dispatch, LDi_onEvent, onPut,
                onPatch, onDelete, Accepted, Fresh, disconnect
  <2> QED
    BY <1>4, <2>1 DEF ChunkInv, ParserInv, disconnect, parserDestroyed
<1>5. CASE reconnect
  <2>1. connections' \in Nat \ {0, 1}
    BY <1>5 DEF reconnect, ChunkInv
  <2>2. ASSUME CleanClose PROVE ParserInv'
    <3>1. ParserInv /\ bufferSize = 0 /\ ~connected
      BY <1>5, <2>2 DEF reconnect, ChunkInv
    <3>2. buffer = <<>> /\ eventName = <<>> /\ eventBody = <<>>
      BY <3>1 DEF ParserInv, NULL
    <3>3. /\ wire' = <<>> /\ received' = <<>> /\ handled' = <<>> /\ connected'
          /\ buffer' = <<>> /\ bufferSize' = 0 /\ eventName' = <<>> /\ eventBody' = <<>>
      BY <1>5, <3>1, <3>2 DEF reconnect
    <3>4. AllAtOnce(received)' = AllAtOnce(<<>>)
      BY <3>3 DEF AllAtOnce, processLines, Advance, LDi_processLine, dispatch, LDi_onEvent,
                  onPut, onPatch, onDelete, Accepted, Fresh
    <3>5. AllAtOnce(<<>>).st = Fresh /\ AllAtOnce(<<>>).consumed = 0
      BY AllOfNothing
    <3>6. <<>> \in Seq(Tokens) /\ SubSeq(<<>>, 0 + 1, Len(<<>>)) = <<>>
      BY SubSeqEmpty
    <3> QED
      BY <3>3, <3>4, <3>5, <3>6 DEF ParserInv, Fresh, NULL
  <2> QED
    BY <2>1, <2>2 DEF ChunkInv
<1> QED
  BY <1>1, <1>2, <1>3, <1>4, <1>5 DEF ParserNext, parserVars

-----------------------------------------------------------------------------
(* The reference: what the positions of the events are.                    *)

LEMMA LastBeforeIs ==
    ASSUME NEW S \in SUBSET Nat, NEW i \in Nat, NEW m \in {0} \cup S, m < i,
           \A n \in S : n < i => n <= m
    PROVE  LastBefore(S, i) = m
<1> DEFINE Last(j) == j < i /\ \A n \in S : n < i => n <= j
<1>1. Last(m)
  OBVIOUS
<1>2. ASSUME NEW j \in {0} \cup S, Last(j) PROVE j = m
  <2>1. j \in Nat /\ m \in Nat
    OBVIOUS
  <2>2. j <= m
    BY <1>2, <2>1
  <2>3. m <= j
    BY <1>2, <2>1
  <2> QED
    BY <2>1, <2>2, <2>3
<1>3. LastBefore(S, i) = CHOOSE j \in {0} \cup S : Last(j)
  BY DEF LastBefore
<1> HIDE DEF Last
<1> QED
  BY <1>1, <1>2, <1>3

LEMMA LastBeforeProperties ==
    ASSUME NEW S \in SUBSET Nat, NEW i \in Nat, 0 < i
    PROVE  /\ LastBefore(S, i) \in {0} \cup S /\ LastBefore(S, i) \in Nat
           /\ LastBefore(S, i) < i
           /\ \A n \in S : n < i => n <= LastBefore(S, i)
<1> DEFINE U == {m \in Nat : \A n \in S : n < i => n <= m}
<1>1. i - 1 \in U
  OBVIOUS
<1>2. PICK m \in U : \A n \in U : m <= n
  BY <1>1, LeastNumber
<1>3. m \in Nat /\ m <= i - 1 /\ \A n \in S : n < i => n <= m
  BY <1>1, <1>2
<1>4. m < i
  BY <1>3
<1>5. m \in {0} \cup S
  <2> SUFFICES ASSUME m # 0, m \notin S PROVE FALSE
    BY <1>3
  <2>1. m - 1 \in Nat /\ ~(m <= m - 1)
    BY <1>3
  <2>2. \A n \in S : n < i => n <= m - 1
    BY <1>3
  <2> QED
    BY <1>2, <2>1, <2>2
<1>6. LastBefore(S, i) = m
  BY <1>3, <1>4, <1>5, LastBeforeIs
<1> QED
  BY <1>3, <1>4, <1>5, <1>6

(* Numbers above all those of a set follow them in its order.              *)
LEMMA OrderedExtend ==
    ASSUME NEW S \in SUBSET Nat, IsFiniteSet(S), NEW a \in Nat, NEW b \in Nat, a <= b + 1,
           \A n \in S : n < a
    PROVE  LET size == Cardinality(S)
           IN  /\ size \in Nat
               /\ Ordered(S \cup (a..b))
                    = [k \in 1..(size + ((b - a) + 1)) |->
                         IF k <= size THEN Ordered(S)[k] ELSE a + ((k - size) - 1)]
<1> DEFINE size == Cardinality(S)
           U == S \cup (a..b)
           Before(V, j) == {n \in V : n < j}
           First(V) == CHOOSE i \in V : TRUE
           Place(V, k) == {j \in V : Cardinality(Before(V, j)) = k - 1}
<1>1. size \in Nat
  BY FS_CardinalityType
<1>2. ASSUME NEW x \in a..(b + 1)
      PROVE  Cardinality(S \cup (a..(x - 1))) = size + (x - a)
  <2>1. x \in Nat /\ x - 1 \in Int
    OBVIOUS
  <2>2. IsFiniteSet(a..(x - 1)) /\ Cardinality(a..(x - 1)) = x - a
    <3>1. /\ IsFiniteSet(a..(x - 1))
          /\ Cardinality(a..(x - 1)) = IF a > x - 1 THEN 0 ELSE (x - 1) - a + 1
      BY <2>1, FS_Interval
    <3> QED
      BY <2>1, <3>1
  <2>3. S \cap (a..(x - 1)) = {}
    OBVIOUS
  <2>4. Cardinality(S \cup (a..(x - 1)))
          = size + Cardinality(a..(x - 1)) - Cardinality(S \cap (a..(x - 1)))
    BY <2>2, FS_Union
  <2>5. Cardinality(S \cap (a..(x - 1))) = 0
    BY <2>3, FS_EmptySet
  <2> QED
    BY <1>1, <2>1, <2>2, <2>4, <2>5
<1>3. Cardinality(U) = size + ((b - a) + 1)
  <2>1. b + 1 \in a..(b + 1) /\ (b + 1) - 1 = b /\ (b + 1) - a = (b - a) + 1
    OBVIOUS
  <2>2. Cardinality(S \cup (a..((b + 1) - 1))) = size + ((b + 1) - a)
    BY <1>2, <2>1
  <2> QED
    BY <2>1, <2>2
<1>4. ASSUME NEW s \in S PROVE Before(U, s) = Before(S, s)
  OBVIOUS
<1>5. ASSUME NEW s \in S
      PROVE  Cardinality(Before(S, s)) \in Nat /\ Cardinality(Before(S, s)) < size
  <2>1. Before(S, s) \in SUBSET S /\ Before(S, s) # S
    <3>1. s \notin Before(S, s)
      OBVIOUS
    <3> QED
      BY <3>1
  <2>2. /\ IsFiniteSet(Before(S, s)) /\ Cardinality(Before(S, s)) <= size
        /\ Cardinality(Before(S, s)) = size => Before(S, s) = S
    <3> HIDE DEF Before
    <3> QED
      BY <2>1, FS_Subset
  <2>3. Cardinality(Before(S, s)) \in Nat
    BY <2>2, FS_CardinalityType
  <2> QED
    BY <1>1, <2>1, <2>2, <2>3
<1>6. ASSUME NEW x \in a..b
      PROVE  Cardinality(Before(U, x)) = size + (x - a)
  <2>1. Before(U, x) = S \cup (a..(x - 1))
    <3>1. x \in Nat /\ a <= x /\ x <= b
      OBVIOUS
    <3>2. ASSUME NEW n \in Before(U, x) PROVE n \in S \cup (a..(x - 1))
      BY <3>1
    <3>3. ASSUME NEW n \in S PROVE n \in Before(U, x)
      BY <3>1
    <3>4. ASSUME NEW n \in a..(x - 1) PROVE n \in Before(U, x)
      BY <3>1
    <3> HIDE DEF Before
    <3> QED
      BY <3>2, <3>3, <3>4
  <2>2. x \in a..(b + 1)
    OBVIOUS
  <2> HIDE DEF Before
  <2> QED
    BY <1>2, <2>1, <2>2
<1> HIDE DEF Before
<1>7. ASSUME NEW k \in 1..size PROVE Place(U, k) = Place(S, k)
  <2>1. ASSUME NEW j \in Place(U, k) PROVE j \in Place(S, k)
    <3>1. CASE j \in S
      BY <1>4, <3>1
    <3>2. CASE j \in a..b
      <4>1. Cardinality(Before(U, j)) = size + (j - a) /\ j - a >= 0 /\ j - a \in Int
        BY <1>6, <3>2
      <4>2. Cardinality(Before(U, j)) = k - 1
        OBVIOUS
      <4> QED
        BY <1>1, <4>1, <4>2
    <3> QED
      BY <3>1, <3>2
  <2>2. ASSUME NEW j \in Place(S, k) PROVE j \in Place(U, k)
    BY <1>4
  <2> QED
    BY <2>1, <2>2
<1>8. ASSUME NEW k \in (size + 1)..(size + ((b - a) + 1))
      PROVE  Place(U, k) = {a + ((k - size) - 1)}
  <2> DEFINE x == a + ((k - size) - 1)
  <2>1. x \in a..b /\ size + (x - a) = k - 1
    BY <1>1
  <2>2. x \in Place(U, k)
    BY <1>6, <2>1
  <2>3. ASSUME NEW j \in Place(U, k) PROVE j = x
    <3>1. CASE j \in S
      BY <1>1, <1>4, <1>5, <3>1
    <3>2. CASE j \in a..b
      <4>1. Cardinality(Before(U, j)) = size + (j - a) /\ j \in Nat
        BY <1>6, <3>2
      <4>2. Cardinality(Before(U, j)) = k - 1
        OBVIOUS
      <4> QED
        BY <1>1, <4>1, <4>2
    <3> QED
      BY <3>1, <3>2
  <2> HIDE DEF x, Place
  <2>4. Place(U, k) = {x}
    BY <2>2, <2>3
  <2> QED
    BY <2>4 DEF x
<1>9. \A V : Ordered(V) = [k \in 1..Cardinality(V) |-> First(Place(V, k))]
  BY DEF Ordered, Before
<1> HIDE DEF Place, First
<1>10. ASSUME NEW k \in 1..(size + ((b - a) + 1))
       PROVE  First(Place(U, k))
                = IF k <= size THEN Ordered(S)[k] ELSE a + ((k - size) - 1)
  <2>1. CASE k <= size
    <3>1. k \in 1..size
      BY <1>1, <2>1
    <3>2. Ordered(S)[k] = First(Place(S, k))
      <4>1. Ordered(S) = [l \in 1..size |-> First(Place(S, l))]
        BY <1>9
      <4> QED
        BY <3>1, <4>1
    <3>3. Place(U, k) = Place(S, k)
      BY <1>7, <3>1
    <3> QED
      BY <2>1, <3>2, <3>3
  <2>2. CASE ~(k <= size)
    <3>1. k \in (size + 1)..(size + ((b - a) + 1))
      BY <1>1, <2>2
    <3>2. Place(U, k) = {a + ((k - size) - 1)}
      BY <1>8, <3>1
    <3> QED
      BY <2>2, <3>2 DEF First
  <2> QED
    BY <2>1, <2>2
<1>11. Ordered(U) = [k \in 1..(size + ((b - a) + 1)) |-> First(Place(U, k))]
  BY <1>3, <1>9
<1>12. Ordered(U) = [k \in 1..(size + ((b - a) + 1)) |->
                        IF k <= size THEN Ordered(S)[k] ELSE a + ((k - size) - 1)]
  <2> HIDE DEF U
  <2> QED
    BY <1>10, <1>11
<1> QED
  BY <1>1, <1>12

(* A line: what is between two NLs, or before the first.                   *)
LineAt(bytes, c, e) ==
    /\ c \in {0} \cup NewLines(bytes) /\ e \in NewLines(bytes) /\ c < e
    /\ \A k \in (c + 1)..(e - 1) : bytes[k] # NL

LEMMA PositionTypes ==
    ASSUME NEW T, NEW bytes \in Seq(T)
    PROVE  /\ Len(bytes) \in Nat /\ DOMAIN bytes = 1..Len(bytes)
           /\ NewLines(bytes) \in SUBSET (1..Len(bytes))
           /\ NewLines(bytes) \in SUBSET Nat
           /\ Blanks(bytes) \in SUBSET NewLines(bytes) /\ Blanks(bytes) \in SUBSET Nat
           /\ Handled(bytes) \in SUBSET Blanks(bytes)
<1>1. Len(bytes) \in Nat /\ DOMAIN bytes = 1..Len(bytes)
  OBVIOUS
<1>2. NewLines(bytes) \in SUBSET (1..Len(bytes)) /\ NewLines(bytes) \in SUBSET Nat
  BY <1>1 DEF NewLines
<1>3. Blanks(bytes) \in SUBSET NewLines(bytes)
  BY DEF Blanks
<1>4. Handled(bytes) \in SUBSET Blanks(bytes)
  BY DEF Handled
<1> QED
  BY <1>1, <1>2, <1>3, <1>4

LEMMA LineFacts ==
    ASSUME NEW T, NEW bytes \in Seq(T), NEW c, NEW e, LineAt(bytes, c, e)
    PROVE  /\ c \in Nat /\ e \in 1..Len(bytes) /\ e \in Nat /\ c < e
           /\ \A n \in NewLines(bytes) : n <= e => n <= c \/ n = e
           /\ \A i \in (c + 1)..e : LineBreak(bytes, i) = c
           /\ e \in Blanks(bytes) <=> c = e - 1
<1>1. Len(bytes) \in Nat /\ NewLines(bytes) \in SUBSET (1..Len(bytes)) /\ NewLines(bytes) \in SUBSET Nat
  BY PositionTypes
<1>2. c \in Nat /\ e \in 1..Len(bytes) /\ e \in Nat /\ c < e
  BY <1>1 DEF LineAt
<1>3. ASSUME NEW n \in NewLines(bytes), n <= e PROVE n <= c \/ n = e
  <2>1. bytes[n] = NL /\ n \in Nat
    BY <1>1 DEF NewLines
  <2>2. n \notin (c + 1)..(e - 1)
    BY <2>1 DEF LineAt
  <2> QED
    BY <1>2, <1>3, <2>1, <2>2
<1>4. ASSUME NEW i \in (c + 1)..e PROVE LineBreak(bytes, i) = c
  <2>1. i \in Nat /\ c < i /\ i <= e
    BY <1>2
  <2>2. c \in {0} \cup NewLines(bytes)
    BY DEF LineAt
  <2>3. ASSUME NEW n \in NewLines(bytes), n < i PROVE n <= c
    <3>1. n \in Nat
      BY <1>1
    <3>2. n <= e /\ n # e
      BY <1>2, <2>1, <2>3, <3>1
    <3> QED
      BY <1>3, <3>2
  <2>4. LastBefore(NewLines(bytes), i) = c
    BY <1>1, <2>1, <2>2, <2>3, LastBeforeIs
  <2> QED
    BY <2>4 DEF LineBreak
<1>5. e \in Blanks(bytes) <=> c = e - 1
  <2>1. e \in (c + 1)..e /\ e \in NewLines(bytes)
    BY <1>2 DEF LineAt
  <2>2. LineBreak(bytes, e) = c
    BY <1>4, <2>1
  <2> QED
    BY <2>1, <2>2 DEF Blanks
<1> QED
  BY <1>2, <1>3, <1>4, <1>5

(* After a blank line the parser has no name and no body.                  *)
LEMMA AfterBlank ==
    ASSUME NEW T, NEW bytes \in Seq(T), NEW e \in Nat, e = 0 \/ e \in Blanks(bytes)
    PROVE  NameAt(bytes, e + 1) = NULL /\ BodyAt(bytes, e + 1) = NULL
<1>1. Blanks(bytes) \in SUBSET Nat /\ NewLines(bytes) \in SUBSET (1..Len(bytes))
      /\ DOMAIN bytes = 1..Len(bytes) /\ Len(bytes) \in Nat
  BY PositionTypes
<1>2. LastBefore(Blanks(bytes), e + 1) = e
  <2>1. e \in {0} \cup Blanks(bytes) /\ e < e + 1 /\ e + 1 \in Nat
    OBVIOUS
  <2>2. \A n \in Blanks(bytes) : n < e + 1 => n <= e
    BY <1>1
  <2> QED
    BY <1>1, <2>1, <2>2, LastBeforeIs
<1>3. \A i \in Nat : ~InEvent(bytes, i, e + 1)
  BY <1>2 DEF InEvent
<1>4. NameLines(bytes, e + 1) = {}
  BY <1>1, <1>3 DEF NameLines
<1>5. BodyBytes(bytes, e + 1) = {}
  BY <1>1, <1>3 DEF BodyBytes
<1>6. Ordered({}) = <<>>
  <2>1. 1..Cardinality({}) = {}
    BY FS_EmptySet
  <2> DEFINE First(k) == CHOOSE i \in {j \in {} : Cardinality({n \in {} : n < j}) = k - 1} : TRUE
  <2>2. Ordered({}) = [k \in {} |-> First(k)]
    BY <2>1 DEF Ordered
  <2> HIDE DEF First
  <2> QED
    BY <2>2
<1>7. NameAt(bytes, e + 1) = NULL
  BY <1>4 DEF NameAt
<1>8. BodyAt(bytes, e + 1) = NULL
  <2>1. BodyAt(bytes, e + 1) = [k \in DOMAIN Ordered({}) |-> bytes[Ordered({})[k]]]
    BY <1>5 DEF BodyAt
  <2>2. DOMAIN Ordered({}) = {}
    BY <1>6
  <2> QED
    BY <2>1, <2>2 DEF NULL
<1> QED
  BY <1>7, <1>8

(* A line that is not blank adds to the event it is in.                    *)
LEMMA SameEvent ==
    ASSUME NEW T, NEW bytes \in Seq(T), NEW c, NEW e, LineAt(bytes, c, e), c # e - 1,
           NEW i \in 1..Len(bytes)
    PROVE  InEvent(bytes, i, e + 1) <=> InEvent(bytes, i, c + 1) \/ i \in (c + 1)..e
<1>1. /\ Len(bytes) \in Nat
      /\ Blanks(bytes) \in SUBSET NewLines(bytes) /\ Blanks(bytes) \in SUBSET Nat
  BY PositionTypes
<1>2. /\ c \in Nat /\ e \in Nat /\ c < e /\ e \notin Blanks(bytes)
      /\ \A n \in NewLines(bytes) : n <= e => n <= c \/ n = e
  BY LineFacts
<1> DEFINE p == LastBefore(Blanks(bytes), c + 1)
<1>3. /\ p \in {0} \cup Blanks(bytes) /\ p \in Nat /\ p < c + 1
      /\ \A n \in Blanks(bytes) : n < c + 1 => n <= p
  <2>1. c + 1 \in Nat /\ 0 < c + 1
    BY <1>2
  <2> QED
    BY <1>1, <2>1, LastBeforeProperties
<1>4. LastBefore(Blanks(bytes), e + 1) = p
  <2> HIDE DEF p
  <2>1. p < e + 1 /\ e + 1 \in Nat
    BY <1>2, <1>3
  <2>2. ASSUME NEW n \in Blanks(bytes), n < e + 1 PROVE n <= p
    <3>1. n \in Nat /\ n \in NewLines(bytes) /\ n # e
      BY <1>1, <1>2
    <3>2. n <= e
      BY <1>2, <2>2, <3>1
    <3>3. n <= c
      BY <1>2, <3>1, <3>2
    <3>4. n < c + 1
      BY <1>2, <3>1, <3>3
    <3> QED
      BY <1>3, <3>4
  <2> QED
    BY <1>1, <1>3, <2>1, <2>2, LastBeforeIs
<1> HIDE DEF p
<1>5. /\ InEvent(bytes, i, e + 1) <=> p < i /\ i < e + 1
      /\ InEvent(bytes, i, c + 1) <=> p < i /\ i < c + 1
  BY <1>4 DEF InEvent, p
<1> QED
  BY <1>2, <1>3, <1>5

LEMMA NameLinesAfter ==
    ASSUME NEW T, NEW bytes \in Seq(T), NEW c, NEW e, LineAt(bytes, c, e), c # e - 1
    PROVE  NameLines(bytes, e + 1)
             = NameLines(bytes, c + 1) \cup {i \in {e} : bytes[c + 1] = "event:"}
<1>1. /\ Len(bytes) \in Nat /\ NewLines(bytes) \in SUBSET (1..Len(bytes))
      /\ NewLines(bytes) \in SUBSET Nat
  BY PositionTypes
<1>2. /\ c \in Nat /\ e \in Nat /\ c < e /\ e \in 1..Len(bytes) /\ e \in NewLines(bytes)
      /\ \A n \in NewLines(bytes) : n <= e => n <= c \/ n = e
      /\ LineBreak(bytes, e) = c
  <2>1. e \in (c + 1)..e
    BY LineFacts
  <2> QED
    BY <2>1, LineFacts DEF LineAt
<1>3. \A i \in NewLines(bytes) :
         InEvent(bytes, i, e + 1) <=> InEvent(bytes, i, c + 1) \/ i = e
  <2> SUFFICES ASSUME NEW i \in NewLines(bytes)
               PROVE  InEvent(bytes, i, e + 1) <=> InEvent(bytes, i, c + 1) \/ i = e
    OBVIOUS
  <2>1. InEvent(bytes, i, e + 1) <=> InEvent(bytes, i, c + 1) \/ i \in (c + 1)..e
    BY <1>1, SameEvent
  <2>2. i \in (c + 1)..e <=> i = e
    BY <1>1, <1>2
  <2> QED
    BY <2>1, <2>2
<1>4. c < e - 1
  BY <1>2
<1> QED
  BY <1>2, <1>3, <1>4 DEF NameLines

LEMMA NameAfter ==
    ASSUME NEW T, NEW bytes \in Seq(T), NEW c, NEW e, LineAt(bytes, c, e), c # e - 1
    PROVE  NameAt(bytes, e + 1) = IF bytes[c + 1] = "event:"
                                    THEN Tail(SubSeq(bytes, c + 1, e - 1))
                                    ELSE NameAt(bytes, c + 1)
<1> DEFINE old == NameLines(bytes, c + 1)
           new == NameLines(bytes, e + 1)
<1>1. NewLines(bytes) \in SUBSET Nat
  BY PositionTypes
<1>2. /\ c \in Nat /\ e \in Nat /\ c < e /\ LineBreak(bytes, e) = c
  <2>1. e \in (c + 1)..e
    BY LineFacts
  <2> QED
    BY <2>1, LineFacts
<1>3. new = old \cup {i \in {e} : bytes[c + 1] = "event:"}
  BY NameLinesAfter
<1>4. \A i \in old : i \in Nat /\ i < c + 1
  BY <1>1 DEF NameLines, InEvent
<1> HIDE DEF old, new
<1>5. CASE bytes[c + 1] = "event:"
  <2>1. new = old \cup {e}
    BY <1>3, <1>5
  <2>2. new \in SUBSET Nat /\ e \in {0} \cup new /\ e < e + 1 /\ e + 1 \in Nat
    BY <1>2, <1>4, <2>1
  <2>3. \A n \in new : n < e + 1 => n <= e
    BY <1>2, <2>2
  <2>4. LastBefore(new, e + 1) = e
    BY <2>2, <2>3, LastBeforeIs
  <2>5. LineEnding(bytes, e) = SubSeq(bytes, c + 1, e - 1)
    BY <1>2 DEF LineEnding
  <2>6. new # {}
    BY <2>1
  <2> QED
    BY <1>5, <2>4, <2>5, <2>6 DEF NameAt, new
<1>6. CASE bytes[c + 1] # "event:"
  <2>1. new = old
    BY <1>3, <1>6
  <2>2. old \in SUBSET Nat /\ c + 1 \in Nat /\ 0 < c + 1 /\ e + 1 \in Nat
    BY <1>2, <1>4
  <2> DEFINE m == LastBefore(old, c + 1)
  <2>3. /\ m \in {0} \cup old /\ m \in Nat /\ m < c + 1
        /\ \A n \in old : n < c + 1 => n <= m
    BY <2>2, LastBeforeProperties
  <2> HIDE DEF m
  <2>4. m < e + 1 /\ \A n \in old : n < e + 1 => n <= m
    BY <1>2, <1>4, <2>3
  <2>5. LastBefore(old, e + 1) = m
    BY <2>2, <2>3, <2>4, LastBeforeIs
  <2> QED
    BY <1>6, <2>1, <2>5 DEF NameAt, new, old, m
<1> QED
  BY <1>5, <1>6

LEMMA BodyBytesAfter ==
    ASSUME NEW T, NEW bytes \in Seq(T), NEW c, NEW e, LineAt(bytes, c, e), c # e - 1
    PROVE  /\ BodyBytes(bytes, c + 1) \in SUBSET (1..c)
           /\ BodyBytes(bytes, e + 1)
                = IF bytes[c + 1] = "data:"
                    THEN BodyBytes(bytes, c + 1) \cup ((c + 2)..(e - 1))
                    ELSE BodyBytes(bytes, c + 1)
<1> DEFINE old == BodyBytes(bytes, c + 1)
           new == BodyBytes(bytes, e + 1)
           Text(i) == /\ LineBreak(bytes, i) + 1 < i /\ bytes[i] # NL
                      /\ bytes[LineBreak(bytes, i) + 1] = "data:"
<1>1. /\ Len(bytes) \in Nat /\ DOMAIN bytes = 1..Len(bytes)
  BY PositionTypes
<1>2. /\ c \in Nat /\ e \in Nat /\ c < e /\ e \in 1..Len(bytes) /\ bytes[e] = NL
      /\ \A i \in (c + 1)..e : LineBreak(bytes, i) = c
      /\ \A k \in (c + 1)..(e - 1) : bytes[k] # NL
  BY LineFacts DEF LineAt, NewLines
<1>3. \A i \in 1..Len(bytes) :
         InEvent(bytes, i, e + 1) <=> InEvent(bytes, i, c + 1) \/ i \in (c + 1)..e
  BY SameEvent
<1>4. \A i \in (c + 1)..e : Text(i) <=> i \in (c + 2)..(e - 1) /\ bytes[c + 1] = "data:"
  <2> SUFFICES ASSUME NEW i \in (c + 1)..e
               PROVE  Text(i) <=> i \in (c + 2)..(e - 1) /\ bytes[c + 1] = "data:"
    OBVIOUS
  <2>1. LineBreak(bytes, i) = c /\ i \in Nat
    BY <1>2
  <2>2. CASE i = e
    BY <1>2, <2>1, <2>2
  <2>3. CASE i # e
    <3>1. i \in (c + 1)..(e - 1)
      BY <1>2, <2>1, <2>3
    <3>2. bytes[i] # NL
      BY <1>2, <3>1
    <3>3. c + 1 < i <=> i \in (c + 2)..(e - 1)
      BY <1>2, <2>1, <3>1
    <3> QED
      BY <2>1, <3>2, <3>3
  <2> QED
    BY <2>2, <2>3
<1>5. /\ old = {i \in 1..Len(bytes) : InEvent(bytes, i, c + 1) /\ Text(i)}
      /\ new = {i \in 1..Len(bytes) : InEvent(bytes, i, e + 1) /\ Text(i)}
  BY <1>1 DEF BodyBytes
<1>6. \A i \in (c + 1)..e : i \in 1..Len(bytes)
  BY <1>1, <1>2
<1>7. \A i \in (c + 2)..(e - 1) : i \in (c + 1)..e
  BY <1>2
<1> HIDE DEF old, new, Text
<1>8. old \in SUBSET (1..c)
  <2> SUFFICES ASSUME NEW i \in old PROVE i \in 1..c
    OBVIOUS
  <2>1. i \in 1..Len(bytes) /\ InEvent(bytes, i, c + 1)
    BY <1>5
  <2>2. i < c + 1
    BY <2>1 DEF InEvent
  <2> QED
    BY <1>1, <1>2, <2>1, <2>2
<1>9. CASE bytes[c + 1] = "data:"
  <2>1. new = old \cup ((c + 2)..(e - 1))
    <3>1. ASSUME NEW i \in new PROVE i \in old \cup ((c + 2)..(e - 1))
      BY <1>3, <1>4, <1>5, <3>1
    <3>2. ASSUME NEW i \in old PROVE i \in new
      BY <1>3, <1>5, <3>2
    <3>3. ASSUME NEW i \in (c + 2)..(e - 1) PROVE i \in new
      BY <1>3, <1>4, <1>5, <1>6, <1>7, <1>9, <3>3
    <3> QED
      BY <3>1, <3>2, <3>3
  <2> QED
    BY <1>8, <1>9, <2>1 DEF old, new
<1>10. CASE bytes[c + 1] # "data:"
  <2>1. new = old
    BY <1>3, <1>4, <1>5, <1>10
  <2> QED
    BY <1>8, <1>10, <2>1 DEF old, new
<1> QED
  BY <1>9, <1>10

LEMMA SeqAsFunction ==
    ASSUME NEW S, NEW s \in Seq(S), NEW n, Len(s) = n
    PROVE  s = [k \in 1..n |-> s[k]]
<1>1. s \in [1..Len(s) -> S]
  BY LenProperties
<1> QED
  BY <1>1

LEMMA OrderedDomain ==
    ASSUME NEW S, IsFiniteSet(S)
    PROVE  Cardinality(S) \in Nat /\ DOMAIN Ordered(S) = 1..Cardinality(S)
  BY FS_CardinalityType DEF Ordered

LEMMA BodyAfter ==
    ASSUME NEW T, NEW bytes \in Seq(T), NEW c, NEW e, LineAt(bytes, c, e), c # e - 1,
           BodyAt(bytes, c + 1) \in Seq(T)
    PROVE  BodyAt(bytes, e + 1) = IF bytes[c + 1] = "data:"
                                    THEN BodyAt(bytes, c + 1) \o Tail(SubSeq(bytes, c + 1, e - 1))
                                    ELSE BodyAt(bytes, c + 1)
<1> DEFINE old == BodyBytes(bytes, c + 1)
           new == BodyBytes(bytes, e + 1)
           size == Cardinality(old)
           body == BodyAt(bytes, c + 1)
           line == SubSeq(bytes, c + 1, e - 1)
<1>1. Len(bytes) \in Nat /\ c \in Nat /\ e \in Nat /\ c < e - 1 /\ e \in 1..Len(bytes)
  <2>1. Len(bytes) \in Nat
    BY PositionTypes
  <2>2. c \in Nat /\ e \in Nat /\ c < e /\ e \in 1..Len(bytes)
    BY LineFacts
  <2> QED
    BY <2>1, <2>2
<1>2. old \in SUBSET (1..c)
  BY BodyBytesAfter
<1>3. IsFiniteSet(old)
  <2>1. IsFiniteSet(1..c)
    BY <1>1, FS_Interval
  <2> QED
    BY <1>2, <2>1, FS_Subset
<1>4. size \in Nat /\ DOMAIN Ordered(old) = 1..size
  BY <1>3, OrderedDomain
<1>5. body = [k \in 1..size |-> bytes[Ordered(old)[k]]]
  BY <1>4 DEF BodyAt
<1>6. CASE bytes[c + 1] # "data:"
  <2>1. new = old
    BY <1>6, BodyBytesAfter
  <2> QED
    BY <1>6, <2>1 DEF BodyAt
<1>7. CASE bytes[c + 1] = "data:"
  <2> DEFINE grown == size + (((e - 1) - (c + 2)) + 1)
             places == [k \in 1..grown |->
                          IF k <= size THEN Ordered(old)[k] ELSE (c + 2) + ((k - size) - 1)]
  <2>1. new = old \cup ((c + 2)..(e - 1))
    BY <1>7, BodyBytesAfter
  <2>2. Ordered(new) = places
    <3>1. /\ c + 2 \in Nat /\ e - 1 \in Nat /\ c + 2 <= (e - 1) + 1 /\ old \in SUBSET Nat
          /\ \A n \in old : n < c + 2
      BY <1>1, <1>2
    <3> HIDE DEF old
    <3>2. Ordered(old \cup ((c + 2)..(e - 1))) = places
      BY <1>3, <3>1, OrderedExtend
    <3> QED
      BY <2>1, <3>2
  <2>3. grown \in Nat /\ grown = size + (((e - 1) - c) - 1)
    BY <1>1, <1>4
  <2>4. BodyAt(bytes, e + 1) = [k \in 1..grown |-> bytes[places[k]]]
    <3>1. BodyAt(bytes, e + 1) = [k \in DOMAIN Ordered(new) |-> bytes[Ordered(new)[k]]]
      BY DEF BodyAt
    <3>2. DOMAIN places = 1..grown
      OBVIOUS
    <3> HIDE DEF places, new, grown
    <3> QED
      BY <2>2, <3>1, <3>2
  <2>5. /\ line \in Seq(T) /\ Len(line) = (e - 1) - c
        /\ \A k \in 1..((e - 1) - c) : line[k] = bytes[c + k]
    <3>1. c \in 0..Len(bytes) /\ e - 1 \in c..Len(bytes)
      BY <1>1
    <3> QED
      BY <3>1, CutProperties
  <2> HIDE DEF line
  <2>6. /\ Tail(line) \in Seq(T) /\ Len(Tail(line)) = ((e - 1) - c) - 1
        /\ \A k \in 1..(((e - 1) - c) - 1) : Tail(line)[k] = bytes[c + (k + 1)]
    <3>1. line # <<>>
      BY <1>1, <2>5
    <3>2. /\ Tail(line) \in Seq(T) /\ Len(Tail(line)) = Len(line) - 1
          /\ \A k \in 1..Len(Tail(line)) : Tail(line)[k] = line[k + 1]
      BY <2>5, <3>1, HeadTailProperties
    <3> QED
      BY <1>1, <2>5, <3>2
  <2> DEFINE tail == Tail(line)
  <2> HIDE DEF tail
  <2>7. body \in Seq(T) /\ Len(body) = size
    <3>1. body \in Seq(T)
      OBVIOUS
    <3> HIDE DEF body
    <3> QED
      BY <1>4, <1>5, <3>1
  <2>8. /\ body \o tail \in Seq(T) /\ Len(body \o tail) = grown
        /\ \A k \in 1..grown : (body \o tail)[k] = IF k <= size THEN body[k] ELSE tail[k - size]
    <3>1. tail \in Seq(T) /\ Len(tail) = ((e - 1) - c) - 1
      BY <2>6 DEF tail
    <3> HIDE DEF body, grown
    <3>2. /\ body \o tail \in Seq(T) /\ Len(body \o tail) = Len(body) + Len(tail)
          /\ \A k \in 1..(Len(body) + Len(tail)) :
               (body \o tail)[k] = IF k <= Len(body) THEN body[k] ELSE tail[k - Len(body)]
      BY <2>7, <3>1, ConcatProperties
    <3>3. Len(body) + Len(tail) = grown
      BY <2>3, <2>7, <3>1
    <3> QED
      BY <2>7, <3>2, <3>3
  <2>9. ASSUME NEW k \in 1..grown PROVE bytes[places[k]] = (body \o tail)[k]
    <3>1. CASE k <= size
      <4>1. k \in 1..size
        BY <1>4, <2>3, <3>1
      <4>2. places[k] = Ordered(old)[k]
        BY <3>1
      <4>3. body[k] = bytes[Ordered(old)[k]]
        <5> HIDE DEF body, old
        <5> QED
          BY <1>5, <4>1
      <4>4. (body \o tail)[k] = body[k]
        BY <2>8, <3>1
      <4> QED
        BY <4>2, <4>3, <4>4
    <3>2. CASE ~(k <= size)
      <4>1. k - size \in 1..(((e - 1) - c) - 1) /\ (c + 2) + ((k - size) - 1) = c + ((k - size) + 1)
        BY <1>1, <1>4, <2>3, <3>2
      <4>2. places[k] = c + ((k - size) + 1)
        BY <3>2, <4>1
      <4>3. tail[k - size] = bytes[c + ((k - size) + 1)]
        BY <2>6, <4>1 DEF tail
      <4>4. (body \o tail)[k] = tail[k - size]
        BY <2>8, <3>2
      <4> QED
        BY <4>2, <4>3, <4>4
    <3> QED
      BY <3>1, <3>2
  <2>10. BodyAt(bytes, e + 1) = body \o tail
    <3> HIDE DEF body, places, grown
    <3>1. body \o tail = [k \in 1..grown |-> (body \o tail)[k]]
      BY <2>8, SeqAsFunction
    <3> QED
      BY <2>4, <2>9, <3>1
  <2> QED
    BY <1>7, <2>10 DEF tail, line
<1> QED
  BY <1>6, <1>7

LEMMA EventsAfter ==
    ASSUME NEW U, NEW bytes, NEW S \in SUBSET Nat, IsFiniteSet(S), NEW b \in Nat,
           \A n \in S : n < b, EventsAt(bytes, S) \in Seq(U)
    PROVE  EventsAt(bytes, S \cup {b})
             = Append(EventsAt(bytes, S), EventAt(bytes, b))
<1> DEFINE size == Cardinality(S)
           Event(p) == EventAt(bytes, p)
           old == EventsAt(bytes, S)
           places == [k \in 1..(size + ((b - b) + 1)) |->
                        IF k <= size THEN Ordered(S)[k] ELSE b + ((k - size) - 1)]
<1>1. size \in Nat /\ DOMAIN Ordered(S) = 1..size
  BY OrderedDomain
<1>2. \A V : EventsAt(bytes, V) = [k \in DOMAIN Ordered(V) |-> Event(Ordered(V)[k])]
  BY DEF EventsAt
<1>3. Ordered(S \cup {b}) = places
  <2>1. b..b = {b} /\ b <= b + 1
    OBVIOUS
  <2>2. Ordered(S \cup (b..b)) = places
    BY <2>1, OrderedExtend
  <2> QED
    BY <2>1, <2>2
<1> HIDE DEF Event
<1>4. DOMAIN places = 1..(size + 1)
  BY <1>1
<1>5. old = [k \in 1..size |-> Event(Ordered(S)[k])]
  BY <1>1, <1>2
<1>6. EventsAt(bytes, S \cup {b}) = [k \in 1..(size + 1) |-> Event(places[k])]
  <2> HIDE DEF places
  <2> QED
    BY <1>2, <1>3, <1>4
<1>7. old \in Seq(U)
  OBVIOUS
<1> HIDE DEF old
<1>8. Len(old) = size
  BY <1>1, <1>5, <1>7
<1>9. Append(old, Event(b)) = [k \in 1..(size + 1) |-> IF k = size + 1 THEN Event(b) ELSE old[k]]
  <2> DEFINE W == U \cup {Event(b)}
             more == Append(old, Event(b))
  <2>1. old \in Seq(W)
    BY <1>7, SeqMonotonic
  <2>2. /\ more \in Seq(W) /\ Len(more) = size + 1
        /\ \A i \in 1..size : more[i] = old[i] /\ more[size + 1] = Event(b)
        /\ more[size + 1] = Event(b)
    BY <1>8, <2>1, AppendProperties
  <2>3. more = [k \in 1..(size + 1) |-> more[k]]
    BY <2>2, SeqAsFunction
  <2>4. ASSUME NEW k \in 1..(size + 1)
        PROVE  more[k] = IF k = size + 1 THEN Event(b) ELSE old[k]
    <3>1. k = size + 1 \/ k \in 1..size
      BY <1>1
    <3> QED
      BY <2>2, <3>1
  <2> HIDE DEF more
  <2>5. more = [k \in 1..(size + 1) |-> IF k = size + 1 THEN Event(b) ELSE old[k]]
    BY <2>3, <2>4
  <2> QED
    BY <2>5 DEF more
<1>10. ASSUME NEW k \in 1..(size + 1)
       PROVE  Event(places[k]) = IF k = size + 1 THEN Event(b) ELSE old[k]
  <2>1. CASE k = size + 1
    <3>1. ~(k <= size) /\ b + ((k - size) - 1) = b /\ k \in 1..(size + ((b - b) + 1))
      BY <1>1, <2>1
    <3>2. places[k] = b
      BY <3>1
    <3> QED
      BY <2>1, <3>2
  <2>2. CASE k # size + 1
    <3>1. k <= size /\ k \in 1..size /\ k \in 1..(size + ((b - b) + 1))
      BY <1>1, <2>2
    <3>2. places[k] = Ordered(S)[k]
      BY <3>1
    <3> QED
      BY <1>5, <2>2, <3>1, <3>2
  <2> QED
    BY <2>1, <2>2
<1>11. EventsAt(bytes, S \cup {b}) = Append(old, Event(b))
  <2> HIDE DEF places
  <2> QED
    BY <1>6, <1>9, <1>10
<1> QED
  BY <1>11 DEF old, Event

(* The parser after the first i bytes, read off their positions.           *)
UpTo(S, i) == {b \in S : b <= i}

Batch(bytes, at, i) ==
    /\ at.st.ok =>
         /\ at.consumed \in {0} \cup NewLines(bytes)
         /\ at.st.name = NameAt(bytes, at.consumed + 1)
         /\ at.st.body = BodyAt(bytes, at.consumed + 1)
         /\ at.st.handled = EventsAt(bytes, UpTo(Handled(bytes), i))
         /\ \A b \in Blanks(bytes) : b <= i => ~RefusedAt(bytes, b)
    /\ ~at.st.ok => at.st.handled = EventsOf(bytes)

LEMMA BatchNoLine ==
    ASSUME NEW T, NEW bytes \in Seq(T), NEW i \in Nat, NEW at, Batch(bytes, at, i),
           i + 1 \notin Blanks(bytes)
    PROVE  /\ UpTo(Handled(bytes), i + 1) = UpTo(Handled(bytes), i)
           /\ at.st.ok => \A b \in Blanks(bytes) : b <= i + 1 => ~RefusedAt(bytes, b)
<1>1. Blanks(bytes) \in SUBSET Nat /\ Handled(bytes) \in SUBSET Blanks(bytes)
  BY PositionTypes
<1>2. \A b \in Blanks(bytes) : b <= i + 1 <=> b <= i
  BY <1>1
<1>3. UpTo(Handled(bytes), i + 1) = UpTo(Handled(bytes), i)
  BY <1>1, <1>2 DEF UpTo
<1> QED
  BY <1>2, <1>3 DEF Batch

LEMMA BatchBlank ==
    ASSUME NEW T, NEW bytes \in Seq(T), NEW i \in Nat, NEW at \in Loops(T, i),
           at.st.ok, at.consumed = i, i + 1 \in Blanks(bytes), Batch(bytes, at, i)
    PROVE  Batch(bytes, [consumed |-> i + 1, st |-> dispatch(at.st)], i + 1)
<1> DEFINE e == i + 1
           before == UpTo(Handled(bytes), i)
           next == [consumed |-> e, st |-> dispatch(at.st)]
           event == EventAt(bytes, e)
           accept == CompleteAt(bytes, e) => LDi_onEvent(NameAt(bytes, e)[1], BodyAt(bytes, e))
           more == IF CompleteAt(bytes, e) /\ accept THEN Append(at.st.handled, event)
                   ELSE at.st.handled
<1>1. /\ Blanks(bytes) \in SUBSET Nat /\ Handled(bytes) \in SUBSET Blanks(bytes)
      /\ Blanks(bytes) \in SUBSET NewLines(bytes) /\ NewLines(bytes) \in SUBSET (1..Len(bytes))
      /\ Len(bytes) \in Nat
  BY PositionTypes
<1>2. /\ at.st.name = NameAt(bytes, e) /\ at.st.body = BodyAt(bytes, e)
      /\ at.st.handled = EventsAt(bytes, before)
      /\ \A b \in Blanks(bytes) : b <= i => ~RefusedAt(bytes, b)
  BY DEF Batch
<1>3. /\ next.consumed = e
      /\ next.st.name = NULL /\ next.st.body = NULL
      /\ next.st.ok <=> ~RefusedAt(bytes, e)
      /\ next.st.handled = IF CompleteAt(bytes, e) /\ ~RefusedAt(bytes, e)
                             THEN Append(at.st.handled, event) ELSE at.st.handled
  <2>1. dispatch(at.st) = [name |-> NULL, body |-> NULL, ok |-> accept, handled |-> more]
    BY <1>2, Zenon DEF dispatch, CompleteAt, EventAt
  <2>2. accept \in BOOLEAN /\ (RefusedAt(bytes, e) <=> ~accept)
    BY DEF RefusedAt
  <2>3. more = IF CompleteAt(bytes, e) /\ ~RefusedAt(bytes, e)
                 THEN Append(at.st.handled, event) ELSE at.st.handled
    BY <2>2
  <2> HIDE DEF event, e, accept, more
  <2> QED
    BY <2>1, <2>2, <2>3
<1>4. NameAt(bytes, e + 1) = NULL /\ BodyAt(bytes, e + 1) = NULL
  BY AfterBlank
<1>5. e \in NewLines(bytes) /\ e \in Nat
  BY <1>1
<1>6. before \in SUBSET Nat /\ IsFiniteSet(before) /\ \A n \in before : n < e
  <2>1. before \in SUBSET (1..Len(bytes)) /\ IsFiniteSet(1..Len(bytes))
    BY <1>1, FS_Interval DEF UpTo
  <2>2. IsFiniteSet(before)
    <3> HIDE DEF before
    <3> QED
      BY <2>1, FS_Subset
  <2>3. \A n \in before : n \in Nat /\ n <= i
    BY <1>1 DEF UpTo
  <2> QED
    BY <2>2, <2>3
<1>7. CASE RefusedAt(bytes, e)
  <2>1. Handled(bytes) = before
    <3> SUFFICES ASSUME NEW b \in Handled(bytes) PROVE b <= i
      BY DEF UpTo
    <3>1. b \in Nat /\ ~(e <= b)
      BY <1>1, <1>7 DEF Handled
    <3> QED
      BY <3>1
  <2>2. ~next.st.ok
    BY <1>3, <1>7
  <2>3. next.st.handled = EventsOf(bytes)
    BY <1>2, <1>3, <1>7, <2>1 DEF EventsOf
  <2> HIDE DEF next
  <2>4. Batch(bytes, next, e)
    BY <2>2, <2>3 DEF Batch
  <2> QED
    BY <2>4 DEF next
<1>8. CASE ~RefusedAt(bytes, e)
  <2>1. \A b \in Blanks(bytes) : b <= e => ~RefusedAt(bytes, b)
    <3> SUFFICES ASSUME NEW b \in Blanks(bytes), b <= e PROVE ~RefusedAt(bytes, b)
      OBVIOUS
    <3>1. b <= i \/ b = e
      BY <1>1
    <3> QED
      BY <1>2, <1>8, <3>1
  <2>2. e \in Handled(bytes) <=> CompleteAt(bytes, e)
    BY <2>1 DEF Handled
  <2>3. UpTo(Handled(bytes), e) = IF CompleteAt(bytes, e) THEN before \cup {e} ELSE before
    <3>1. \A b \in Handled(bytes) : b <= e <=> b <= i \/ b = e
      BY <1>1
    <3> QED
      BY <1>5, <2>2, <3>1 DEF UpTo
  <2>4. next.st.handled = EventsAt(bytes, UpTo(Handled(bytes), e))
    <3>1. CASE CompleteAt(bytes, e)
      <4>1. at.st.handled \in Seq(T \X Seq(T))
        BY DEF Loops, States
      <4>2. EventsAt(bytes, before) \in Seq(T \X Seq(T))
        BY <1>2, <4>1
      <4> DEFINE U == T \X Seq(T)
      <4> HIDE DEF before, next, e, U
      <4>3. EventsAt(bytes, before \cup {e}) = Append(EventsAt(bytes, before), event)
        <5>1. EventsAt(bytes, before) \in Seq(U)
          BY <4>2 DEF U
        <5> QED
          BY <1>5, <1>6, <5>1, EventsAfter
      <4> QED
        BY <1>2, <1>3, <1>8, <2>3, <3>1, <4>3
    <3>2. CASE ~CompleteAt(bytes, e)
      BY <1>2, <1>3, <2>3, <3>2
    <3> QED
      BY <3>1, <3>2
  <2> HIDE DEF next, e
  <2>5. Batch(bytes, next, e)
    BY <1>3, <1>4, <1>5, <1>8, <2>1, <2>4 DEF Batch
  <2> QED
    BY <2>5 DEF next, e
<1> QED
  BY <1>7, <1>8

LEMMA BatchStep ==
    ASSUME NEW T, NEW bytes \in Seq(T), NEW i \in Nat, i + 1 \in 1..Len(bytes),
           NEW at \in Loops(T, i), Batch(bytes, at, i),
           at.st.ok => \A k \in (at.consumed + 1)..i : bytes[k] # NL
    PROVE  Batch(bytes, Advance(bytes, at, i + 1), i + 1)
<1> DEFINE e == i + 1
           c == at.consumed
<1>1. c \in Nat /\ c <= i /\ at.st \in States(T) /\ (i + 1) - 1 = i
  BY DEF Loops
<1>2. NewLines(bytes) \in SUBSET (1..Len(bytes)) /\ Blanks(bytes) \in SUBSET NewLines(bytes)
      /\ DOMAIN bytes = 1..Len(bytes)
  BY PositionTypes
<1>3. CASE ~at.st.ok
  <2>1. Advance(bytes, at, e) = at
    BY <1>3 DEF Advance
  <2> QED
    BY <1>3, <2>1 DEF Batch
<1>4. CASE at.st.ok /\ bytes[e] # NL
  <2>1. Advance(bytes, at, e) = at
    BY <1>4 DEF Advance
  <2>2. e \notin Blanks(bytes)
    BY <1>2, <1>4 DEF NewLines
  <2> QED
    BY <1>4, <2>1, <2>2, BatchNoLine DEF Batch
<1>5. CASE at.st.ok /\ bytes[e] = NL
  <2> DEFINE line == SubSeq(bytes, c + 1, i)
             next == [consumed |-> e, st |-> LDi_processLine(at.st, line)]
  <2>1. Advance(bytes, at, e) = next
    BY <1>1, <1>5 DEF Advance
  <2>2. e \in NewLines(bytes)
    BY <1>2, <1>5 DEF NewLines
  <2>3. LineAt(bytes, c, e)
    <3>1. c \in {0} \cup NewLines(bytes)
      BY <1>5 DEF Batch
    <3>2. c < e
      BY <1>1
    <3> QED
      BY <1>1, <1>5, <2>2, <3>1, <3>2 DEF LineAt
  <2>4. e \in Blanks(bytes) <=> c = i
    <3> HIDE DEF c, e
    <3>1. e \in Blanks(bytes) <=> c = e - 1
      BY <2>3, LineFacts
    <3> QED
      BY <1>1, <3>1 DEF e
  <2>5. line \in Seq(T) /\ Len(line) = i - c /\ \A k \in 1..(i - c) : line[k] = bytes[c + k]
    <3>1. c \in 0..Len(bytes) /\ i \in c..Len(bytes)
      BY <1>1, PositionTypes
    <3> QED
      BY <3>1, CutProperties
  <2>6. CASE c = i
    <3>1. line = <<>>
      BY <1>1, <2>6, SubSeqEmpty
    <3>2. next = [consumed |-> i + 1, st |-> dispatch(at.st)]
      BY <3>1 DEF LDi_processLine
    <3>3. Batch(bytes, [consumed |-> i + 1, st |-> dispatch(at.st)], i + 1)
      BY <1>5, <2>4, <2>6, BatchBlank
    <3> QED
      BY <2>1, <3>2, <3>3
  <2>7. CASE c # i
    <3>0. c # e - 1
      BY <1>1, <2>7
    <3>1. line # <<>> /\ line[1] = bytes[c + 1]
      BY <1>1, <2>5, <2>7
    <3>2. /\ at.st.name = NameAt(bytes, c + 1) /\ at.st.body = BodyAt(bytes, c + 1)
          /\ at.st.handled = EventsAt(bytes, UpTo(Handled(bytes), i))
      BY <1>5 DEF Batch
    <3>3. at.st.body \in Seq(T)
      BY <1>1 DEF States
    <3>4. NameAt(bytes, e + 1) = IF bytes[c + 1] = "event:" THEN Tail(line) ELSE at.st.name
      <4> HIDE DEF c, e
      <4>1. NameAt(bytes, e + 1) = IF bytes[c + 1] = "event:"
                                     THEN Tail(SubSeq(bytes, c + 1, e - 1))
                                     ELSE NameAt(bytes, c + 1)
        BY <2>3, <3>0, NameAfter
      <4> QED
        BY <1>1, <3>2, <4>1 DEF e
    <3>5. BodyAt(bytes, e + 1) = IF bytes[c + 1] = "data:" THEN at.st.body \o Tail(line)
                                 ELSE at.st.body
      <4> HIDE DEF c, e
      <4>1. BodyAt(bytes, e + 1) = IF bytes[c + 1] = "data:"
                                     THEN BodyAt(bytes, c + 1) \o Tail(SubSeq(bytes, c + 1, e - 1))
                                     ELSE BodyAt(bytes, c + 1)
        BY <2>3, <3>0, <3>2, <3>3, BodyAfter
      <4> QED
        BY <1>1, <3>2, <4>1 DEF e
    <3>6. /\ LDi_processLine(at.st, line).name
               = IF bytes[c + 1] = "event:" THEN Tail(line) ELSE at.st.name
          /\ LDi_processLine(at.st, line).body
               = IF bytes[c + 1] = "data:" THEN at.st.body \o Tail(line) ELSE at.st.body
          /\ LDi_processLine(at.st, line).handled = at.st.handled
          /\ LDi_processLine(at.st, line).ok
      <4> HIDE DEF line, c
      <4> QED
        BY <1>1, <1>5, <3>1 DEF LDi_processLine, States
    <3>7. /\ UpTo(Handled(bytes), e) = UpTo(Handled(bytes), i)
          /\ \A b \in Blanks(bytes) : b <= e => ~RefusedAt(bytes, b)
      <4>1. i + 1 \notin Blanks(bytes)
        BY <2>4, <2>7
      <4> QED
        BY <1>5, <4>1, BatchNoLine
    <3>8. /\ next.consumed = e
          /\ next.st = LDi_processLine(at.st, line)
      OBVIOUS
    <3> HIDE DEF next, e, c, line
    <3>9. Batch(bytes, next, e)
      BY <2>2, <3>2, <3>4, <3>5, <3>6, <3>7, <3>8 DEF Batch
    <3> QED
      BY <2>1, <3>9 DEF e
  <2> QED
    BY <2>6, <2>7
<1> QED
  BY <1>3, <1>4, <1>5

(* Bytes met at once: the handlers are given the events of the stream.     *)
LEMMA AllAtOnceEvents ==
    ASSUME NEW T, NEW bytes \in Seq(T)
    PROVE  AllAtOnce(bytes).st.handled = EventsOf(bytes)
<1> DEFINE loop == processLines(bytes, Fresh)
           S == {i \in Nat : i \in 0..Len(bytes) => Batch(bytes, loop[i], i)}
<1>0. Fresh \in States(T) /\ Len(bytes) \in Nat
  BY FreshType
<1>1. Steps(loop, bytes, Fresh)
  BY LoopSteps
<1>2. \A i \in 0..Len(bytes) :
         /\ loop[i] \in Loops(T, i)
         /\ loop[i].st.ok => \A k \in (loop[i].consumed + 1)..i : bytes[k] # NL
  BY <1>0, LoopShape
<1> HIDE DEF loop
<1>3. /\ Blanks(bytes) \in SUBSET Nat /\ Handled(bytes) \in SUBSET Blanks(bytes)
      /\ Blanks(bytes) \in SUBSET NewLines(bytes) /\ NewLines(bytes) \in SUBSET (1..Len(bytes))
  BY PositionTypes
<1>4. 0 \in S
  <2>1. loop[0] = [consumed |-> 0, st |-> Fresh]
    BY <1>1 DEF Steps
  <2>2. /\ loop[0].consumed = 0 /\ loop[0].st.ok /\ loop[0].st.name = NULL
        /\ loop[0].st.body = NULL /\ loop[0].st.handled = <<>>
    BY <2>1 DEF Fresh
  <2>3. NameAt(bytes, 0 + 1) = NULL /\ BodyAt(bytes, 0 + 1) = NULL
    BY AfterBlank
  <2>4. UpTo(Handled(bytes), 0) = {} /\ \A b \in Blanks(bytes) : ~(b <= 0)
    BY <1>0, <1>3 DEF UpTo
  <2>5. EventsAt(bytes, {}) = <<>>
    <3>1. DOMAIN Ordered({}) = {}
      BY FS_EmptySet, OrderedDomain
    <3> DEFINE Event(k) == EventAt(bytes, Ordered({})[k])
    <3>2. EventsAt(bytes, {}) = [k \in {} |-> Event(k)]
      BY <3>1 DEF EventsAt
    <3> HIDE DEF Event
    <3> QED
      BY <3>2
  <2>6. Batch(bytes, loop[0], 0)
    BY <2>2, <2>3, <2>4, <2>5 DEF Batch
  <2> QED
    BY <2>6
<1>5. ASSUME NEW i \in Nat, i \in S PROVE i + 1 \in S
  <2> SUFFICES ASSUME i + 1 \in 0..Len(bytes) PROVE Batch(bytes, loop[i + 1], i + 1)
    OBVIOUS
  <2>1. i \in 0..Len(bytes) /\ i + 1 \in 1..Len(bytes) /\ (i + 1) - 1 = i
    BY <1>0
  <2>2. loop[i + 1] = Advance(bytes, loop[i], i + 1)
    BY <1>1, <2>1 DEF Steps
  <2>3. Batch(bytes, loop[i], i)
    BY <1>5, <2>1
  <2>4. Batch(bytes, Advance(bytes, loop[i], i + 1), i + 1)
    BY <1>2, <2>1, <2>3, BatchStep
  <2> QED
    BY <2>2, <2>4
<1>6. \A i \in Nat : i \in S
  <2> HIDE DEF S
  <2> QED
    BY <1>4, <1>5, NumberInduction
<1>7. Batch(bytes, loop[Len(bytes)], Len(bytes))
  <2>1. Len(bytes) \in S /\ Len(bytes) \in 0..Len(bytes)
    BY <1>0, <1>6
  <2> QED
    BY <2>1
<1>8. UpTo(Handled(bytes), Len(bytes)) = Handled(bytes)
  BY <1>0, <1>3 DEF UpTo
<1>9. loop[Len(bytes)].st.handled = EventsOf(bytes)
  BY <1>7, <1>8 DEF Batch, EventsOf
<1> QED
  BY <1>9 DEF AllAtOnce, loop

(* Wherever curl cuts the stream, and whichever line fails, the handlers   *)
(* are given exactly the events of the bytes received (LDSSEParserProcess, *)
(* LDi_processLine, LDi_onEvent): on the first connection, and on every    *)
(* later one when the parser is left with nothing in it at a close.        *)
THEOREM ChunkingIrrelevantWhenClean ==
    ParserSpec => []((CleanClose \/ connections = 1) => ChunkingIrrelevant)
<1>1. ChunkInv => ((CleanClose \/ connections = 1) => ChunkingIrrelevant)
  <2> SUFFICES ASSUME ParserInv PROVE ChunkingIrrelevant
    BY DEF ChunkInv
  <2>1. received \in Seq(Tokens) /\ handled = AllAtOnce(received).st.handled
    BY DEF ParserInv
  <2> QED
    BY <2>1, AllAtOnceEvents DEF ChunkingIrrelevant
<1> QED
  BY <1>1, InitInv, NextInv, PTL DEF ParserSpec

THEOREM ChunkingIsIrrelevant ==
    ASSUME CleanClose
    PROVE  ParserSpec => []ChunkingIrrelevant
  BY ChunkingIrrelevantWhenClean, PTL

=============================================================================
