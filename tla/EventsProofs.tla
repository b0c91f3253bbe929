---------------------------- MODULE EventsProofs ----------------------------
(***************************************************************************)
(* The way of an analytics event, for any number of threads, users, flags  *)
(* and events.  In the event processor the evaluations of a call that      *)
(* succeeds are counted once, summaries do not overlap, and the LRU holds  *)
(* exactly the users seen last.  On its way to the service every event is in one place, has  *)
(* one identifier, and a retry waits.                                      *)
(***************************************************************************)
EXTENDS EventProcessor, Analytics, TLAPS, FiniteSetTheorems, SequenceTheorems

-----------------------------------------------------------------------------
(* Counting.                                                               *)

LEMMA OccurrencesType ==
    ASSUME NEW flags \in Seq(Flags), NEW f
    PROVE  /\ Occurrences(flags, f) \in Nat
           /\ f \notin Range(flags) => Occurrences(flags, f) = 0
<1> DEFINE S == {i \in DOMAIN flags : flags[i] = f}
<1>1. Len(flags) \in Nat /\ DOMAIN flags = 1..Len(flags)
  OBVIOUS
<1>2. 1 \in Int /\ Len(flags) \in Int
  BY <1>1
<1>3. IsFiniteSet(1..Len(flags))
  BY <1>2, FS_Interval, Zenon
<1>4. S \in SUBSET (1..Len(flags))
  BY <1>1
<1>5. IsFiniteSet(S)
  BY <1>3, <1>4, FS_Subset
<1>6. Cardinality(S) \in Nat
  BY <1>5, FS_CardinalityType
<1>7. ASSUME f \notin Range(flags) PROVE S = {}
  BY <1>7 DEF Range
<1> QED
  BY <1>6, <1>7, FS_EmptySet DEF Occurrences

(* A longer sequence has no fewer occurrences.                             *)
LEMMA OccurrencesGrow ==
    ASSUME NEW a \in Flags, NEW b \in Flags, NEW f
    PROVE  Occurrences(<<a>>, f) <= Occurrences(<<a, b>>, f)
<1> DEFINE S == {i \in DOMAIN <<a>> : <<a>>[i] = f}
           T == {i \in DOMAIN <<a, b>> : <<a, b>>[i] = f}
<1>1. S \subseteq T /\ T \subseteq {1, 2}
  OBVIOUS
<1>2. IsFiniteSet({1, 2})
  <2>0. 1 \in Int /\ 2 \in Int
    OBVIOUS
  <2>1. IsFiniteSet(1..2)
    BY <2>0, FS_Interval, Zenon
  <2> QED
    BY <2>1, 1..2 = {1, 2}
<1>3. IsFiniteSet(T)
  BY <1>1, <1>2, FS_Subset
<1> QED
  BY <1>1, <1>3, FS_Subset DEF Occurrences

(* Counting flags adds their occurrences to the counters.                  *)
LEMMA CountKeeps ==
    ASSUME CountersOK, NEW flags \in Seq(Flags), NEW half \in SUBSET Flags
    PROVE  LET new == Summarized(flags, half) IN
           /\ DOMAIN new \subseteq Flags
           /\ \A f \in DOMAIN new : new[f] \in Nat
           /\ \A f \in Flags :
                CountOf(new, f) = CountOf(summaryCounters, f) + Occurrences(flags, f)
<1> DEFINE new == Summarized(flags, half)
<1>1. Range(flags) \subseteq Flags
  BY DEF Range
<1>2. DOMAIN new = DOMAIN summaryCounters \cup Range(flags) \cup half
  BY DEF Summarized
<1>3. \A f \in DOMAIN new :
        new[f] = CountOf(summaryCounters, f) + Occurrences(flags, f)
  BY DEF Summarized
<1> HIDE DEF new
<1>4. \A f : CountOf(summaryCounters, f) \in Nat
  BY DEF CountOf, CountersOK
<1>5. \A f : Occurrences(flags, f) \in Nat
  BY OccurrencesType
<1>6. DOMAIN new \subseteq Flags
  BY <1>1, <1>2 DEF CountersOK
<1>7. \A f \in DOMAIN new : new[f] \in Nat
  BY <1>3, <1>4, <1>5
<1>8. ASSUME NEW f \in Flags
      PROVE  CountOf(new, f) = CountOf(summaryCounters, f) + Occurrences(flags, f)
  <2>1. CASE f \in DOMAIN new
    BY <1>3, <2>1 DEF CountOf
  <2>2. CASE f \notin DOMAIN new
    <3>1. Occurrences(flags, f) = 0 /\ f \notin DOMAIN summaryCounters
      BY <1>2, <2>2, OccurrencesType
    <3> QED
      BY <2>2, <3>1 DEF CountOf
  <2> QED
    BY <2>1, <2>2
<1> QED
  BY <1>6, <1>7, <1>8 DEF new

(* The period: counters start when the clock says, and the clock has       *)
(* passed the end of the last summary.                                     *)
LEMMA StartKeeps ==
    ASSUME TimesOK, SummariesFollow, summaryStart' \in {summaryStart, StartAfterFirst},
           UNCHANGED <<clock, lastEnd>>
    PROVE  TimesOK' /\ SummariesFollow'
<1>1. clock \in Nat /\ clock > 0 /\ summaryStart \in 0..clock /\ lastEnd \in 0..clock
  BY DEF TimesOK
<1>2. summaryStart # 0 => lastEnd <= summaryStart
  BY DEF SummariesFollow
<1>3. summaryStart' = summaryStart \/ (summaryStart = 0 /\ summaryStart' = clock)
  BY DEF StartAfterFirst
<1>4. TimesOK'
  BY <1>1, <1>3 DEF TimesOK
<1>5. SummariesFollow'
  BY <1>1, <1>2, <1>3 DEF SummariesFollow
<1> QED
  BY <1>4, <1>5

-----------------------------------------------------------------------------
(* Calls.                                                                  *)

LEMMA RequestType ==
    ASSUME CallsOK, NEW t \in Threads, call[t] # NULL
    PROVE  /\ call[t].now \in 1..clock
           /\ call[t].request.kind \in {"evaluate", "track"} =>
                call[t].request.user \in Users
           /\ call[t].request.kind = "evaluate" =>
                call[t].request.flag \in Flags /\ call[t].request.sub \in Flags \cup {NULL}
<1> DEFINE c == call[t].request
<1>1. call[t].now \in 1..clock /\ c \in Requests
  BY DEF CallsOK
<1> HIDE DEF c
<1>2. Missing \subseteq Flags
  BY EventAssumption
<1>3. CASE c \in [kind : {"evaluate"}, user : Users, flag : Missing, sub : {NULL}]
  BY <1>1, <1>2, <1>3 DEF c
<1>4. CASE c \in [kind : {"evaluate"}, user : Users, flag : Flags \ Missing,
                  sub : (Flags \ Missing) \cup {NULL}]
  BY <1>1, <1>4 DEF c
<1>5. CASE c \in [kind : {"track"}, user : Users]
  BY <1>1, <1>5 DEF c
<1>6. CASE c \in [kind : {"identify", "alias", "bundle"}]
  BY <1>1, <1>6 DEF c
<1> QED
  BY <1>1, <1>3, <1>4, <1>5, <1>6 DEF Requests

LEMMA AskedType ==
    ASSUME CallsOK, NEW t \in Threads, call[t] # NULL
    PROVE  Asked(call[t].request) \in Seq(Flags)
<1> DEFINE c == call[t].request
<1>1. c.kind = "evaluate" => c.flag \in Flags /\ c.sub \in Flags \cup {NULL}
  BY RequestType
<1> HIDE DEF c
<1>2. Asked(c) \in Seq(Flags)
  BY <1>1 DEF Asked
<1> QED
  BY <1>2 DEF c

LEMMA LeaveKeeps ==
    ASSUME CallsOK, NEW t \in Threads, NEW ok, leave(t, ok)
    PROVE  CallsOK' /\ clock' = clock
<1>1. call' = [call EXCEPT ![t] = NULL] /\ clock' = clock
  BY DEF leave
<1>2. call' = [x \in Threads |-> call'[x]]
  BY <1>1 DEF CallsOK
<1>3. ASSUME NEW x \in Threads, call'[x] # NULL
      PROVE  call'[x].request \in Requests /\ call'[x].now \in 1..clock'
  BY <1>1, <1>3 DEF CallsOK
<1> QED
  BY <1>1, <1>2, <1>3 DEF CallsOK

LEMMA EnterKeeps ==
    ASSUME CallsOK, TimesOK, NEW t \in Threads, NEW request \in Requests, enter(t, request)
    PROVE  CallsOK' /\ clock' = clock
<1>1. call' = [call EXCEPT ![t] = [request |-> request, now |-> clock]] /\ clock' = clock
  BY DEF enter
<1>2. call' = [x \in Threads |-> call'[x]]
  BY <1>1 DEF CallsOK
<1>3. clock \in 1..clock
  BY DEF TimesOK
<1>4. ASSUME NEW x \in Threads, call'[x] # NULL
      PROVE  call'[x].request \in Requests /\ call'[x].now \in 1..clock'
  <2>1. CASE x = t
    <3>1. call'[x] = [request |-> request, now |-> clock]
      BY <1>1, <2>1 DEF CallsOK
    <3> QED
      BY <1>1, <1>3, <3>1
  <2>2. CASE x # t
    BY <1>1, <1>4, <2>2 DEF CallsOK
  <2> QED
    BY <2>1, <2>2
<1> QED
  BY <1>1, <1>2, <1>4 DEF CallsOK

LEMMA TickKeeps ==
    ASSUME CallsOK, TimesOK, tick
    PROVE  CallsOK' /\ TimesOK'
<1>1. /\ clock' = clock + 1 /\ clock \in Nat
      /\ UNCHANGED <<call, summaryStart, lastEnd>>
  BY DEF tick, TimesOK, queued, history
<1>2. \A n : n \in 1..clock => n \in 1..clock'
  BY <1>1
<1>3. CallsOK'
  BY <1>1, <1>2 DEF CallsOK
<1>4. TimesOK'
  BY <1>1 DEF TimesOK
<1> QED
  BY <1>3, <1>4

-----------------------------------------------------------------------------
(* The summary, action by action.                                          *)

\* A step that neither counts, nor takes the summary, nor ends a call.
LEMMA QuietKeeps ==
    ASSUME SummaryInv, CallsOK', UNCHANGED <<clock, summaryCounters, summaryStart,
                                             succeeded, gaveUp, sent, lastEnd>>
    PROVE  SummaryInv'
BY DEF SummaryInv, TimesOK, CountersOK, SummaryExact, SummariesFollow, CountOf

(* A call that ends has counted some of the evaluations it was asked for,  *)
(* and all of them if it succeeds.                                         *)
LEMMA ReturnStep ==
    ASSUME SummaryInv, NEW t \in Threads, call[t] # NULL,
           NEW ok \in BOOLEAN, leave(t, ok), NEW flags \in Seq(Flags),
           \A f \in Flags :
             Occurrences(flags, f) <= Occurrences(Asked(call[t].request), f),
           ok => \A f \in Flags :
             Occurrences(flags, f) = Occurrences(Asked(call[t].request), f),
           DOMAIN summaryCounters' \subseteq Flags,
           \A f \in DOMAIN summaryCounters' : summaryCounters'[f] \in Nat,
           \A f \in Flags :
             CountOf(summaryCounters', f)
               = CountOf(summaryCounters, f) + Occurrences(flags, f),
           summaryStart' \in {summaryStart, StartAfterFirst},
           UNCHANGED <<sent, lastEnd>>
    PROVE  SummaryInv'
<1> DEFINE asked == Asked(call[t].request)
<1>1. CallsOK' /\ clock' = clock
  BY LeaveKeeps DEF SummaryInv
<1>2. TimesOK' /\ SummariesFollow'
  BY <1>1, StartKeeps DEF SummaryInv
<1>3. asked \in Seq(Flags)
  BY AskedType DEF SummaryInv
<1>4. \/ ok /\ succeeded' = With(succeeded, asked) /\ gaveUp' = gaveUp
      \/ ~ok /\ gaveUp' = With(gaveUp, asked) /\ succeeded' = succeeded
  BY DEF leave
<1> HIDE DEF asked
<1>5. \A f : Occurrences(flags, f) \in Nat /\ Occurrences(asked, f) \in Nat
  BY <1>3, OccurrencesType
<1>6. \A f : CountOf(summaryCounters, f) \in Nat
  BY DEF CountOf, SummaryInv, CountersOK
<1>7. \A f \in Flags : succeeded[f] \in Nat /\ gaveUp[f] \in Nat /\ sent[f] \in Nat
  BY DEF SummaryInv, CountersOK
<1>8. CountersOK'
  <2>1. /\ succeeded' \in [Flags -> Nat] /\ gaveUp' \in [Flags -> Nat]
        /\ sent' \in [Flags -> Nat]
    BY <1>4, <1>5, <1>7 DEF With, SummaryInv, CountersOK
  <2> QED
    BY <2>1 DEF CountersOK
<1>9. ASSUME NEW f \in Flags
      PROVE  /\ succeeded'[f] <= sent[f] + CountOf(summaryCounters', f)
             /\ sent[f] + CountOf(summaryCounters', f) <= succeeded'[f] + gaveUp'[f]
  <2>1. /\ succeeded[f] <= sent[f] + CountOf(summaryCounters, f)
        /\ sent[f] + CountOf(summaryCounters, f) <= succeeded[f] + gaveUp[f]
    BY DEF SummaryInv, SummaryExact
  <2>2. CASE ok
    <3>1. /\ succeeded'[f] = succeeded[f] + Occurrences(asked, f)
          /\ gaveUp'[f] = gaveUp[f]
          /\ Occurrences(flags, f) = Occurrences(asked, f)
      BY <1>4, <2>2 DEF With, asked
    <3>2. CountOf(summaryCounters', f)
            = CountOf(summaryCounters, f) + Occurrences(asked, f)
      BY <3>1
    <3> QED
      BY <1>5, <1>6, <1>7, <2>1, <3>1, <3>2
  <2>3. CASE ~ok
    <3>1. /\ gaveUp'[f] = gaveUp[f] + Occurrences(asked, f)
          /\ succeeded'[f] = succeeded[f]
          /\ Occurrences(flags, f) <= Occurrences(asked, f)
      BY <1>4, <2>3 DEF With, asked
    <3> QED
      BY <1>5, <1>6, <1>7, <2>1, <3>1
  <2> QED
    BY <2>2, <2>3
<1>10. SummaryExact'
  BY <1>9 DEF SummaryExact, CountOf
<1> QED
  BY <1>1, <1>2, <1>8, <1>10 DEF SummaryInv

(* A call that counts nothing returns FALSE, or was not an evaluation.     *)
LEMMA NothingCounted ==
    ASSUME SummaryInv, NEW t \in Threads, call[t] # NULL,
           NEW ok \in BOOLEAN, leave(t, ok),
           ok => call[t].request.kind # "evaluate",
           summaryStart' \in {summaryStart, StartAfterFirst},
           DOMAIN summaryCounters' \subseteq Flags,
           \A f \in DOMAIN summaryCounters' : summaryCounters'[f] \in Nat,
           \A f \in Flags :
             CountOf(summaryCounters', f) = CountOf(summaryCounters, f),
           UNCHANGED <<sent, lastEnd>>
    PROVE  SummaryInv'
<1> DEFINE none == <<>>
           asked == Asked(call[t].request)
<1>1. none \in Seq(Flags) /\ \A f : f \notin Range(none)
  BY DEF Range
<1>2. \A f : Occurrences(none, f) = 0
  BY <1>1, OccurrencesType
<1>3. asked \in Seq(Flags)
  BY AskedType DEF SummaryInv
<1>4. ok => asked = none
  BY DEF Asked
<1> HIDE DEF none, asked
<1>5. \A f : Occurrences(asked, f) \in Nat
  BY <1>3, OccurrencesType
<1>6. \A f : CountOf(summaryCounters, f) \in Nat
  BY DEF CountOf, SummaryInv, CountersOK
<1>7. \A f \in Flags :
        CountOf(summaryCounters', f) = CountOf(summaryCounters, f) + Occurrences(none, f)
  BY <1>2, <1>6
<1>8. /\ \A f \in Flags : Occurrences(none, f) <= Occurrences(asked, f)
      /\ ok => \A f \in Flags : Occurrences(none, f) = Occurrences(asked, f)
  BY <1>2, <1>4, <1>5
<1> QED
  BY <1>1, <1>7, <1>8, ReturnStep DEF asked

LEMMA EvaluationKeeps ==
    ASSUME SummaryInv, NEW t \in Threads, NEW converted, processEvaluation(t, converted)
    PROVE  SummaryInv'
<1> DEFINE c == call[t].request
           sub == IF c.sub = NULL THEN <<>> ELSE <<c.sub>>
<1>1. CallsOK /\ CountersOK /\ call[t] # NULL /\ c.kind = "evaluate"
  BY DEF SummaryInv, processEvaluation, InLock
<1>2. c.flag \in Flags /\ c.sub \in Flags \cup {NULL}
  BY <1>1, RequestType
<1>3. leave(t, TRUE) /\ UNCHANGED <<sent, lastEnd>>
  BY DEF processEvaluation
<1>4. Count(<<c.flag>> \o sub, {})
  BY DEF processEvaluation
<1>5. Asked(c) = <<c.flag>> \o sub
  <2>1. CASE c.sub = NULL
    <3>1. Asked(c) = <<c.flag>> /\ sub = <<>>
      BY <1>1, <2>1 DEF Asked
    <3> HIDE DEF c, sub
    <3> QED
      BY <1>2, <3>1
  <2>2. CASE c.sub # NULL
    <3>1. Asked(c) = <<c.flag, c.sub>> /\ sub = <<c.sub>>
      BY <1>1, <2>2 DEF Asked
    <3> HIDE DEF c, sub
    <3> QED
      BY <1>2, <3>1
  <2> QED
    BY <2>1, <2>2
<1> DEFINE flags == Asked(c)
<1>6. flags \in Seq(Flags) /\ {} \in SUBSET Flags
  BY <1>1, AskedType
<1>7. summaryCounters' = Summarized(flags, {}) /\ summaryStart' = StartAfterFirst
  BY <1>4, <1>5 DEF Count
<1>8. \A f : Occurrences(flags, f) \in Nat
  BY <1>6, OccurrencesType
<1>9. /\ \A f \in Flags : Occurrences(flags, f) <= Occurrences(Asked(call[t].request), f)
      /\ \A f \in Flags : Occurrences(flags, f) = Occurrences(Asked(call[t].request), f)
  BY <1>8
<1> HIDE DEF flags
<1>10. /\ DOMAIN summaryCounters' \subseteq Flags
       /\ \A f \in DOMAIN summaryCounters' : summaryCounters'[f] \in Nat
       /\ \A f \in Flags : CountOf(summaryCounters', f)
                             = CountOf(summaryCounters, f) + Occurrences(flags, f)
  BY <1>1, <1>6, <1>7, CountKeeps
<1> QED
  BY <1>1, <1>3, <1>6, <1>7, <1>9, <1>10, ReturnStep

LEMMA EvaluationAtSubKeeps ==
    ASSUME SummaryInv, NEW t \in Threads, NEW converted,
           evaluationFailsAtSub(t, converted)
    PROVE  SummaryInv'
<1> DEFINE c == call[t].request
           flags == <<c.flag>>
<1>1. CallsOK /\ CountersOK /\ call[t] # NULL /\ c.kind = "evaluate" /\ c.sub # NULL
  BY DEF SummaryInv, evaluationFailsAtSub, InLock
<1>2. c.flag \in Flags /\ c.sub \in Flags
  BY <1>1, RequestType
<1>3. leave(t, FALSE) /\ UNCHANGED <<sent, lastEnd>>
  BY DEF evaluationFailsAtSub
<1>4. PICK half \in SUBSET {c.sub} : Count(<<c.flag>>, half)
  BY DEF evaluationFailsAtSub
<1>5. flags \in Seq(Flags) /\ half \in SUBSET Flags
  BY <1>2
<1>6. Asked(c) = <<c.flag, c.sub>>
  BY <1>1 DEF Asked
<1>7. \A f : Occurrences(flags, f) <= Occurrences(Asked(call[t].request), f)
  BY <1>2, <1>6, OccurrencesGrow
<1>8. summaryCounters' = Summarized(flags, half) /\ summaryStart' = StartAfterFirst
  BY <1>4 DEF Count
<1> HIDE DEF flags
<1>9. /\ DOMAIN summaryCounters' \subseteq Flags
      /\ \A f \in DOMAIN summaryCounters' : summaryCounters'[f] \in Nat
      /\ \A f \in Flags : CountOf(summaryCounters', f)
                            = CountOf(summaryCounters, f) + Occurrences(flags, f)
  BY <1>1, <1>5, <1>8, CountKeeps
<1> QED
  BY <1>1, <1>3, <1>5, <1>7, <1>8, <1>9, ReturnStep

LEMMA EvaluationLateKeeps ==
    ASSUME SummaryInv, NEW t \in Threads, evaluationFailsLate(t)
    PROVE  SummaryInv'
<1> DEFINE f == call[t].request.flag
           none == <<>>
<1>1. CallsOK /\ CountersOK /\ call[t] # NULL /\ call[t].request.kind = "evaluate"
  BY DEF SummaryInv, evaluationFailsLate, InLock
<1>2. f \in Flags
  BY <1>1, RequestType
<1>3. leave(t, FALSE) /\ UNCHANGED <<sent, lastEnd>>
  BY DEF evaluationFailsLate
<1>4. /\ summaryStart' \in {summaryStart, StartAfterFirst}
      /\ summaryCounters' \in {summaryCounters, Summarized(<<>>, {f})}
  BY DEF evaluationFailsLate
<1> HIDE DEF f
<1>5. CASE summaryCounters' = summaryCounters
  BY <1>1, <1>3, <1>4, <1>5, NothingCounted DEF CountersOK, CountOf
<1>6. CASE summaryCounters' = Summarized(<<>>, {f})
  <2>1. none \in Seq(Flags) /\ {f} \in SUBSET Flags /\ \A g : g \notin Range(none)
    BY <1>2 DEF Range
  <2>2. \A g : Occurrences(none, g) = 0
    BY <2>1, OccurrencesType
  <2>3. summaryCounters' = Summarized(none, {f})
    BY <1>6
  <2>4. \A g : CountOf(summaryCounters, g) \in Nat
    BY <1>1 DEF CountOf, CountersOK
  <2> HIDE DEF none
  <2>5. /\ DOMAIN summaryCounters' \subseteq Flags
        /\ \A g \in DOMAIN summaryCounters' : summaryCounters'[g] \in Nat
        /\ \A g \in Flags : CountOf(summaryCounters', g)
                              = CountOf(summaryCounters, g) + Occurrences(none, g)
    BY <1>1, <2>1, <2>3, CountKeeps
  <2>6. \A g \in Flags : CountOf(summaryCounters', g) = CountOf(summaryCounters, g)
    BY <2>2, <2>4, <2>5
  <2> QED
    BY <1>1, <1>3, <1>4, <2>5, <2>6, NothingCounted
<1> QED
  BY <1>4, <1>5, <1>6

(* What the counters held is sent, and the next summary starts later.      *)
LEMMA BundleKeeps ==
    ASSUME SummaryInv, NEW t \in Threads, bundleEventPayload(t)
    PROVE  SummaryInv'
<1>1. CallsOK /\ CountersOK /\ call[t] # NULL /\ call[t].request.kind # "evaluate"
  BY DEF SummaryInv, bundleEventPayload, InLock
<1>2. leave(t, TRUE)
  BY DEF bundleEventPayload
<1>3. CASE DOMAIN summaryCounters = {}
  <2>1. UNCHANGED <<summaryCounters, summaryStart, sent, lastEnd>>
    BY <1>3 DEF bundleEventPayload
  <2> QED
    BY <1>1, <1>2, <2>1, NothingCounted DEF CountersOK, CountOf
<1>4. CASE DOMAIN summaryCounters # {}
  <2>0. CallsOK' /\ clock' = clock /\ call[t].now \in 1..clock
    BY <1>1, <1>2, LeaveKeeps, RequestType
  <2>1. /\ sent' = [f \in Flags |-> sent[f] + CountOf(summaryCounters, f)]
        /\ summaryCounters' = <<>> /\ summaryStart' = 0
        /\ lastEnd' = call[t].now
    BY <1>4 DEF bundleEventPayload, prepareSummaryEvent, CountersAfterBundle,
       StartAfterBundle
  <2>2. DOMAIN summaryCounters' = {}
    BY <2>1
  <2>3. TimesOK' /\ SummariesFollow'
    BY <2>0, <2>1 DEF SummaryInv, TimesOK, SummariesFollow
  <2>4. UNCHANGED <<succeeded, gaveUp>>
    <3> DEFINE none == <<>>
    <3>1. none \in Seq(Flags) /\ \A f : f \notin Range(none)
      BY DEF Range
    <3>2. \A f : Occurrences(none, f) = 0
      BY <3>1, OccurrencesType
    <3>3. succeeded' = With(succeeded, none) /\ gaveUp' = gaveUp
      BY <1>1, <1>2 DEF leave, Asked
    <3> HIDE DEF none
    <3> QED
      BY <1>1, <3>2, <3>3 DEF With, CountersOK
  <2>5. \A f \in Flags : CountOf(summaryCounters, f) \in Nat /\ sent[f] \in Nat
    BY DEF SummaryInv, CountersOK, CountOf
  <2>6. CountersOK'
    BY <1>1, <2>1, <2>2, <2>4, <2>5 DEF CountersOK
  <2>7. SummaryExact'
    <3>1. \A f \in Flags : CountOf(summaryCounters', f) = 0
      BY <2>2 DEF CountOf
    <3>2. \A f \in Flags :
            sent'[f] + CountOf(summaryCounters', f) = sent[f] + CountOf(summaryCounters, f)
      BY <2>1, <2>5, <3>1
    <3> QED
      BY <2>4, <3>2 DEF SummaryInv, SummaryExact, CountOf
  <2> QED
    BY <2>0, <2>3, <2>6, <2>7 DEF SummaryInv
<1> QED
  BY <1>3, <1>4

LEMMA SummaryStep ==
    ASSUME SummaryInv, [Next]_vars
    PROVE  SummaryInv'
<1>0. CallsOK /\ TimesOK
  BY DEF SummaryInv
<1>1. ASSUME NEW t \in Threads, NEW request \in Requests, enter(t, request)
      PROVE  SummaryInv'
  BY <1>0, <1>1, EnterKeeps, QuietKeeps DEF enter, queued, history, returned
<1>2. ASSUME NEW t \in Threads,
             \/ failsAtOnce(t) \/ keyFails(t) \/ track(t) \/ trackFails(t)
             \/ identify(t) \/ alias(t)
      PROVE  SummaryInv'
  <2>1. /\ call[t] # NULL /\ UNCHANGED <<summaryCounters, summaryStart, sent, lastEnd>>
        /\ \/ leave(t, FALSE)
           \/ leave(t, TRUE) /\ call[t].request.kind # "evaluate"
    BY <1>2 DEF failsAtOnce, keyFails, track, trackFails, identify, alias, InLock, queued
  <2>2. CountersOK
    BY DEF SummaryInv
  <2>3. /\ DOMAIN summaryCounters' \subseteq Flags
        /\ \A f \in DOMAIN summaryCounters' : summaryCounters'[f] \in Nat
        /\ \A f \in Flags : CountOf(summaryCounters', f) = CountOf(summaryCounters, f)
    BY <2>1, <2>2 DEF CountersOK, CountOf
  <2>4. CASE leave(t, FALSE)
    BY <2>1, <2>3, <2>4, NothingCounted
  <2>5. CASE leave(t, TRUE) /\ call[t].request.kind # "evaluate"
    BY <2>1, <2>3, <2>5, NothingCounted
  <2> QED
    BY <2>1, <2>4, <2>5
<1>3. CASE tick
  <2>1. CallsOK' /\ TimesOK'
    BY <1>0, <1>3, TickKeeps
  <2>2. UNCHANGED <<summaryCounters, summaryStart, succeeded, gaveUp, sent, lastEnd>>
    BY <1>3 DEF tick, queued, history, returned
  <2> QED
    BY <2>1, <2>2 DEF SummaryInv, CountersOK, SummaryExact, SummariesFollow, CountOf
<1>4. ASSUME NEW time, setServerTime(time)
      PROVE  SummaryInv'
  <2>1. UNCHANGED <<clock, call, summaryCounters, summaryStart, succeeded, gaveUp,
                    sent, lastEnd>>
    BY <1>4 DEF setServerTime, queued, history, returned
  <2> QED
    BY <1>0, <2>1, QuietKeeps DEF CallsOK
<1>5. CASE UNCHANGED vars
  <2>1. UNCHANGED <<clock, call, summaryCounters, summaryStart, succeeded, gaveUp,
                    sent, lastEnd>>
    BY <1>5 DEF vars, queued, history, returned
  <2> QED
    BY <1>0, <2>1, QuietKeeps DEF CallsOK
<1> QED
  BY <1>1, <1>2, <1>3, <1>4, <1>5, EvaluationKeeps, EvaluationAtSubKeeps,
     EvaluationLateKeeps, BundleKeeps DEF Next, Call

LEMMA SummaryInit == ASSUME Init PROVE SummaryInv
<1>1. CallsOK /\ TimesOK /\ SummariesFollow
  BY DEF Init, CallsOK, TimesOK, SummariesFollow
<1>2. DOMAIN summaryCounters = {}
  BY DEF Init
<1>3. CountersOK
  BY <1>2 DEF Init, CountersOK
<1>4. SummaryExact
  BY <1>2 DEF Init, SummaryExact, CountOf
<1> QED
  BY <1>1, <1>3, <1>4 DEF SummaryInv

(* Counters, times and calls agree, whichever call fails half way.         *)
THEOREM SummaryInvHolds == Spec => []SummaryInv
<1>1. Init => SummaryInv
  BY SummaryInit
<1>2. SummaryInv /\ [Next]_vars => SummaryInv'
  BY SummaryStep
<1> QED
  BY <1>1, <1>2, PTL DEF Spec

(* LDi_processEvaluation, when it returns TRUE, has counted its evaluation *)
(* and the prerequisites in the counters or in one summary taken from      *)
(* them; when it returns FALSE, nothing is counted twice.                  *)
THEOREM SummariesAreExact == Spec => []SummaryExact
BY SummaryInvHolds, PTL DEF SummaryInv

(* A summary starts no earlier than the one before it ended.               *)
THEOREM PeriodsFollow == Spec => []SummariesFollow
BY SummaryInvHolds, PTL DEF SummaryInv

-----------------------------------------------------------------------------
(* The LRU.                                                                *)

LEMMA LastUseUnique ==
    ASSUME NEW uses \in Seq(Users), NEW user, NEW i \in DOMAIN uses, IsLastUse(uses, user, i)
    PROVE  LastUse(uses, user) = i
<1>1. \A j \in DOMAIN uses : j \in Int
  OBVIOUS
<1>2. ASSUME NEW j \in DOMAIN uses, IsLastUse(uses, user, j)
      PROVE  j = i
  BY <1>1, <1>2 DEF IsLastUse
<1>3. LastUse(uses, user) \in DOMAIN uses /\ IsLastUse(uses, user, LastUse(uses, user))
  BY DEF LastUse
<1> QED
  BY <1>2, <1>3

LEMMA AppendUses ==
    ASSUME NEW uses \in Seq(Users), NEW u \in Users
    PROVE  LET t == Append(uses, u) IN
           /\ t \in Seq(Users) /\ Len(t) = Len(uses) + 1 /\ Len(uses) \in Nat
           /\ DOMAIN uses = 1..Len(uses) /\ DOMAIN t = 1..(Len(uses) + 1)
           /\ t[Len(uses) + 1] = u /\ \A i \in 1..Len(uses) : t[i] = uses[i]
           /\ Range(t) = Range(uses) \cup {u}
<1> DEFINE t == Append(uses, u)
<1>1. /\ t \in Seq(Users) /\ Len(t) = Len(uses) + 1 /\ Len(uses) \in Nat
      /\ DOMAIN uses = 1..Len(uses) /\ DOMAIN t = 1..(Len(uses) + 1)
      /\ t[Len(uses) + 1] = u /\ \A i \in 1..Len(uses) : t[i] = uses[i]
  BY AppendProperties
<1> HIDE DEF t
<1>2. 1..(Len(uses) + 1) = (1..Len(uses)) \cup {Len(uses) + 1}
  BY <1>1
<1>3. Range(t) = Range(uses) \cup {u}
  BY <1>1, <1>2 DEF Range
<1> QED
  BY <1>1, <1>3 DEF t

(* The user just seen has only itself seen since; to the others it is one  *)
(* more.                                                                   *)
LEMMA SeenAfterUse ==
    ASSUME NEW uses \in Seq(Users), NEW u \in Users
    PROVE  LET t == Append(uses, u) IN
           /\ IsLastUse(t, u, Len(uses) + 1) /\ SeenSince(t, u) = {u}
           /\ \A v, i : (v # u /\ IsLastUse(uses, v, i)) =>
                /\ IsLastUse(t, v, i)
                /\ SeenSince(t, v) = SeenSince(uses, v) \cup {u}
<1> DEFINE t == Append(uses, u)
           n == Len(uses)
<1>1. /\ t \in Seq(Users) /\ Len(t) = n + 1 /\ n \in Nat
      /\ DOMAIN uses = 1..n /\ DOMAIN t = 1..(n + 1)
      /\ t[n + 1] = u /\ \A i \in 1..n : t[i] = uses[i]
  BY AppendUses
<1>0. Len(uses) = n
  OBVIOUS
<1> HIDE DEF t, n
<1>2. IsLastUse(t, u, n + 1)
  BY <1>1 DEF IsLastUse
<1>3. SeenSince(t, u) = {u}
  <2>1. LastUse(t, u) = n + 1
    BY <1>1, <1>2, LastUseUnique DEF IsLastUse
  <2>2. (n + 1)..(n + 1) = {n + 1}
    BY <1>1
  <2> QED
    BY <1>1, <2>1, <2>2 DEF SeenSince
<1>4. ASSUME NEW v, NEW i, v # u, IsLastUse(uses, v, i)
      PROVE  IsLastUse(t, v, i) /\ SeenSince(t, v) = SeenSince(uses, v) \cup {u}
  <2>1. i \in 1..n /\ uses[i] = v /\ \A j \in 1..n : j > i => uses[j] # v
    BY <1>1, <1>4 DEF IsLastUse
  <2>2. IsLastUse(t, v, i)
    BY <1>1, <1>4, <2>1 DEF IsLastUse
  <2>3. LastUse(uses, v) = i
    BY <1>1, <1>4, <2>1, LastUseUnique
  <2>4. LastUse(t, v) = i
    BY <1>1, <2>1, <2>2, LastUseUnique
  <2>5. i..(n + 1) = (i..n) \cup {n + 1} /\ i..n \subseteq 1..n
    BY <1>1, <2>1
  <2>6. SeenSince(t, v) = {t[j] : j \in (i..n) \cup {n + 1}}
    BY <1>1, <2>4, <2>5 DEF SeenSince
  <2>7. SeenSince(uses, v) = {uses[j] : j \in i..n}
    BY <1>0, <2>3 DEF SeenSince
  <2>8. {t[j] : j \in (i..n) \cup {n + 1}} = {uses[j] : j \in i..n} \cup {u}
    BY <1>1, <2>5
  <2> QED
    BY <2>2, <2>6, <2>7, <2>8
<1> QED
  BY <1>2, <1>3, <1>4 DEF t, n

\* What LRUInsert does, place by place: the key comes first, those before
\* its old place (or all, when it had none) move down by one.
Moved(list, new, u, last) ==
    /\ new \in Seq(Users) /\ Len(new) >= 1 /\ new[1] = u
    /\ last \in 1..Len(new) /\ last - 1 <= Len(list)
    /\ \A x \in 2..last : new[x] = list[x - 1]
    /\ \A x \in 1..Len(new) : x > last => x <= Len(list) /\ new[x] = list[x]

LEMMA MoveToFront ==
    ASSUME NEW list \in Seq(Users), NEW u \in Users, NEW p \in 1..Len(list)
    PROVE  LET new == <<u>> \o RemoveAt(list, p)
           IN  Moved(list, new, u, p) /\ Len(new) = Len(list)
<1> DEFINE a == SubSeq(list, 1, p - 1)
           b == SubSeq(list, p + 1, Len(list))
           n == Len(list)
<1>1. n \in Nat /\ p \in Int /\ 1 <= p /\ p <= n
  OBVIOUS
<1>2. /\ a \in Seq(Users) /\ Len(a) = p - 1 /\ \A x \in 1..(p - 1) : a[x] = list[x]
  BY <1>1, SubSeqProperties
<1>3. /\ b \in Seq(Users) /\ Len(b) = n - p /\ \A x \in 1..(n - p) : b[x] = list[p + x]
  BY <1>1, SubSeqProperties
<1> HIDE DEF a, b
<1> DEFINE c == a \o b
<1>4. /\ c \in Seq(Users) /\ Len(c) = n - 1
      /\ \A x \in 1..(p - 1) : c[x] = list[x]
      /\ \A x \in p..(n - 1) : c[x] = list[x + 1]
  <2>1. c \in Seq(Users) /\ Len(c) = Len(a) + Len(b)
    BY <1>2, <1>3, ConcatProperties
  <2>2. \A x \in 1..(Len(a) + Len(b)) :
          c[x] = IF x <= Len(a) THEN a[x] ELSE b[x - Len(a)]
    BY <1>2, <1>3, ConcatProperties
  <2>3. ASSUME NEW x \in 1..(p - 1) PROVE c[x] = list[x]
    BY <1>1, <1>2, <1>3, <2>2
  <2>4. ASSUME NEW x \in p..(n - 1) PROVE c[x] = list[x + 1]
    <3>1. x - (p - 1) \in 1..(n - p)
      BY <1>1
    <3>2. c[x] = b[x - (p - 1)]
      BY <1>1, <1>2, <1>3, <2>2
    <3> QED
      BY <1>1, <1>3, <3>1, <3>2
  <2> QED
    BY <1>1, <1>2, <1>3, <2>1, <2>3, <2>4
<1> HIDE DEF c
<1> DEFINE new == <<u>> \o c
<1>5. /\ new \in Seq(Users) /\ Len(new) = n /\ new[1] = u
      /\ \A x \in 2..n : new[x] = c[x - 1]
  <2>1. <<u>> \in Seq(Users) /\ Len(<<u>>) = 1 /\ <<u>>[1] = u
    OBVIOUS
  <2>2. new \in Seq(Users) /\ Len(new) = 1 + (n - 1)
    BY <1>4, <2>1, ConcatProperties
  <2>3. \A x \in 1..(1 + (n - 1)) : new[x] = IF x <= 1 THEN <<u>>[x] ELSE c[x - 1]
    BY <1>4, <2>1, ConcatProperties
  <2>4. new[1] = u
    <3> HIDE DEF new
    <3>1. 1 \in 1..(1 + (n - 1))
      BY <1>1
    <3>2. new[1] = <<u>>[1]
      BY <2>3, <3>1
    <3> QED
      BY <2>1, <3>2
  <2>5. ASSUME NEW x \in 2..n PROVE new[x] = c[x - 1]
    <3> HIDE DEF new
    <3>1. x \in 1..(1 + (n - 1)) /\ ~(x <= 1)
      BY <1>1
    <3> QED
      BY <2>3, <3>1
  <2> QED
    BY <1>1, <2>2, <2>4, <2>5
<1> HIDE DEF new
<1>6. \A x \in 2..p : new[x] = list[x - 1]
  BY <1>1, <1>4, <1>5
<1>7. \A x \in 1..n : x > p => new[x] = list[x]
  BY <1>1, <1>4, <1>5
<1>8. Moved(list, new, u, p) /\ Len(new) = Len(list)
  BY <1>1, <1>5, <1>6, <1>7 DEF Moved
<1> QED
  BY <1>8 DEF new, c, a, b, RemoveAt

LEMMA PutInFront ==
    ASSUME NEW list \in Seq(Users), NEW u \in Users
    PROVE  LET new == <<u>> \o list
           IN  Moved(list, new, u, Len(list) + 1) /\ Len(new) = Len(list) + 1
<1> DEFINE new == <<u>> \o list
           n == Len(list)
<1>1. <<u>> \in Seq(Users) /\ Len(<<u>>) = 1 /\ <<u>>[1] = u /\ n \in Nat
  OBVIOUS
<1>2. new \in Seq(Users) /\ Len(new) = 1 + n
  BY <1>1, ConcatProperties
<1>3. \A x \in 1..(1 + n) : new[x] = IF x <= 1 THEN <<u>>[x] ELSE list[x - 1]
  BY <1>1, ConcatProperties
<1> HIDE DEF new
<1>4. new[1] = u /\ \A x \in 2..(n + 1) : new[x] = list[x - 1]
  <2>1. 1 \in 1..(1 + n)
    BY <1>1
  <2>2. new[1] = <<u>>[1]
    BY <1>3, <2>1
  <2>3. \A x \in 2..(n + 1) : new[x] = list[x - 1]
    BY <1>1, <1>3
  <2> QED
    BY <1>1, <2>2, <2>3
<1>5. Moved(list, new, u, n + 1) /\ Len(new) = n + 1
  BY <1>1, <1>2, <1>4 DEF Moved
<1> QED
  BY <1>5 DEF new

LEMMA EvictLast ==
    ASSUME NEW list \in Seq(Users), NEW u \in Users, Len(list) >= 1
    PROVE  LET new == <<u>> \o Front(list)
           IN  Moved(list, new, u, Len(list)) /\ Len(new) = Len(list)
<1> DEFINE a == Front(list)
           n == Len(list)
<1>1. n \in Nat /\ n >= 1
  OBVIOUS
<1>2. a \in Seq(Users) /\ Len(a) = n - 1 /\ \A x \in 1..(n - 1) : a[x] = list[x]
  <2>1. 1 \in Int /\ n - 1 \in Int /\ \A x \in 1..(n - 1) : list[x] \in Users
    BY <1>1
  <2>2. /\ a \in Seq(Users) /\ Len(a) = (IF 1 <= n - 1 THEN (n - 1) - 1 + 1 ELSE 0)
        /\ \A x \in 1..((n - 1) - 1 + 1) : a[x] = list[1 + x - 1]
    BY <2>1, SubSeqProperties DEF Front
  <2> HIDE DEF a
  <2>3. Len(a) = n - 1
    <3> HIDE DEF n
    <3>1. CASE n = 1
      BY <2>2, <3>1
    <3>2. CASE n > 1
      BY <1>1, <2>2, <3>2
    <3> QED
      BY <1>1, <3>1, <3>2
  <2>4. ASSUME NEW x \in 1..(n - 1) PROVE a[x] = list[x]
    <3>1. x \in 1..((n - 1) - 1 + 1) /\ 1 + x - 1 = x
      BY <1>1
    <3> QED
      BY <2>2, <3>1
  <2> QED
    BY <2>2, <2>3, <2>4
<1> HIDE DEF a
<1> DEFINE new == <<u>> \o a
<1>3. Moved(a, new, u, Len(a) + 1) /\ Len(new) = Len(a) + 1
  BY <1>2, PutInFront
<1> HIDE DEF new
<1>4. Moved(list, new, u, n) /\ Len(new) = n
  BY <1>1, <1>2, <1>3 DEF Moved
<1> QED
  BY <1>4 DEF new, a

LEMMA LRURange ==
    ASSUME NEW list \in Seq(Users), NEW v
    PROVE  v \in Range(list) <=> \E p \in 1..Len(list) : list[p] = v
<1>1. DOMAIN list = 1..Len(list)
  OBVIOUS
<1> QED
  BY <1>1 DEF Range

(* The keys that were before the one used are one place further from the   *)
(* front, the others where they were; the last may have gone.              *)
LEMMA MovedKeeps ==
    ASSUME NEW list, NEW uses, NEW u \in Users, LRUHolds(list, uses),
           NEW new, NEW last, Moved(list, new, u, last), Len(new) <= UserKeysCapacity,
           \/ last <= Len(list) /\ list[last] = u /\ Len(new) = Len(list)
           \/ /\ u \notin Range(list) /\ last = Len(new)
              /\ \/ Len(new) = Len(list) + 1
                 \/ Len(new) = Len(list) /\ Len(list) = UserKeysCapacity
    PROVE  LRUHolds(new, Append(uses, u))
<1> DEFINE t == Append(uses, u)
           n == Len(list)
           m == Len(new)
<1>1. /\ list \in Seq(Users) /\ uses \in Seq(Users) /\ new \in Seq(Users)
      /\ n \in Nat /\ m \in Nat /\ DOMAIN list = 1..n /\ DOMAIN new = 1..m
      /\ last \in Nat /\ 1 <= last /\ last <= m /\ last <= n + 1 /\ m \in {n, n + 1}
      /\ new[1] = u
  BY DEF LRUHolds, Moved
<1>2. /\ \A x \in 2..last : new[x] = list[x - 1]
      /\ \A x \in 1..m : x > last => x <= n /\ new[x] = list[x]
  BY DEF Moved
<1>3. /\ \A p, q \in 1..n : list[p] = list[q] => p = q
      /\ \A p \in 1..n : list[p] \in Range(uses) /\
                         SeenSince(uses, list[p]) = {list[x] : x \in 1..p}
  BY <1>1 DEF LRUHolds
<1>4. /\ \A v \in Range(uses) : \E i \in DOMAIN uses : IsLastUse(uses, v, i)
      /\ \A v \in Range(uses) \ Range(list) :
           n = UserKeysCapacity /\ Range(list) \subseteq SeenSince(uses, v)
  BY DEF LRUHolds
<1>5. \/ last <= n /\ list[last] = u /\ m = n
      \/ u \notin Range(list) /\ last = m /\ (m = n + 1 \/ (m = n /\ n = UserKeysCapacity))
  OBVIOUS
<1>6. t \in Seq(Users) /\ Range(t) = Range(uses) \cup {u}
  BY <1>1, AppendUses
<1>7. SeenSince(t, u) = {u} /\ \E i \in DOMAIN t : IsLastUse(t, u, i)
  <2>1. SeenSince(t, u) = {u} /\ IsLastUse(t, u, Len(uses) + 1)
    BY <1>1, SeenAfterUse
  <2> HIDE DEF t
  <2> QED
    BY <2>1 DEF IsLastUse
<1>8. ASSUME NEW v \in Range(uses), v # u
      PROVE  /\ SeenSince(t, v) = SeenSince(uses, v) \cup {u}
             /\ \E i \in DOMAIN t : IsLastUse(t, v, i)
  <2>1. PICK i \in DOMAIN uses : IsLastUse(uses, v, i)
    BY <1>4
  <2>2. IsLastUse(t, v, i) /\ SeenSince(t, v) = SeenSince(uses, v) \cup {u}
    BY <1>1, <1>8, <2>1, SeenAfterUse
  <2> QED
    BY <2>2 DEF IsLastUse
<1> HIDE DEF t, n, m
<1> DEFINE Old(x) == IF x <= last THEN x - 1 ELSE x
<1>9. ASSUME NEW x \in 2..m
      PROVE  Old(x) \in 1..n /\ new[x] = list[Old(x)] /\ list[Old(x)] # u
  <2>1. Old(x) \in 1..n /\ new[x] = list[Old(x)] /\ Old(x) # last
    BY <1>1, <1>2
  <2>2. CASE last <= n /\ list[last] = u
    BY <1>1, <1>3, <2>1, <2>2
  <2>3. CASE u \notin Range(list)
    BY <1>1, <2>1, <2>3, LRURange DEF n
  <2> QED
    BY <1>5, <2>1, <2>2, <2>3
<1>10. \A p, q \in 1..m : new[p] = new[q] => p = q
  <2> SUFFICES ASSUME NEW p \in 1..m, NEW q \in 1..m, new[p] = new[q]
               PROVE  p = q
    OBVIOUS
  <2>1. CASE p = 1 \/ q = 1
    BY <1>1, <1>9, <2>1
  <2>2. CASE p # 1 /\ q # 1
    <3>1. p \in 2..m /\ q \in 2..m
      BY <1>1, <2>2
    <3>2. /\ Old(p) \in 1..n /\ new[p] = list[Old(p)]
          /\ Old(q) \in 1..n /\ new[q] = list[Old(q)]
      BY <1>9, <3>1
    <3>3. Old(p) = Old(q)
      BY <1>3, <3>2
    <3> QED
      BY <1>1, <3>1, <3>3
  <2> QED
    BY <2>1, <2>2
<1>11. ASSUME NEW v \in Range(t)
       PROVE  \E i \in DOMAIN t : IsLastUse(t, v, i)
  BY <1>6, <1>7, <1>8
<1>12. Range(new) \subseteq Range(list) \cup {u}
  <2>1. ASSUME NEW x \in 1..m PROVE new[x] \in Range(list) \cup {u}
    <3>1. CASE x = 1
      BY <1>1, <3>1
    <3>2. CASE x # 1
      <4>1. x \in 2..m
        BY <1>1, <3>2
      <4> QED
        BY <1>1, <1>9, <4>1, LRURange DEF n
    <3> QED
      BY <3>1, <3>2
  <2> QED
    BY <1>1, <2>1 DEF Range
<1>13. ASSUME NEW x \in 1..m
       PROVE  new[x] \in Range(t) /\ SeenSince(t, new[x]) = {new[y] : y \in 1..x}
  <2>1. CASE x = 1
    <3>1. 1..x = {1}
      BY <2>1
    <3> QED
      BY <1>1, <1>6, <1>7, <2>1, <3>1
  <2>2. CASE x # 1
    <3>1. x \in 2..m
      BY <1>1, <2>2
    <3>2. Old(x) \in 1..n /\ new[x] = list[Old(x)] /\ list[Old(x)] # u
      BY <1>9, <3>1
    <3>3. /\ new[x] \in Range(t)
          /\ SeenSince(t, new[x]) = {list[y] : y \in 1..Old(x)} \cup {u}
      BY <1>3, <1>6, <1>8, <3>2
    <3>4. {new[y] : y \in 1..x} = {list[y] : y \in 1..Old(x)} \cup {u}
      <4>1. ASSUME NEW y \in 1..x
            PROVE  new[y] \in {list[z] : z \in 1..Old(x)} \cup {u}
        <5>1. CASE y = 1
          BY <1>1, <5>1
        <5>2. CASE y # 1
          <6>1. y \in 2..m /\ Old(y) <= Old(x)
            BY <1>1, <3>1, <5>2
          <6>2. Old(y) \in 1..n /\ new[y] = list[Old(y)]
            BY <1>9, <6>1
          <6>3. Old(y) \in 1..Old(x)
            BY <1>1, <3>2, <6>1, <6>2
          <6> QED
            BY <6>2, <6>3
        <5> QED
          BY <5>1, <5>2
      <4>2. u \in {new[y] : y \in 1..x}
        <5>1. 1 \in 1..x
          BY <1>1
        <5> QED
          BY <1>1, <5>1
      <4>3. ASSUME NEW z \in 1..Old(x)
            PROVE  list[z] \in {new[y] : y \in 1..x}
        <5>1. CASE z < last
          <6>1. z + 1 \in 2..last /\ z + 1 \in 1..x /\ (z + 1) - 1 = z
            BY <1>1, <3>1, <5>1
          <6>2. new[z + 1] = list[z]
            BY <1>2, <6>1
          <6> QED
            BY <6>1, <6>2
        <5>2. CASE z > last
          <6>1. z \in 1..m /\ z \in 1..x
            BY <1>1, <3>1, <5>2
          <6>2. new[z] = list[z]
            BY <1>2, <5>2, <6>1
          <6> QED
            BY <6>1, <6>2
        <5>3. CASE z = last
          <6>1. x > last
            BY <1>1, <3>1, <5>3
          <6>2. list[z] = u
            BY <1>1, <1>5, <3>1, <5>3, <6>1
          <6> QED
            BY <4>2, <6>2
        <5> QED
          BY <1>1, <5>1, <5>2, <5>3
      <4> QED
        BY <4>1, <4>2, <4>3
    <3> QED
      BY <3>3, <3>4
  <2> QED
    BY <2>1, <2>2
<1>14. ASSUME NEW v \in Range(t), v \notin Range(new)
       PROVE  m = UserKeysCapacity /\ Range(new) \subseteq SeenSince(t, v)
  <2>1. v # u /\ v \in Range(uses)
    <3>1. u \in Range(new)
      <4>1. 1 \in 1..m
        BY <1>1
      <4> QED
        BY <1>1, <4>1 DEF Range
    <3> QED
      BY <1>6, <1>14, <3>1
  <2>2. SeenSince(t, v) = SeenSince(uses, v) \cup {u}
    BY <1>8, <2>1
  <2>3. n = UserKeysCapacity /\ Range(list) \subseteq SeenSince(uses, v) /\ m = n
    <3>0. UserKeysCapacity \in Nat /\ m <= UserKeysCapacity
      BY EventAssumption DEF m
    <3>1. CASE v \notin Range(list)
      <4>1. n = UserKeysCapacity /\ Range(list) \subseteq SeenSince(uses, v)
        BY <1>4, <2>1, <3>1
      <4> QED
        BY <1>1, <3>0, <4>1
    <3>2. CASE v \in Range(list)
      <4>1. PICK q \in 1..n : list[q] = v
        BY <1>1, <3>2, LRURange DEF n
      <4>2. \A x \in 1..m : new[x] # v
        BY <1>1, <1>14, LRURange DEF m
      <4>3. ~(q < last)
        <5>1. ASSUME q < last PROVE FALSE
          <6>1. q + 1 \in 2..last /\ q + 1 \in 1..m /\ (q + 1) - 1 = q
            BY <1>1, <5>1
          <6> QED
            BY <1>2, <4>1, <4>2, <6>1
        <5> QED
          BY <5>1
      <4>4. q = last /\ m = n /\ n = UserKeysCapacity /\ last = n
        <5>1. CASE last <= n /\ list[last] = u /\ m = n
          <6>1. q > last
            BY <1>1, <2>1, <4>1, <4>3, <5>1
          <6>2. new[q] = list[q]
            BY <1>1, <1>2, <4>1, <5>1, <6>1
          <6> QED
            BY <1>1, <4>1, <4>2, <5>1, <6>2
        <5>2. CASE last = m /\ (m = n + 1 \/ (m = n /\ n = UserKeysCapacity))
          BY <1>1, <4>1, <4>3, <5>2
        <5> QED
          BY <1>5, <5>1, <5>2
      <4>5. SeenSince(uses, v) = {list[x] : x \in 1..n}
        BY <1>3, <4>1, <4>4
      <4>6. Range(list) = {list[x] : x \in 1..n}
        BY <1>1 DEF Range
      <4> QED
        BY <4>4, <4>5, <4>6
    <3> QED
      BY <3>1, <3>2
  <2> QED
    BY <1>12, <2>2, <2>3
<1>15. LRUHolds(new, t)
  BY <1>1, <1>6, <1>10, <1>11, <1>13, <1>14 DEF LRUHolds, m
<1> QED
  BY <1>15 DEF t

(* Nobody has been seen.                                                   *)
LEMMA EmptyHolds == LRUHolds(<<>>, <<>>)
<1>1. UserKeysCapacity \in Nat
  BY EventAssumption
<1>2. <<>> \in Seq(Users) /\ Len(<<>>) = 0 /\ DOMAIN <<>> = {}
  OBVIOUS
<1>3. Range(<<>>) = {}
  BY <1>2 DEF Range
<1> QED
  BY <1>1, <1>2, <1>3 DEF LRUHolds

(* LDLRUInsert keeps the LRU what it should be, whoever is seen.           *)
LEMMA InsertKeeps ==
    ASSUME NEW list, NEW uses, LRUHolds(list, uses), NEW u \in Users
    PROVE  LRUHolds(LRUInsert(list, u), Append(uses, u))
<1>1. /\ list \in Seq(Users) /\ uses \in Seq(Users) /\ Len(list) \in Nat
      /\ Len(list) <= UserKeysCapacity /\ UserKeysCapacity \in Nat
      /\ DOMAIN list = 1..Len(list)
  BY EventAssumption DEF LRUHolds
<1>2. CASE UserKeysCapacity = 0
  <2> DEFINE t == Append(uses, u)
  <2>1. LRUInsert(list, u) = list
    BY <1>2 DEF LRUInsert
  <2>2. Len(list) = 0 /\ DOMAIN list = {}
    BY <1>1, <1>2
  <2>3. Range(list) = {}
    BY <2>2 DEF Range
  <2>4. t \in Seq(Users) /\ Range(t) = Range(uses) \cup {u}
    BY <1>1, AppendUses
  <2>5. IsLastUse(t, u, Len(uses) + 1)
        /\ \A v, i : v # u /\ IsLastUse(uses, v, i) => IsLastUse(t, v, i)
    BY <1>1, SeenAfterUse
  <2> HIDE DEF t
  <2>6. ASSUME NEW v \in Range(t)
        PROVE  \E i \in DOMAIN t : IsLastUse(t, v, i)
    <3>1. CASE v = u
      BY <2>5, <3>1 DEF IsLastUse
    <3>2. CASE v # u
      <4>1. PICK i \in DOMAIN uses : IsLastUse(uses, v, i)
        BY <2>4, <3>2 DEF LRUHolds
      <4>2. IsLastUse(t, v, i)
        BY <2>5, <3>2, <4>1
      <4> QED
        BY <4>2 DEF IsLastUse
    <3> QED
      BY <3>1, <3>2
  <2>7. LRUHolds(list, t)
    BY <1>1, <1>2, <2>2, <2>3, <2>4, <2>6 DEF LRUHolds
  <2> QED
    BY <2>1, <2>7 DEF t
<1>3. CASE UserKeysCapacity # 0 /\ Contains(list, u)
  <2> DEFINE p == Place(list, u)
             new == <<u>> \o RemoveAt(list, p)
  <2>1. p \in 1..Len(list) /\ list[p] = u
    BY <1>1, <1>3 DEF Place, Contains
  <2>2. LRUInsert(list, u) = new
    BY <1>3 DEF LRUInsert
  <2> HIDE DEF p
  <2>3. Moved(list, new, u, p) /\ Len(new) = Len(list)
    BY <1>1, <2>1, MoveToFront
  <2> HIDE DEF new
  <2>4. p <= Len(list) /\ Len(new) <= UserKeysCapacity
    BY <1>1, <2>1, <2>3
  <2> QED
    BY <2>1, <2>2, <2>3, <2>4, MovedKeeps
<1>4. CASE UserKeysCapacity # 0 /\ ~Contains(list, u)
  <2>1. u \notin Range(list)
    BY <1>1, <1>4, LRURange DEF Contains
  <2>2. CASE Len(list) = UserKeysCapacity
    <3> DEFINE new == <<u>> \o Front(list)
    <3>1. LRUInsert(list, u) = new
      BY <1>4, <2>2 DEF LRUInsert
    <3>2. Len(list) >= 1
      BY <1>1, <1>4, <2>2
    <3>3. Moved(list, new, u, Len(list)) /\ Len(new) = Len(list)
      BY <1>1, <3>2, EvictLast
    <3> HIDE DEF new
    <3>4. Len(new) <= UserKeysCapacity
      BY <1>1, <3>3
    <3> QED
      BY <2>1, <2>2, <3>1, <3>3, <3>4, MovedKeeps
  <2>3. CASE Len(list) # UserKeysCapacity
    <3> DEFINE new == <<u>> \o list
    <3>1. LRUInsert(list, u) = new
      BY <1>4, <2>3 DEF LRUInsert
    <3>2. Moved(list, new, u, Len(list) + 1) /\ Len(new) = Len(list) + 1
      BY <1>1, PutInFront
    <3> HIDE DEF new
    <3> DEFINE n == Len(list)
    <3>3. n \in Nat /\ n <= UserKeysCapacity /\ n # UserKeysCapacity
          /\ UserKeysCapacity \in Nat
      BY <1>1, <2>3
    <3> HIDE DEF n
    <3>4. n + 1 <= UserKeysCapacity
      BY <3>3
    <3>5. Len(new) <= UserKeysCapacity
      BY <3>2, <3>4 DEF n
    <3> QED
      BY <2>1, <3>1, <3>2, <3>5, MovedKeeps
  <2> QED
    BY <2>2, <2>3
<1> QED
  BY <1>2, <1>3, <1>4

(* Places and distances are the same thing counted twice.                  *)
LEMMA HoldsIsExact ==
    ASSUME NEW list, NEW uses, LRUHolds(list, uses), NEW user \in Range(uses)
    PROVE  Contains(list, user) <=> Cardinality(SeenSince(uses, user)) <= UserKeysCapacity
<1>1. /\ list \in Seq(Users) /\ uses \in Seq(Users) /\ Len(list) \in Nat
      /\ Len(list) <= UserKeysCapacity /\ UserKeysCapacity \in Nat
      /\ DOMAIN list = 1..Len(list)
  BY EventAssumption DEF LRUHolds
<1>2. ASSUME NEW p \in Nat, p <= Len(list)
      PROVE  /\ IsFiniteSet({list[x] : x \in 1..p})
             /\ Cardinality({list[x] : x \in 1..p}) = p
  <2> DEFINE T == {list[x] : x \in 1..p}
             f == [x \in 1..p |-> list[x]]
  <2>1. 1..p \subseteq 1..Len(list)
    BY <1>1, <1>2
  <2>2. \A x, y \in 1..p : list[x] = list[y] => x = y
    BY <1>1, <2>1 DEF LRUHolds
  <2>3. f \in Bijection(1..p, T)
    BY <2>2 DEF Bijection, Injection, Surjection, IsInjective
  <2>4. ExistsBijection(1..p, T)
    BY <2>3 DEF ExistsBijection
  <2>5. 1 \in Int /\ p \in Int
    BY <1>2
  <2>6. IsFiniteSet(1..p) /\ Cardinality(1..p) = p
    <3>1. IsFiniteSet(1..p) /\ Cardinality(1..p) = IF 1 > p THEN 0 ELSE p - 1 + 1
      BY <2>5, FS_Interval, Zenon
    <3> QED
      BY <1>2, <3>1
  <2> HIDE DEF T, f
  <2>7. IsFiniteSet(T) /\ Cardinality(T) = Cardinality(1..p)
    BY <2>4, <2>6, FS_Bijection
  <2> QED
    BY <2>6, <2>7 DEF T
<1>3. CASE Contains(list, user)
  <2>1. PICK p \in 1..Len(list) : list[p] = user
    BY <1>3 DEF Contains
  <2>2. SeenSince(uses, user) = {list[x] : x \in 1..p}
    BY <1>1, <2>1 DEF LRUHolds
  <2>3. p \in Nat /\ p <= Len(list) /\ p <= UserKeysCapacity
    BY <1>1, <2>1
  <2>4. Cardinality({list[x] : x \in 1..p}) = p
    BY <1>2, <2>3
  <2> QED
    BY <1>3, <2>2, <2>3, <2>4
<1>4. CASE ~Contains(list, user)
  <2>1. user \notin Range(list)
    BY <1>1, <1>4, LRURange DEF Contains
  <2>2. Len(list) = UserKeysCapacity /\ Range(list) \subseteq SeenSince(uses, user)
    BY <2>1 DEF LRUHolds
  <2>3. Range(list) = {list[x] : x \in 1..Len(list)}
    BY <1>1 DEF Range
  <2>4. IsFiniteSet(Range(list)) /\ Cardinality(Range(list)) = Len(list)
    <3>1. Len(list) \in Nat /\ Len(list) <= Len(list)
      BY <1>1
    <3>2. /\ IsFiniteSet({list[x] : x \in 1..Len(list)})
          /\ Cardinality({list[x] : x \in 1..Len(list)}) = Len(list)
      BY <1>2, <3>1
    <3> QED
      BY <2>3, <3>2
  <2>5. PICK i \in DOMAIN uses : IsLastUse(uses, user, i)
    BY DEF LRUHolds
  <2>6. LastUse(uses, user) = i
    BY <1>1, <2>5, LastUseUnique
  <2>7. i \in 1..Len(uses) /\ Len(uses) \in Nat /\ uses[i] = user
    BY <1>1, <2>5 DEF IsLastUse
  <2>8. SeenSince(uses, user) = {uses[j] : j \in i..Len(uses)}
    BY <2>6 DEF SeenSince
  <2>9. user \in SeenSince(uses, user)
    <3>1. i \in i..Len(uses)
      BY <2>7
    <3> QED
      BY <2>7, <2>8, <3>1
  <2>10. IsFiniteSet(SeenSince(uses, user))
    <3> DEFINE T == {uses[j] : j \in i..Len(uses)}
               f == [j \in i..Len(uses) |-> uses[j]]
    <3>1. f \in Surjection(i..Len(uses), T)
      BY DEF Surjection
    <3>2. i \in Int /\ Len(uses) \in Int
      BY <2>7
    <3>3. IsFiniteSet(i..Len(uses))
      BY <3>2, FS_Interval, Zenon
    <3> HIDE DEF T, f
    <3>4. IsFiniteSet(T)
      BY <3>1, <3>3, FS_Surjection
    <3> QED
      BY <2>8, <3>4 DEF T
  <2> DEFINE R == Range(list) \cup {user}
  <2>11. IsFiniteSet(R) /\ Cardinality(R) = Len(list) + 1
    BY <2>1, <2>4, FS_AddElement
  <2>12. R \in SUBSET SeenSince(uses, user)
    BY <2>2, <2>9
  <2> HIDE DEF R
  <2>13. Cardinality(R) <= Cardinality(SeenSince(uses, user))
    BY <2>10, <2>12, FS_Subset
  <2>14. Cardinality(SeenSince(uses, user)) \in Nat
    BY <2>10, FS_CardinalityType
  <2> QED
    BY <1>1, <1>4, <2>2, <2>11, <2>13, <2>14
<1> QED
  BY <1>3, <1>4

(* A call touches the LRU with one user or clears it, and nothing else     *)
(* does.                                                                   *)
LEMMA LRUStep ==
    ASSUME LRUInv, TimesOK, [Next]_vars
    PROVE  LRUInv'
<1>0. CallsOK /\ LRUHolds(userKeys, seen)
  BY DEF LRUInv
<1>1. ASSUME NEW now
      PROVE  LRUHolds(KeysAt(now), IF KeysExpired(now) THEN <<>> ELSE seen)
  BY <1>0, EmptyHolds DEF KeysAt
<1>2. ASSUME NEW t \in Threads, NEW user \in Users, NEW now, KeyUsed(user, now),
             NEW ok, leave(t, ok)
      PROVE  LRUInv'
  <2>1. /\ userKeys' = LRUInsert(KeysAt(now), user)
        /\ seen' = Append(IF KeysExpired(now) THEN <<>> ELSE seen, user)
    BY <1>2 DEF KeyUsed
  <2>2. LRUHolds(userKeys', seen')
    BY <1>1, <2>1, InsertKeeps
  <2>3. CallsOK'
    BY <1>0, <1>2, LeaveKeeps
  <2> QED
    BY <2>2, <2>3 DEF LRUInv, LRUHolds
<1>3. ASSUME CallsOK', UNCHANGED <<userKeys, seen>>
      PROVE  LRUInv'
  BY <1>0, <1>3 DEF LRUInv, LRUHolds
<1>4. ASSUME NEW t \in Threads,
             \/ \E converted \in SUBSET Debugged :
                  processEvaluation(t, converted) \/ evaluationFailsAtSub(t, converted)
             \/ evaluationFailsLate(t) \/ track(t) \/ trackFails(t)
      PROVE  LRUInv'
  <2>1. /\ call[t] # NULL /\ call[t].request.kind \in {"evaluate", "track"}
        /\ leave(t, TRUE) \/ leave(t, FALSE)
        /\ KeyUsed(call[t].request.user, call[t].now)
    BY <1>4 DEF processEvaluation, evaluationFailsAtSub, evaluationFailsLate, track,
       trackFails, InLock
  <2>2. call[t].request.user \in Users
    BY <1>0, <2>1, RequestType
  <2> QED
    BY <1>2, <2>1, <2>2
<1>5. ASSUME NEW t \in Threads, keyFails(t)
      PROVE  LRUInv'
  <2>1. /\ userKeys' = KeysAt(call[t].now) /\ leave(t, FALSE)
        /\ seen' = IF KeysExpired(call[t].now) THEN <<>> ELSE seen
    BY <1>5 DEF keyFails
  <2>2. LRUHolds(userKeys', seen')
    BY <1>1, <2>1
  <2>3. CallsOK'
    BY <1>0, <2>1, LeaveKeeps
  <2> QED
    BY <2>2, <2>3 DEF LRUInv, LRUHolds
<1>6. ASSUME NEW t \in Threads,
             failsAtOnce(t) \/ identify(t) \/ alias(t) \/ bundleEventPayload(t)
      PROVE  LRUInv'
  <2>1. (leave(t, TRUE) \/ leave(t, FALSE)) /\ UNCHANGED <<userKeys, seen>>
    BY <1>6 DEF failsAtOnce, identify, alias, bundleEventPayload, keys
  <2> QED
    BY <1>0, <1>3, <2>1, LeaveKeeps
<1>7. ASSUME NEW t \in Threads, NEW request \in Requests, enter(t, request)
      PROVE  LRUInv'
  <2>1. UNCHANGED <<userKeys, seen>>
    BY <1>7 DEF enter, keys, history
  <2> QED
    BY <1>0, <1>3, <1>7, <2>1, EnterKeeps
<1>8. CASE tick
  <2>1. UNCHANGED <<userKeys, seen>>
    BY <1>8 DEF tick, keys, history
  <2> QED
    BY <1>0, <1>3, <1>8, <2>1, TickKeeps
<1>9. ASSUME UNCHANGED <<clock, call, userKeys, seen>>
      PROVE  LRUInv'
  <2>1. CallsOK'
    BY <1>0, <1>9 DEF CallsOK
  <2> QED
    BY <1>3, <1>9, <2>1
<1>10. ASSUME (\E time \in ServerTimes : setServerTime(time)) \/ UNCHANGED vars
       PROVE  LRUInv'
  <2>1. UNCHANGED <<clock, call, userKeys, seen>>
    BY <1>10 DEF setServerTime, vars, keys, history
  <2> QED
    BY <1>9, <2>1
<1> QED
  BY <1>4, <1>5, <1>6, <1>7, <1>8, <1>10 DEF Next, Call

(* The place of a user's key is the number of users seen since its last    *)
(* use.                                                                    *)
THEOREM LRUInvHolds == Spec => []LRUInv
<1>1. Init => LRUInv
  <2>1. Init => CallsOK
    BY SummaryInit DEF SummaryInv
  <2> QED
    BY <2>1, EmptyHolds DEF Init, LRUInv
<1>2. LRUInv /\ SummaryInv /\ [Next]_vars => LRUInv'
  BY LRUStep DEF SummaryInv
<1> QED
  BY <1>1, <1>2, SummaryInvHolds, PTL DEF Spec

(* The LRU holds exactly the UserKeysCapacity users seen last, so that a   *)
(* user is indexed again only when it must be.                             *)
THEOREM LRUIsExact == Spec => []LRUExact
<1>1. ASSUME LRUInv PROVE LRUExact
  <2>1. LRUHolds(userKeys, seen)
    BY <1>1 DEF LRUInv
  <2>2. \A user \in Range(seen) : Contains(userKeys, user)
          <=> Cardinality(SeenSince(seen, user)) <= UserKeysCapacity
    BY <2>1, HoldsIsExact
  <2>3. Range(userKeys) \subseteq Range(seen)
    BY <2>1 DEF LRUHolds, Range
  <2> QED
    BY <2>2, <2>3 DEF LRUExact
<1>2. LRUInv => LRUExact
  BY <1>1
<1> QED
  BY <1>2, LRUInvHolds, PTL

-----------------------------------------------------------------------------
(* The delivery of the payloads (Analytics): every event is in one place   *)
(* and reaches the service under one payload identifier.  Its invariant    *)
(* adds what the service can have seen of the buffer, and when the buffer  *)
(* may be overwritten.                                                     *)

(* Accounted says the same as OnePlace, which goes pair by pair.           *)
LEMMA AccountedByPairs == Accounted <=> OnePlace
<1>1. 1..6 = {1, 2, 3, 4, 5, 6}
  OBVIOUS
<1>2. /\ Places[1] = unqueued /\ Places[2] = queue /\ Places[3] = buffer
      /\ Places[4] = delivered /\ Places[5] = discarded /\ Places[6] = lost
  BY DEF Places
<1>3. UNION {Places[i] : i \in 1..6}
        = unqueued \cup queue \cup buffer \cup delivered \cup discarded \cup lost
  BY <1>1, <1>2
<1>4. ASSUME Accounted
      PROVE  OnePlace
  <2>1. \A i, j \in 1..6 : i < j /\ ~(i = 3 /\ j = 6) => Places[i] \cap Places[j] = {}
    BY <1>4, <1>1 DEF Accounted
  <2> QED
    BY <1>4, <1>2, <1>3, <2>1 DEF Accounted, OnePlace
<1>5. ASSUME OnePlace
      PROVE  Accounted
  <2>1. \A i, j \in 1..6 : i < j /\ ~(i = 3 /\ j = 6) => Places[i] \cap Places[j] = {}
    BY <1>5, <1>1, <1>2 DEF OnePlace
  <2>2. \A i, j \in 1..6 : i # j /\ {i, j} # {3, 6} => Places[i] \cap Places[j] = {}
    BY <2>1
  <2> QED
    BY <1>5, <1>3, <2>2 DEF Accounted, OnePlace
<1> QED
  BY <1>4, <1>5

(* Nothing has happened to any event at first.                             *)
LEMMA DeliveryStarts == DeliveryInit => Inv
<1> SUFFICES ASSUME DeliveryInit
             PROVE  Inv
  OBVIOUS
<1>1. Types
  BY DEF DeliveryInit, Types
<1>2. OneIdPerEvent /\ ReceivedIsPast /\ OnePlace
  BY DEF DeliveryInit, OneIdPerEvent, ReceivedIsPast, OnePlace
<1>3. BufferIsKept /\ WaitIsTrue
  BY DEF DeliveryInit, BufferIsKept, WaitIsTrue
<1> QED
  BY <1>1, <1>2, <1>3 DEF Inv

-----------------------------------------------------------------------------
(* One lemma for each kind of step.                                        *)

(* Queueing an event moves it; a flush moves nothing.                      *)
LEMMA ApplicationKeeps ==
    ASSUME Inv, (\E e \in Events : queueEvent(e)) \/ LDClientFlush
    PROVE  Inv'
<1> USE DEF Inv, Types, OneIdPerEvent, ReceivedIsPast, OnePlace,
        BufferIsKept, WaitIsTrue, settled
<1>1. ASSUME NEW e \in Events, queueEvent(e)
      PROVE  Inv'
  BY <1>1 DEF queueEvent
<1>2. CASE LDClientFlush
  BY <1>2 DEF LDClientFlush
<1> QED
  BY <1>1, <1>2

(* A bundle: what was in the buffer is lost already, and nothing of the    *)
(* new payload has reached the service.                                    *)
LEMMA PollBundleKeeps ==
    ASSUME Inv, pollBundle \/ pollBundleFails
    PROVE  Inv'
<1> USE DEF Bundle, MayBundle, settled
<1>1. /\ buffer \subseteq lost
      /\ queue' = {} /\ buffer' = queue /\ payloadId' = payloadId + 1
      /\ lost' \in {lost, lost \cup queue}
      /\ active' \/ lost' = lost \cup queue
      /\ active' => lost' = lost
      /\ ~failed /\ ~stopped
      /\ UNCHANGED <<failed, waited, stopped, unqueued, delivered, discarded,
                     received, sinceFailure>>
  BY DEF pollBundle, pollBundleFails, Inv, BufferIsKept
<1>2. Types'
  <2>1. active' \in BOOLEAN
    BY DEF Inv, Types, pollBundle, pollBundleFails
  <2> QED
    BY <1>1, <2>1 DEF Inv, Types
<1>3. OnePlace' /\ BufferIsKept'
  BY <1>1 DEF Inv, Types, OnePlace, BufferIsKept
<1>4. OneIdPerEvent' /\ ReceivedIsPast' /\ WaitIsTrue'
  BY <1>1 DEF Inv, Types, OneIdPerEvent, ReceivedIsPast, WaitIsTrue
<1> QED
  BY <1>2, <1>3, <1>4 DEF Inv

(* A post: the service sees the buffer under its identifier, which is the  *)
(* one under which it has seen these events if it has seen them before.    *)
LEMMA PostKeeps ==
    ASSUME Inv, pollRetry \/ serviceReceives
    PROVE  Inv'
<1>1. CASE pollRetry
  BY <1>1 DEF Inv, Types, OneIdPerEvent, ReceivedIsPast,
     OnePlace, BufferIsKept, WaitIsTrue, settled, pollRetry
<1>2. CASE serviceReceives
  <2> USE <1>2 DEF serviceReceives
  <2>1. Types' /\ OnePlace' /\ BufferIsKept' /\ WaitIsTrue'
    BY DEF Inv, Types, OnePlace, BufferIsKept, WaitIsTrue
  <2>2. ReceivedIsPast'
    BY DEF Inv, Types, OnePlace, ReceivedIsPast
  <2>3. OneIdPerEvent'
    BY DEF Inv, Types, OneIdPerEvent, ReceivedIsPast
  <2> QED
    BY <2>1, <2>2, <2>3 DEF Inv
<1> QED
  BY <1>1, <1>2

(* done(): the payload moves on from the buffer, or stays for the retry.   *)
LEMMA DoneKeeps ==
    ASSUME Inv,
           doneSuccess \/ doneFirstFailure \/ doneSecondFailure
    PROVE  Inv'
<1> USE Times DEF Inv, Types, OneIdPerEvent, ReceivedIsPast,
        OnePlace, BufferIsKept, WaitIsTrue, settled
<1>1. CASE doneSuccess
  BY <1>1 DEF doneSuccess
<1>2. CASE doneFirstFailure
  <2> USE <1>2 DEF doneFirstFailure
  <2>1. CASE failed' = TRUE /\ waited' = 0 /\ ~LongUptime
    BY <2>1
  <2>2. CASE failed' = TRUE /\ waited' = RetryWait + 1 /\ LongUptime
    <3>1. waited' \in Nat
      BY <2>2
    <3>2. Types'
      BY <2>2, <3>1
    <3> QED
      BY <2>2, <3>2
  <2>3. CASE failed' = FALSE /\ waited' = 0 /\ LongUptime
    BY <2>3
  <2> QED
    BY <2>1, <2>2, <2>3
<1>3. CASE doneSecondFailure
  BY <1>3 DEF doneSecondFailure
<1> QED
  BY <1>1, <1>2, <1>3

(* The thread stops, or time passes.                                       *)
LEMMA OtherKeeps ==
    ASSUME Inv, stop \/ Tick \/ UNCHANGED deliveryVars
    PROVE  Inv'
<1> USE Times DEF Inv, Types, OneIdPerEvent, ReceivedIsPast,
        OnePlace, BufferIsKept, WaitIsTrue, settled
<1>1. CASE stop
  BY <1>1 DEF stop
<1>2. CASE Tick
  BY <1>2 DEF Tick, Older
<1>3. CASE UNCHANGED deliveryVars
  BY <1>3 DEF deliveryVars
<1> QED
  BY <1>1, <1>2, <1>3

-----------------------------------------------------------------------------

(* The inductive invariant holds throughout.                               *)
THEOREM DeliveryInvHolds == DeliverySpec => []Inv
<1>1. Inv /\ [DeliveryNext]_deliveryVars => Inv'
  BY ApplicationKeeps, PollBundleKeeps, PostKeeps, DoneKeeps, OtherKeeps DEF DeliveryNext
<1> QED
  BY <1>1, DeliveryStarts, PTL DEF DeliverySpec

(* A retry reaches the service under the identifier of the first attempt,  *)
(* and no event under two, however posts, failures and stops interleave.   *)
THEOREM OneIdentifier == DeliverySpec => []OneIdPerEvent
<1>1. Inv => OneIdPerEvent
  BY DEF Inv
<1> QED
  BY <1>1, DeliveryInvHolds, PTL

(* No event vanishes and none is settled twice (events.c).                 *)
THEOREM EventsAccounted == DeliverySpec => []Accounted
<1>1. Inv => Accounted
  BY AccountedByPairs DEF Inv
<1> QED
  BY <1>1, DeliveryInvHolds, PTL

(* Until the clock passes 2^32 milliseconds a failed payload waits before  *)
(* it is posted again.  Past that it does not: see LongUptime.cfg.         *)
THEOREM RetryIsSpaced ==
    ASSUME ~LongUptime
    PROVE  DeliverySpec => RetryWaits
<1>1. Inv /\ [DeliveryNext]_deliveryVars
        => [(~active /\ active' /\ failed) => sinceFailure > RetryWait]_deliveryVars
  <2> SUFFICES ASSUME Inv, DeliveryNext, ~active, active', failed
               PROVE  sinceFailure > RetryWait
    OBVIOUS
  <2>1. pollRetry
    BY DEF DeliveryNext, queueEvent, LDClientFlush, pollBundle, pollBundleFails, Bundle,
       MayBundle, serviceReceives, doneSuccess, doneFirstFailure,
       doneSecondFailure, stop, Tick
  <2> QED
    BY <2>1 DEF pollRetry, Inv, WaitIsTrue
<1> QED
  BY <1>1, DeliveryInvHolds, PTL DEF DeliverySpec, RetryWaits

=============================================================================
