--------------------------- MODULE EventProcessor ---------------------------
(***************************************************************************)
(* The event processor (event_processor.c) and its LRU of user keys        *)
(* (lru.c).  Any thread may evaluate a flag, track, identify or alias; the *)
(* network thread takes the payload.  Each call reads the clock first and  *)
(* takes the lock afterwards, so that calls enter the lock in another      *)
(* order than the one of their times.  An allocation may fail half way     *)
(* through a call.                                                         *)
(***************************************************************************)
EXTENDS Naturals, Sequences, FiniteSets, SequencesExt, TLC

CONSTANTS
    Threads, Users, Flags,
    Missing,        \* flags the store does not have
    Tracked,        \* flags with trackEvents
    Debugged,       \* flags with debugEventsUntilDate
    DebugUntil,     \* that date
    ServerTimes,    \* the dates the service may answer with
    EventsCapacity, UserKeysCapacity, UserKeysFlushInterval,
    MaxTime,        \* bound: the clock stops here
    MaxCalls,       \* bound: calls made
    NULL

ASSUME EventAssumption ==
    /\ Missing \cup Tracked \cup Debugged \subseteq Flags
    /\ Missing \cap (Tracked \cup Debugged) = {}
    /\ {EventsCapacity, UserKeysCapacity, UserKeysFlushInterval, DebugUntil,
        MaxTime, MaxCalls} \cup ServerTimes \subseteq Nat

VARIABLES
    clock,          \* Unix time, never 0
    call,           \* per thread: its request and the time it read, or NULL
    calls,          \* calls made so far
    events,         \* the queue
    summaryCounters,    \* flag :> count, for the flags that have an entry
    summaryStart,       \* 0: not started
    userKeys,           \* the LRU, the most recently used first
    lastUserKeyFlush, lastServerTime,
    succeeded,      \* history: evaluations of calls that returned TRUE
    gaveUp,         \* history: evaluations of calls that returned FALSE
    sent,           \* history: evaluations in the summaries taken away
    seen,           \* history: users of this LRU period, latest last
    lastEnd         \* history: endDate of the summary taken last

queued == <<events, summaryCounters, summaryStart>>
keys == <<userKeys, lastUserKeyFlush>>
returned == <<succeeded, gaveUp>>
history == <<returned, sent, seen, lastEnd>>
vars == <<clock, call, calls, queued, keys, lastServerTime, history>>

Init ==
    /\ clock = 1
    /\ call = [t \in Threads |-> NULL] /\ calls = 0
    /\ events = <<>>
    /\ summaryCounters = <<>> /\ summaryStart = 0
    /\ userKeys = <<>>
    /\ lastUserKeyFlush = 0     \* the monotonic clock, far behind
    /\ lastServerTime = 0
    /\ succeeded = [f \in Flags |-> 0] /\ gaveUp = [f \in Flags |-> 0]
    /\ sent = [f \in Flags |-> 0]
    /\ seen = <<>> /\ lastEnd = 0

-----------------------------------------------------------------------------
(* Calls: the clock is read before the lock is taken.                      *)

\* An evaluation may have evaluated a prerequisite on the way (sub).
Requests ==
    [kind : {"evaluate"}, user : Users, flag : Missing, sub : {NULL}]
      \cup [kind : {"evaluate"}, user : Users, flag : Flags \ Missing,
            sub : (Flags \ Missing) \cup {NULL}]
      \cup [kind : {"track"}, user : Users]
      \cup [kind : {"identify", "alias", "bundle"}]

enter(t, request) ==
    /\ call[t] = NULL
    /\ calls < MaxCalls /\ calls' = calls + 1
    /\ call' = [call EXCEPT ![t] = [request |-> request, now |-> clock]]
    /\ UNCHANGED <<clock, queued, keys, lastServerTime, history>>

InLock(t, kind) == call[t] # NULL /\ call[t].request.kind = kind

Occurrences(flags, f) == Cardinality({i \in DOMAIN flags : flags[i] = f})

\* The evaluations a call is to count: the flag and its prerequisite.
Asked(request) ==
    IF request.kind # "evaluate" THEN <<>>
    ELSE IF request.sub = NULL THEN <<request.flag>>
    ELSE <<request.flag, request.sub>>

With(numbers, flags) == [f \in Flags |-> numbers[f] + Occurrences(flags, f)]

\* The call returns ok to its caller.
leave(t, ok) ==
    /\ call' = [call EXCEPT ![t] = NULL]
    /\ LET asked == Asked(call[t].request)
       IN  IF ok THEN succeeded' = With(succeeded, asked) /\ UNCHANGED gaveUp
                 ELSE gaveUp' = With(gaveUp, asked) /\ UNCHANGED succeeded
    /\ UNCHANGED <<clock, calls>>

tick ==
    /\ clock < MaxTime
    /\ clock' = clock + 1
    /\ UNCHANGED <<call, calls, queued, keys, lastServerTime, history>>

-----------------------------------------------------------------------------
(* LDLRUInsert and LDLRUClear, and LDi_maybeMakeIndexEvent.                *)

\* The node HASH_FIND yields.
Place(list, key) == CHOOSE i \in DOMAIN list : list[i] = key

\* Fault: a key that is used again keeps its place.
LRUInsertKeepsPlace(list, key) ==
    IF UserKeysCapacity = 0 \/ Contains(list, key) THEN list
    ELSE IF Len(list) = UserKeysCapacity THEN <<key>> \o Front(list)
    ELSE <<key>> \o list

\* The key moves to the front; at capacity a new key evicts the last.
LRUInsert(list, key) ==
    IF UserKeysCapacity = 0 THEN list
    ELSE IF Contains(list, key) THEN <<key>> \o RemoveAt(list, Place(list, key))
    ELSE IF Len(list) = UserKeysCapacity THEN <<key>> \o Front(list)
    ELSE <<key>> \o list

KeysExpired(now) == now > lastUserKeyFlush + UserKeysFlushInterval

\* The keys LDLRUInsert finds, after LDLRUClear if they have expired.
KeysAt(now) == IF KeysExpired(now) THEN <<>> ELSE userKeys

\* An event is reduced to its kind and its subject.
newBaseEvent(kind, of) == [kind |-> kind, of |-> of]

IndexEvents(user, now) ==
    IF Contains(KeysAt(now), user) THEN <<>> ELSE << newBaseEvent("index", user) >>

\* What maybeMakeIndexEvent does to the LRU, also when it then fails.
KeyUsed(user, now) ==
    /\ userKeys' = LRUInsert(KeysAt(now), user)
    /\ lastUserKeyFlush' = IF KeysExpired(now) THEN now ELSE lastUserKeyFlush
    /\ seen' = Append(IF KeysExpired(now) THEN <<>> ELSE seen, user)

-----------------------------------------------------------------------------
(* LDi_addEvent, LDi_summarizeEvent and LDi_possiblyQueueEvent.            *)

addEvent(list, event) ==
    IF Len(list) >= EventsCapacity THEN list ELSE Append(list, event)

AddAll(new) == events' = FoldLeft(addEvent, events, new)

CountOf(counters, f) == IF f \in DOMAIN counters THEN counters[f] ELSE 0

\* The counters after these flags, one after the other.  half: flags whose
\* entry was made before memory ran out.
Summarized(flags, half) ==
    [f \in DOMAIN summaryCounters \cup Range(flags) \cup half |->
       CountOf(summaryCounters, f) + Occurrences(flags, f)]

StartAfterFirst == IF summaryStart = 0 THEN clock ELSE summaryStart

DebugWanted(f, now) ==
    f \in Debugged /\ now < DebugUntil /\ lastServerTime < DebugUntil

\* A debug event is queued when its conversion fails, and freed when it
\* succeeds; with trackEvents it is a duplicate.  converted: the flags whose
\* event could be converted.
DebugEvents(f, now, converted) ==
    IF DebugWanted(f, now) /\ f \notin converted
    THEN << newBaseEvent("none", f) >> ELSE <<>>

PossiblyQueued(f, now, converted) ==
    DebugEvents(f, now, converted) \o
      (IF f \in Tracked THEN << newBaseEvent("feature", f) >> ELSE <<>>)

Count(flags, half) ==
    /\ summaryCounters' = Summarized(flags, half)
    /\ summaryStart' = StartAfterFirst

-----------------------------------------------------------------------------
(* LDi_processEvaluation.                                                  *)

\* The flag, then the prerequisites it evaluated.
processEvaluation(t, converted) ==
    /\ InLock(t, "evaluate")
    /\ LET c == call[t].request
           now == call[t].now
           sub == IF c.sub = NULL THEN <<>> ELSE <<c.sub>>
           known == IF c.flag \in Missing THEN <<>> ELSE <<c.flag>>
       IN  /\ KeyUsed(c.user, now)
           /\ Count(<<c.flag>> \o sub, {})
           /\ AddAll(IndexEvents(c.user, now) \o
                FlattenSeq([i \in 1..Len(known \o sub) |->
                              PossiblyQueued((known \o sub)[i], now, converted)]))
    /\ leave(t, TRUE)
    /\ UNCHANGED <<lastServerTime, sent, lastEnd>>

\* No memory for the first event or the payload: nothing has changed.
failsAtOnce(t) ==
    /\ call[t] # NULL /\ ~InLock(t, "track")
    /\ leave(t, FALSE)
    /\ UNCHANGED <<queued, keys, lastServerTime, sent, seen, lastEnd>>

\* No memory for the user's key: the keys may have been cleared.
keyFails(t) ==
    /\ InLock(t, "evaluate") \/ InLock(t, "track")
    /\ LET now == call[t].now
       IN  /\ userKeys' = KeysAt(now)
           /\ lastUserKeyFlush' = IF KeysExpired(now) THEN now
                                                      ELSE lastUserKeyFlush
           /\ seen' = IF KeysExpired(now) THEN <<>> ELSE seen
    /\ leave(t, FALSE)
    /\ UNCHANGED <<queued, lastServerTime, sent, lastEnd>>

\* No memory for the index event or the summary: the key stays in the LRU.
\* The summary may have been started, with an entry that counts nothing.
evaluationFailsLate(t) ==
    /\ InLock(t, "evaluate")
    /\ KeyUsed(call[t].request.user, call[t].now)
    /\ LET f == call[t].request.flag
       IN  \/ UNCHANGED <<summaryStart, summaryCounters>>
           \/ /\ summaryStart' = StartAfterFirst
              /\ summaryCounters' \in {summaryCounters, Summarized(<<>>, {f})}
    /\ leave(t, FALSE)
    /\ UNCHANGED <<events, lastServerTime, sent, lastEnd>>

\* No memory to summarise a prerequisite: the flag itself is done with.
evaluationFailsAtSub(t, converted) ==
    /\ InLock(t, "evaluate") /\ call[t].request.sub # NULL
    /\ LET c == call[t].request
           now == call[t].now
       IN  /\ KeyUsed(c.user, now)
           /\ \E half \in SUBSET {c.sub} : Count(<<c.flag>>, half)
           /\ AddAll(IndexEvents(c.user, now) \o
                (IF c.flag \in Missing THEN <<>>
                                       ELSE PossiblyQueued(c.flag, now, converted)))
    /\ leave(t, FALSE)
    /\ UNCHANGED <<lastServerTime, sent, lastEnd>>

-----------------------------------------------------------------------------
(* LDi_track, LDi_identify and LDi_alias.                                  *)

newCustomEvent(user) == newBaseEvent("custom", user)

\* Whom they are about plays no part in what follows.
newIdentifyEvent == newBaseEvent("identify", NULL)
newAliasEvent == newBaseEvent("alias", NULL)

track(t) ==
    /\ InLock(t, "track")
    /\ KeyUsed(call[t].request.user, call[t].now)
    /\ AddAll(<< newCustomEvent(call[t].request.user) >>
                \o IndexEvents(call[t].request.user, call[t].now))
    /\ leave(t, TRUE)
    /\ UNCHANGED <<summaryCounters, summaryStart, lastServerTime, sent,
                   lastEnd>>

\* No memory for the index or the custom event: neither is queued.
trackFails(t) ==
    /\ InLock(t, "track")
    /\ KeyUsed(call[t].request.user, call[t].now)
    /\ leave(t, FALSE)
    /\ UNCHANGED <<queued, lastServerTime, sent, lastEnd>>

identify(t) ==
    /\ InLock(t, "identify")
    /\ AddAll(<< newIdentifyEvent >>)
    /\ leave(t, TRUE)
    /\ UNCHANGED <<summaryCounters, summaryStart, keys, lastServerTime, sent, seen,
                   lastEnd>>

alias(t) ==
    /\ InLock(t, "alias")
    /\ AddAll(<< newAliasEvent >>)
    /\ leave(t, TRUE)
    /\ UNCHANGED <<summaryCounters, summaryStart, keys, lastServerTime, sent, seen,
                   lastEnd>>

-----------------------------------------------------------------------------
(* LDi_bundleEventPayload and LDi_setServerTime, by the network thread.    *)

\* Fault: the counters that were sent are kept.
CountersAfterBundleKept == summaryCounters

CountersAfterBundle == <<>>

\* Fault: the next period starts with this one.
StartAfterBundleKept == summaryStart

StartAfterBundle == 0

\* The counters of one period, from the first event to the bundle.
prepareSummaryEvent(now) ==
    [startDate |-> summaryStart, endDate |-> now, features |-> summaryCounters]

bundleEventPayload(t) ==
    /\ InLock(t, "bundle")
    /\ events' = <<>>
    /\ IF DOMAIN summaryCounters = {}
         THEN UNCHANGED <<summaryCounters, summaryStart, sent, lastEnd>>
         ELSE LET summary == prepareSummaryEvent(call[t].now)
              IN  /\ sent' = [f \in Flags |-> sent[f] + CountOf(summary.features, f)]
                  /\ summaryCounters' = CountersAfterBundle
                  /\ summaryStart' = StartAfterBundle
                  /\ lastEnd' = summary.endDate
    /\ leave(t, TRUE)
    /\ UNCHANGED <<keys, lastServerTime, seen>>

setServerTime(time) ==
    /\ lastServerTime' = time
    /\ UNCHANGED <<clock, call, calls, queued, keys, history>>

-----------------------------------------------------------------------------

Call(t) ==
    \/ \E request \in Requests : enter(t, request)
    \/ \E converted \in SUBSET Debugged :
         processEvaluation(t, converted) \/ evaluationFailsAtSub(t, converted)
    \/ failsAtOnce(t) \/ keyFails(t) \/ evaluationFailsLate(t)
    \/ track(t) \/ trackFails(t) \/ identify(t) \/ alias(t)
    \/ bundleEventPayload(t)

Next ==
    \/ \E t \in Threads : Call(t)
    \/ \E time \in ServerTimes : setServerTime(time)
    \/ tick

Spec == Init /\ [][Next]_vars

\* Neither threads nor users are told apart.
Symmetry == Permutations(Threads) \cup Permutations(Users)

-----------------------------------------------------------------------------
(* Properties.                                                             *)

(* The types; the queue never outgrows its capacity, whoever adds to it.   *)
TypeOK ==
    /\ clock \in 1..MaxTime /\ calls \in 0..MaxCalls
    /\ \A t \in Threads : call[t] # NULL =>
         call[t].request \in Requests /\ call[t].now \in 1..MaxTime
    /\ Len(events) <= EventsCapacity
    /\ DOMAIN summaryCounters \subseteq Flags
    /\ summaryStart \in 0..MaxTime
    /\ userKeys \in Seq(Users) /\ Len(userKeys) <= UserKeysCapacity
    /\ lastUserKeyFlush \in 0..MaxTime /\ lastServerTime \in {0} \cup ServerTimes

(* When LDi_processEvaluation returns TRUE, its evaluation and those of    *)
(* its prerequisites are counted once: in the counters or in one summary   *)
(* taken from them.  When it returns FALSE, having failed anywhere on its  *)
(* way, they are counted at most once.                                     *)
SummaryExact ==
    \A f \in Flags :
        /\ succeeded[f] <= sent[f] + CountOf(summaryCounters, f)
        /\ sent[f] + CountOf(summaryCounters, f) <= succeeded[f] + gaveUp[f]

(* Summaries do not overlap: one starts no earlier than the summary before *)
(* it ended, though the end is the time read before the lock was taken and *)
(* the start a time read inside it.                                        *)
SummariesFollow == summaryStart # 0 => lastEnd <= summaryStart

IsLastUse(uses, user, i) ==
    /\ i \in DOMAIN uses /\ uses[i] = user
    /\ \A j \in DOMAIN uses : j > i => uses[j] # user
LastUse(uses, user) == CHOOSE i \in DOMAIN uses : IsLastUse(uses, user, i)
SeenSince(uses, user) == {uses[j] : j \in LastUse(uses, user)..Len(uses)}

(* "LRU caching to prevent users being indexed multiple times": a user     *)
(* gets another index event only once UserKeysCapacity other users have    *)
(* been seen, or the keys were flushed.  The LRU holds exactly the users   *)
(* seen last.                                                              *)
LRUExact ==
    /\ \A user \in Range(seen) :
         Contains(userKeys, user) <=> Cardinality(SeenSince(seen, user)) <= UserKeysCapacity
    /\ Range(userKeys) \subseteq Range(seen)

-----------------------------------------------------------------------------
(* What the code does not have.                                            *)

Evaluates(t, f) ==
    /\ InLock(t, "evaluate") /\ call[t].request.flag = f /\ call'[t] = NULL
    /\ succeeded'[f] > succeeded[f]

(* "Analytics debugEventsUntilDate support": evaluating a flag whose date  *)
(* has not come, by this clock and by the server's, queues a debug event   *)
(* when there is room.                                                     *)
DebugQueued ==
    [][\A t \in Threads, f \in Flags :
         (Evaluates(t, f) /\ DebugWanted(f, call[t].now)
            /\ Len(events) + 2 <= EventsCapacity)
           => \E i \in DOMAIN events' : events'[i].kind = "debug"]_vars

(* The period of a summary covers the evaluations counted in it, and ends  *)
(* no earlier than it starts.  The time of an evaluation and the time of a *)
(* bundle are read before the lock, the start of the period inside it.     *)
PeriodCovers ==
    [][/\ \A t \in Threads, f \in Flags :
            Evaluates(t, f) => summaryStart' <= call[t].now
       /\ sent' # sent => summaryStart <= lastEnd']_vars

-----------------------------------------------------------------------------
(* The inductive invariant.                                                *)

\* Calls are about what they say, with a time that has come.
CallsOK ==
    /\ call = [t \in Threads |-> call[t]]
    /\ \A t \in Threads : call[t] # NULL =>
         call[t].request \in Requests /\ call[t].now \in 1..clock

\* A summary has started by now, after the end of the last.
TimesOK ==
    /\ clock \in Nat \ {0}
    /\ summaryStart \in 0..clock /\ lastEnd \in 0..clock

CountersOK ==
    /\ succeeded \in [Flags -> Nat] /\ gaveUp \in [Flags -> Nat]
    /\ sent \in [Flags -> Nat]
    /\ DOMAIN summaryCounters \subseteq Flags
    /\ \A f \in DOMAIN summaryCounters : summaryCounters[f] \in Nat

SummaryInv ==
    CallsOK /\ TimesOK /\ CountersOK /\ SummaryExact /\ SummariesFollow

\* The key in place p is the p-th last user.  A user that has no place has
\* seen as many others come as there are places.
LRUHolds(list, uses) ==
    /\ list \in Seq(Users) /\ uses \in Seq(Users)
    /\ Len(list) <= UserKeysCapacity
    /\ \A p, q \in DOMAIN list : list[p] = list[q] => p = q
    /\ \A user \in Range(uses) : \E i \in DOMAIN uses : IsLastUse(uses, user, i)
    /\ \A p \in DOMAIN list :
         /\ list[p] \in Range(uses)
         /\ SeenSince(uses, list[p]) = {list[x] : x \in 1..p}
    /\ \A user \in Range(uses) \ Range(list) :
         Len(list) = UserKeysCapacity /\ Range(list) \subseteq SeenSince(uses, user)

LRUInv == CallsOK /\ LRUHolds(userKeys, seen)

=============================================================================
