------------------------------ MODULE Evaluate ------------------------------
(***************************************************************************)
(* A variation call (variations.c): it finds a flag, evaluates it with its *)
(* prerequisites, rules and segments (LDi_evaluate, evaluate.c), and hands *)
(* the events to the event processor.  Features are read from the store    *)
(* one at a time and no lock is held in between, so that the network       *)
(* thread may replace or delete any of them half way.  Reading the store   *)
(* and allocating memory may fail.                                         *)
(*                                                                         *)
(* The recursion of LDi_evaluate is a stack of frames.  A frame stays on   *)
(* the stack when it has returned, as the locals of its caller, until the  *)
(* caller has dealt with them.                                             *)
(***************************************************************************)
EXTENDS Targeting

CONSTANTS
    FlagKeys, SegmentKeys,
    History,    \* for each world, the versions each feature goes through;
                \* Absent is one that is deleted or not there yet
    WellFormed, \* the worlds in which every feature follows the schema
    Users,      \* [key, secondary, attributes, lost] records
    MaxWrites   \* bound: features replaced or deleted

Keys == FlagKeys \cup SegmentKeys

ASSUME EvaluateAssumption ==
    /\ FlagKeys \cap SegmentKeys = {} /\ IsFiniteSet(FlagKeys)
    /\ \A w \in DOMAIN History :
         /\ DOMAIN History[w] = Keys
         /\ \A k \in Keys : /\ Len(History[w][k]) \in Nat \ {0}
                           /\ DOMAIN History[w][k] = 1..Len(History[w][k])
         /\ \A k \in FlagKeys : \A flag \in Range(History[w][k]) \ {Absent} :
              /\ flag.on \in BOOLEAN \cup {Bad}
              /\ flag.prerequisites \notin {Absent, Bad} =>
                   /\ flag.prerequisites \in Seq(Range(flag.prerequisites))
                   /\ \A p \in Range(flag.prerequisites) :
                        p.key \in FlagKeys \cup {Bad} /\ p.variation # Absent
    /\ WellFormed \subseteq DOMAIN History /\ MaxWrites \in Nat

-----------------------------------------------------------------------------
(* What the schema asks of a flag and of a segment.                        *)

IsSequence(s) == s \in Seq(Range(s))

\* A list that is there, with entries.
ListOf(s, OK(_)) ==
    s \notin {Absent, Bad} /\ IsSequence(s) /\ \A e \in Range(s) : OK(e)

VariationOK(flag, index) ==
    /\ index \notin {Absent, Bad} /\ index \in Nat
    /\ index + 1 \in DOMAIN flag.variations /\ flag.variations[index + 1] # Absent

ShareOK(flag, w) ==
    /\ {"variation", "weight", "untracked"} \subseteq DOMAIN w
    /\ VariationOK(flag, w.variation) /\ ~Malformed(w) /\ w.weight \in Nat

RolloutOK(flag, r) ==
    /\ {"variations", "kind", "bucketBy", "seed"} \subseteq DOMAIN r
    /\ Bad \notin {r.kind, r.bucketBy, r.seed}
    /\ ListOf(r.variations, LAMBDA w : ShareOK(flag, w)) /\ r.variations # <<>>

ServeOK(flag, s) ==
    /\ {"variation", "rollout"} \subseteq DOMAIN s
    /\ s.variation = Absent \/ VariationOK(flag, s.variation)
    /\ s.rollout # Absent => s.rollout # Bad /\ RolloutOK(flag, s.rollout)
    /\ s.variation # Absent \/ s.rollout # Absent

\* A clause that names segments names possible ones.
ClauseOK(c) ==
    /\ c.attribute # Bad /\ c.op # Bad /\ c.negate \in BOOLEAN \cup {Absent}
    /\ ListOf(c.values, LAMBDA w :
           c.op = "segmentMatch" /\ w[1] = "text" => w[2] \in SegmentKeys)

RuleOK(flag, r) ==
    /\ ListOf(r.clauses, ClauseOK) /\ ServeOK(flag, r.serve) /\ r.id # Bad

TargetOK(flag, t) == t.values # Bad /\ VariationOK(flag, t.variation)

FlagOK(flag) ==
    /\ {"key", "salt", "fallthrough"} \subseteq DOMAIN flag
    /\ Bad \notin {flag.key, flag.salt}
    /\ flag.on \in BOOLEAN /\ flag.variations # Bad
    /\ flag.offVariation = Absent \/ VariationOK(flag, flag.offVariation)
    /\ ListOf(flag.prerequisites, LAMBDA p :
           p.key # Bad /\ p.key \in FlagKeys /\ p.variation # Bad)
    /\ ListOf(flag.targets, LAMBDA t : TargetOK(flag, t))
    /\ ListOf(flag.rules, LAMBDA r : RuleOK(flag, r))
    /\ ServeOK(flag, flag.fallthrough)

SegmentRuleOK(r) == ListOf(r.clauses, ClauseOK) /\ Bad \notin {r.weight, r.bucketBy}

SegmentOK(segment) ==
    /\ Bad \notin {segment.included, segment.excluded, segment.key, segment.salt}
    /\ ListOf(segment.rules, SegmentRuleOK)

ASSUME WellFormedAssumption ==
    \A w \in WellFormed :
        /\ \A k \in FlagKeys : \A flag \in Range(History[w][k]) \ {Absent} : FlagOK(flag)
        /\ \A k \in SegmentKeys :
             \A segment \in Range(History[w][k]) \ {Absent} : SegmentOK(segment)

\* Nothing of a user is lost yet.
ASSUME UsersAssumption ==
    \A u \in Users : u = [key |-> u.key, secondary |-> u.secondary,
                          attributes |-> u.attributes, lost |-> {}]

\* The lists among a user's attributes hold neither lists nor objects.
Plain(u) ==
    \A a \in DOMAIN u.attributes :
        u.attributes[a][1] = "array" =>
            /\ IsSequence(u.attributes[a][2])
            /\ \A e \in Range(u.attributes[a][2]) : e[1] \notin {"array", "object"}

-----------------------------------------------------------------------------

VARIABLES
    world, user,    \* chosen once
    version,        \* of each feature in the store
    writes,         \* writes so far
    pc,             \* "idle", "evaluate", "process", "check" or "returned"
    flagKey,        \* the flag asked for
    stack,          \* frames of LDi_evaluate, the innermost last
    details,        \* the caller's LDDetails
    value, events,  \* what LDi_evaluate returned, and its subEvents
    held,           \* references this call has taken and not dropped, per feature
    strings,        \* texts copied for details during this call, not freed yet
    posted,         \* the events that the summary counted, as the queue gets them
    result,         \* what the caller was given: "flag" or "fallback"
    leaked,         \* history: features of which a failed read of this call
                    \* has left a reference behind
    began,          \* history: version when the call began
    quiet           \* history: nothing was written or failed since

store == <<world, user, version, writes>>
outcome == <<pc, flagKey, details, value, events, posted, result>>
vars == <<store, outcome, stack, held, leaked, strings, began, quiet>>

Versions(k) == History[world][k]
Feature(k) == Versions(k)[version[k]]

\* External: LaunchDarkly keeps prerequisites free of cycles.  The SDK relies
\* on it and does not look for them.
Acyclic(current) ==
    LET P(k) == LET flag == Versions(k)[current[k]]
                IN  IF flag = Absent THEN {}
                    ELSE IF flag.prerequisites \in {Absent, Bad} THEN {}
                    ELSE {p.key : p \in Range(flag.prerequisites)} \ {Bad}
    IN  {rank \in [FlagKeys -> 1..Cardinality(FlagKeys)] :
            \A k \in FlagKeys : \A p \in P(k) : rank[p] < rank[k]} # {}

NoDetails == [reason |-> "UNKNOWN", extra |-> Absent,
              hasVariation |-> FALSE, variationIndex |-> 0]

Init ==
    /\ world \in DOMAIN History /\ user \in Users
    /\ version = [k \in Keys |-> 1] /\ writes = 0 /\ Acyclic(version)
    /\ pc = "idle" /\ flagKey \in FlagKeys
    /\ stack = <<>> /\ details = NoDetails
    /\ value = Absent /\ events = <<>>
    /\ held = [k \in Keys |-> 0] /\ leaked = {} /\ strings = 0
    /\ posted = <<>> /\ result = Absent
    /\ began = version /\ quiet = TRUE

-----------------------------------------------------------------------------
(* The network thread: LDStoreUpsert and LDStoreRemove.                    *)

write(k) ==
    /\ writes < MaxWrites /\ writes' = writes + 1
    /\ \E v \in DOMAIN Versions(k) :
         v > version[k] /\ version' = [version EXCEPT ![k] = v]
    /\ Acyclic(version')
    /\ quiet' = FALSE
    /\ UNCHANGED <<world, user, outcome, stack, held, leaked, strings, began>>

-----------------------------------------------------------------------------
(* Details and events.                                                     *)

\* Texts that details own: LDDetailsClear frees them, going by the reason.
Owned(d) ==
    IF \/ d.reason = "PREREQUISITE_FAILED"
       \/ d.reason = "RULE_MATCH" /\ d.extra.id # Absent
    THEN 1 ELSE 0

Because(d, reason, extra) == [d EXCEPT !.reason = reason, !.extra = extra]

\* There is no name for an unknown reason, nor for LD_OOM.
HasName(d) == d.reason # "UNKNOWN" /\ ~(d.reason = "ERROR" /\ d.extra = "OOM")

reasonToJSON(d) == IF HasName(d) THEN <<d.reason, d.extra>> ELSE Absent

\* The rule that matched, or the fallthrough, asks for full events.
shouldAlwaysDetail(flag, d) ==
    \/ d.reason = "FALLTHROUGH" /\ flag.trackEventsFallthrough
    \/ d.reason = "RULE_MATCH" /\ flag.rules[d.extra.ruleIndex + 1].trackEvents

\* The event of a flag, Absent when the store did not have it.  A value
\* that is Absent is the fallback.
newFeatureRequestEvent(key, flag, v, d, val, prereqOf) ==
    [key |-> key, prereqOf |-> prereqOf, value |-> val,
     variation |-> IF d.hasVariation THEN d.variationIndex ELSE Absent,
     version |-> IF flag = Absent THEN Absent ELSE v,
     reason |-> reasonToJSON(d),
     always |-> flag # Absent /\ shouldAlwaysDetail(flag, d),
     track |-> /\ flag # Absent
               /\ flag.trackEvents \/ shouldAlwaysDetail(flag, d)]

InExperiment(reason) ==
    reason[1] \in {"RULE_MATCH", "FALLTHROUGH"} /\ reason[2].inExperiment

\* An event of an experiment is always sent.  The reason is kept for detailed
\* calls, and for rules that ask for it.
possiblyQueueEvent(event, detailed) ==
    [event EXCEPT !.track = @ \/ InExperiment(event.reason),
                  !.reason = IF event.always \/ detailed THEN @ ELSE Absent]

-----------------------------------------------------------------------------
(* Frames of LDi_evaluate.  at: the part of the function it has reached;   *)
(* i, rule, clause, segment: where its loops are.                          *)

NewFrame(k) ==
    [key |-> k, version |-> version[k], at |-> "on", i |-> 1,
     rule |-> 1, clause |-> 1, segment |-> 1,
     details |-> NoDetails, value |-> Absent, events |-> <<>>,
     status |-> Absent]

FlagOf(f) == Versions(f.key)[f.version]
Top == Last(stack)
At(place) == pc = "evaluate" /\ Top.at = place

SetTop(f) == stack' = [stack EXCEPT ![Len(stack)] = f]
Returned(f, status) == [f EXCEPT !.at = "returned", !.status = status]

\* Details name the variation before it is looked up.
addValue(f, index, memory) ==
    LET flag == FlagOf(f)
    IN  IF index = Absent
        THEN [f EXCEPT !.value = Absent, !.details.hasVariation = FALSE]
        ELSE IF index = Bad
        THEN [f EXCEPT !.details.hasVariation = TRUE]
        ELSE [f EXCEPT !.details.hasVariation = TRUE,
                       !.details.variationIndex = index,
                       !.value = IF memory /\ flag.variations # Bad
                                    /\ index + 1 \in DOMAIN flag.variations
                                 THEN flag.variations[index + 1] ELSE Absent]

\* Whatever addValue fails for, the caller takes it for lack of memory.
Served(f, index, memory, status) ==
    LET g == addValue(f, index, memory)
    IN  Returned(g, IF index # Absent /\ g.value = Absent THEN "MEM" ELSE status)

\* Most steps of an evaluation change the innermost frame only.
Local == UNCHANGED <<store, outcome, held, leaked, began>>

\* An allocation that fails ends the quiet.
Allocates(memory) == quiet' = (quiet /\ memory)

-----------------------------------------------------------------------------
(* LDi_evaluate: on.                                                       *)

evaluateOn ==
    /\ At("on") /\ FlagOf(Top).on # FALSE
    /\ SetTop(IF FlagOf(Top).on = Bad THEN Returned(Top, "SCHEMA")
              ELSE [Top EXCEPT !.at = "prerequisites"])
    /\ UNCHANGED <<strings, quiet>> /\ Local

evaluateOff(memory) ==
    /\ At("on") /\ FlagOf(Top).on = FALSE
    /\ SetTop(Served([Top EXCEPT !.details = Because(@, "OFF", Absent)],
                     FlagOf(Top).offVariation, memory, "MISS"))
    /\ Allocates(memory) /\ UNCHANGED strings /\ Local

-----------------------------------------------------------------------------
(* LDi_checkPrerequisites.                                                 *)

Prerequisites(f) == FlagOf(f).prerequisites
MorePrerequisites(f) ==
    /\ Prerequisites(f) \notin {Absent, Bad}
    /\ f.i <= Len(Prerequisites(f))
Prerequisite(f) == Prerequisites(f)[f.i]

MalformedPrerequisite(f) ==
    \/ Prerequisites(f) = Bad
    \/ MorePrerequisites(f)
         /\ Bad \in {Prerequisite(f).key, Prerequisite(f).variation}

checkPrerequisitesEnds ==
    /\ At("prerequisites")
    /\ MalformedPrerequisite(Top) \/ ~MorePrerequisites(Top)
    /\ SetTop(IF MalformedPrerequisite(Top) THEN Returned(Top, "SCHEMA")
              ELSE [Top EXCEPT !.at = "targets"])
    /\ UNCHANGED <<strings, quiet>> /\ Local

ReadablePrerequisite(f) == MorePrerequisites(f) /\ ~MalformedPrerequisite(f)

ReadsPrerequisite == At("prerequisites") /\ ReadablePrerequisite(Top)

\* LDStoreGet, and the recursive call of LDi_evaluate.
readPrerequisite ==
    /\ ReadsPrerequisite
    /\ LET p == Prerequisite(Top).key
       IN  IF Feature(p) = Absent
           THEN /\ SetTop([Top EXCEPT !.at = "failed"])
                /\ UNCHANGED held
           ELSE /\ stack' = Append(stack, NewFrame(p))
                /\ held' = [held EXCEPT ![p] = @ + 1]
    /\ UNCHANGED <<store, outcome, leaked, strings, began, quiet>>

\* LDStoreGet fails: with nothing, or, when the backend had the feature and
\* the cache could not take it, with a reference that nobody will drop.
failedGet(k) ==
    \/ UNCHANGED <<held, leaked>>
    \/ /\ Feature(k) # Absent
       /\ held' = [held EXCEPT ![k] = @ + 1] /\ leaked' = leaked \cup {k}

readPrerequisiteFails ==
    /\ ReadsPrerequisite /\ failedGet(Prerequisite(Top).key)
    /\ SetTop(Returned(Top, "STORE"))
    /\ quiet' = FALSE
    /\ UNCHANGED <<store, outcome, strings, began>>

\* Fault: any variation of the prerequisite will do.
afterPrerequisiteAny(caller, f, event) ==
    LET passed == [caller EXCEPT !.events = (@ \o f.events) \o <<event>>]
    IN  IF f.status = "MISS" THEN [passed EXCEPT !.at = "failed"]
        ELSE [passed EXCEPT !.i = @ + 1]

\* What the caller makes of a prerequisite that was evaluated.
afterPrerequisite(caller, f, event) ==
    LET passed == [caller EXCEPT !.events = (@ \o f.events) \o <<event>>]
    IN  IF f.status = "MISS" \/ ~FlagOf(f).on
           \/ ~f.details.hasVariation
           \/ f.details.variationIndex # Prerequisite(caller).variation
        THEN [passed EXCEPT !.at = "failed"]
        ELSE [passed EXCEPT !.i = @ + 1]

\* Fault: a prerequisite that fails leaves its reference behind.
releaseOnSuccess(f) ==
    IF f.status = "MATCH" THEN [held EXCEPT ![f.key] = @ - 1] ELSE held

\* LDJSONRCDecrement, on every way out.
release(f) == [held EXCEPT ![f.key] = @ - 1]

prerequisiteReturns(memory) ==
    /\ At("returned") /\ Len(stack) > 1
    /\ LET caller == stack[Len(stack) - 1]
           event == newFeatureRequestEvent(Top.key, FlagOf(Top), Top.version,
                        Top.details, Top.value, caller.key)
       IN  stack' = Append(Front(Front(stack)),
                IF isEvalError(Top.status) THEN Returned(caller, Top.status)
                ELSE IF ~memory THEN Returned(caller, "MEM")
                ELSE afterPrerequisite(caller, Top, event))
    /\ held' = release(Top)
    /\ strings' = strings - Owned(Top.details)
    /\ Allocates(memory)
    /\ UNCHANGED <<store, outcome, leaked, began>>

\* Back in LDi_evaluate: the text of the key is copied, then the value.
prerequisiteFailed(memory) ==
    /\ At("failed")
    /\ SetTop(Served([Top EXCEPT !.details = Because(@, "PREREQUISITE_FAILED",
                                                     Prerequisite(Top).key)],
                     FlagOf(Top).offVariation, memory, "MISS"))
    /\ strings' = strings + 1
    /\ Allocates(memory) /\ Local

prerequisiteFailedNoMemory ==
    /\ At("failed")
    /\ SetTop(Returned(Top, "MEM"))
    /\ quiet' = FALSE /\ UNCHANGED strings /\ Local

-----------------------------------------------------------------------------
(* LDi_evaluate: targets.                                                  *)

\* The first target that cannot be read or names the user.
TargetHit(targets) ==
    SelectInSeq(targets, LAMBDA t : t.values = Bad \/ textInArray(t.values, user.key))

evaluateTargets(memory) ==
    /\ At("targets")
    /\ LET targets == FlagOf(Top).targets
           hit == IF targets = Absent THEN 0 ELSE TargetHit(targets)
       IN  SetTop(IF targets = Bad THEN Returned(Top, "SCHEMA")
                  ELSE IF hit = 0 THEN [Top EXCEPT !.at = "rules"]
                  ELSE IF targets[hit].values = Bad THEN Returned(Top, "SCHEMA")
                  ELSE Served([Top EXCEPT !.details = Because(@, "TARGET_MATCH", Absent)],
                              targets[hit].variation, memory, "MATCH"))
    /\ Allocates(memory) /\ UNCHANGED strings /\ Local

-----------------------------------------------------------------------------
(* LDi_evaluate: rules, with LDi_ruleMatchesUser and LDi_clauseMatchesUser. *)
(* lost: attributes whose value could not be copied.                       *)

Seeing(lost) == [user EXCEPT !.lost = lost]

Rule(f) == FlagOf(f).rules[f.rule]
MoreRules(f) == FlagOf(f).rules # Absent /\ f.rule <= Len(FlagOf(f).rules)
MoreClauses(f) == f.clause <= Len(Rule(f).clauses)
Clause(f) == Rule(f).clauses[f.clause]

evaluateRules ==
    /\ At("rules")
    /\ LET rules == FlagOf(Top).rules
       IN  SetTop(IF rules = Bad THEN Returned(Top, "SCHEMA")
                  ELSE IF ~MoreRules(Top) THEN [Top EXCEPT !.at = "fallthrough"]
                  ELSE IF Rule(Top).clauses = Bad THEN Returned(Top, "SCHEMA")
                  ELSE [Top EXCEPT !.at = "clauses"])
    /\ UNCHANGED <<strings, quiet>> /\ Local

\* Fault: the loop over the rules stays at the rule that missed.
ruleMatchesUserAgain(f, status) ==
    IF isEvalError(status) THEN Returned(f, status)
    ELSE IF status = "MATCH" THEN [f EXCEPT !.clause = @ + 1, !.segment = 1]
    ELSE [f EXCEPT !.at = "rules", !.clause = 1, !.segment = 1]

\* The loop over the clauses of a rule, given the status of one.
ruleMatchesUser(f, status) ==
    IF isEvalError(status) THEN Returned(f, status)
    ELSE IF status = "MATCH" THEN [f EXCEPT !.clause = @ + 1, !.segment = 1]
    ELSE [f EXCEPT !.at = "rules", !.rule = @ + 1, !.clause = 1, !.segment = 1]

IsSegmentMatch(c) == c.op = "segmentMatch"

clauseMatchesUser(lost) ==
    /\ At("clauses") /\ MoreClauses(Top) /\ ~IsSegmentMatch(Clause(Top))
    /\ SetTop(ruleMatchesUser(Top,
                  clauseMatchesUserNoSegments(Clause(Top), Seeing(lost))))
    /\ Allocates(lost = {}) /\ UNCHANGED strings /\ Local

MoreSegments(f) == Clause(f).values # Bad /\ f.segment <= Len(Clause(f).values)

SegmentClause ==
    At("clauses") /\ MoreClauses(Top) /\ IsSegmentMatch(Clause(Top))

\* No segment matched, or there is no list of them.
segmentsEnd ==
    /\ SegmentClause /\ ~MoreSegments(Top)
    /\ SetTop(ruleMatchesUser(Top, IF Clause(Top).values = Bad THEN "SCHEMA"
                                   ELSE maybeNegate(Clause(Top), "MISS")))
    /\ UNCHANGED <<strings, quiet>> /\ Local

\* What a segment, Absent when it is not in the store, does to the loop.
afterSegment(f, segment, seen) ==
    LET status == segmentMatchesUser(segment, seen)
        next == [f EXCEPT !.segment = @ + 1]
    IN  IF segment = Absent THEN next
        ELSE IF isEvalError(status) THEN Returned(f, status)
        ELSE IF status = "MATCH" THEN ruleMatchesUser(f, maybeNegate(Clause(f), status))
        ELSE next

ReadsSegment == SegmentClause /\ MoreSegments(Top)

\* LDStoreGet; the reference is dropped before the function goes on.
\* Values that are no texts are skipped.
readSegment(lost) ==
    /\ ReadsSegment
    /\ LET name == Clause(Top).values[Top.segment]
       IN  SetTop(afterSegment(Top, IF name[1] = "text" THEN Feature(name[2])
                                                        ELSE Absent,
                               Seeing(lost)))
    /\ Allocates(lost = {}) /\ UNCHANGED strings /\ Local

readSegmentFails ==
    /\ ReadsSegment
    /\ LET name == Clause(Top).values[Top.segment]
       IN  name[1] = "text" /\ failedGet(name[2])
    /\ SetTop(Returned(Top, "STORE"))
    /\ quiet' = FALSE
    /\ UNCHANGED <<store, outcome, strings, began>>

\* All clauses match: the variation first, then a copy of the rule's id.
RuleDetails(f, id, inExperiment) ==
    [ruleIndex |-> f.rule - 1, id |-> id, inExperiment |-> inExperiment]

ruleServed(f, choice, memory, idMemory) ==
    LET id == Rule(f).id
        g == Served([f EXCEPT !.details =
                        Because(@, "RULE_MATCH",
                                RuleDetails(f, Absent, choice.inExperiment))],
                    choice.index, memory, "MATCH")
    IN  IF ~choice.ok THEN Returned(g, "SCHEMA")
        ELSE IF g.status = "MEM" \/ id = Absent THEN g
        ELSE IF id = Bad THEN Returned(g, "SCHEMA")
        ELSE IF ~idMemory THEN Returned(g, "MEM")
        ELSE [g EXCEPT !.details.extra.id = id]

ruleMatches(lost, memory, idMemory) ==
    /\ At("clauses") /\ ~MoreClauses(Top)
    /\ LET choice == getIndexForVariationOrRollout(FlagOf(Top), Rule(Top).serve,
                                                   Seeing(lost))
           g == ruleServed(Top, choice, memory, idMemory)
       IN  SetTop(g) /\ strings' = strings + Owned(g.details)
    /\ Allocates(lost = {} /\ memory /\ idMemory) /\ Local

-----------------------------------------------------------------------------
(* LDi_evaluate: fallthrough.                                              *)

evaluateFallthrough(lost, memory) ==
    /\ At("fallthrough")
    /\ LET choice == getIndexForVariationOrRollout(FlagOf(Top),
                         FlagOf(Top).fallthrough, Seeing(lost))
           f == [Top EXCEPT !.details =
                    Because(@, "FALLTHROUGH",
                            [inExperiment |-> choice.inExperiment])]
       IN  SetTop(IF choice.ok THEN Served(f, choice.index, memory, "MATCH")
                               ELSE Returned(f, "SCHEMA"))
    /\ Allocates(lost = {} /\ memory) /\ UNCHANGED strings /\ Local

-----------------------------------------------------------------------------
(* variation().                                                            *)

Error(kind) == Because(details, "ERROR", kind)

\* The way out: the reference to the flag is dropped.
Return(what) ==
    /\ pc' = "returned" /\ result' = what
    /\ held' = IF stack = <<>> THEN held ELSE release(stack[1])
    /\ stack' = <<>>

variation ==
    /\ pc = "idle"
    /\ IF Feature(flagKey) = Absent
       THEN /\ pc' = "process" /\ details' = Error("FLAG_NOT_FOUND")
            /\ UNCHANGED <<stack, held>>
       ELSE /\ pc' = "evaluate" /\ UNCHANGED details
            /\ stack' = <<NewFrame(flagKey)>>
            /\ held' = [held EXCEPT ![flagKey] = @ + 1]
    /\ began' = version /\ quiet' = TRUE
    /\ UNCHANGED <<store, flagKey, value, events, posted, result, leaked, strings>>

\* No memory for the fallback, the client is not ready, or the store fails.
variationFails(kind) ==
    /\ pc = "idle"
    /\ details' = Error(kind) /\ Return("fallback")
    /\ began' = version /\ quiet' = FALSE
    /\ UNCHANGED <<store, flagKey, value, events, posted, leaked, strings>>

\* Lack of memory and schema errors have a name, a failing store has none.
evaluated ==
    /\ At("returned") /\ Len(stack) = 1
    /\ IF Top.status \in {"MEM", "SCHEMA"}
       THEN /\ details' = [Top.details EXCEPT !.reason = "ERROR",
                             !.extra = IF Top.status = "MEM" THEN "OOM"
                                                             ELSE "MALFORMED_FLAG"]
            /\ Return("fallback") /\ UNCHANGED <<value, events>>
       ELSE /\ pc' = "process" /\ details' = Top.details
            /\ value' = Top.value /\ events' = Top.events
            /\ UNCHANGED <<result, stack, held>>
    /\ UNCHANGED <<store, flagKey, posted, leaked, strings, began, quiet>>

IsNull(val) == val = Absent \/ val[1] = "null"

FlagEvent ==
    LET flag == IF stack = <<>> THEN Absent ELSE FlagOf(stack[1])
    IN  newFeatureRequestEvent(flagKey, flag,
            IF stack = <<>> THEN 0 ELSE stack[1].version, details,
            IF IsNull(value) THEN Absent ELSE value, Absent)

\* LDi_processEvaluation: see EventProcessor for the queue and the summary.
Queued(detailed) ==
    [i \in 1..(Len(events) + 1) |->
        possiblyQueueEvent((<<FlagEvent>> \o events)[i], detailed)]

processEvaluation(detailed) ==
    /\ pc = "process" /\ FlagEvent.reason # Absent
    /\ posted' = Queued(detailed)
    /\ pc' = "check"
    /\ UNCHANGED <<store, flagKey, details, value, events, result, stack, held,
                   leaked, strings, began, quiet>>

\* It fails for want of a reason, or of memory after some of the events.
processEvaluationFails(detailed) ==
    /\ pc = "process"
    /\ posted' \in IF FlagEvent.reason = Absent THEN {<<>>}
                   ELSE {SubSeq(Queued(detailed), 1, n) : n \in 0..Len(events)}
    /\ quiet' = FALSE
    /\ Return("fallback")
    /\ UNCHANGED <<store, flagKey, details, value, events, leaked, strings, began>>

\* LDBoolVariation, LDIntVariation and LDDoubleVariation, LDStringVariation,
\* LDJSONVariation: which one was called matters only now.
isBool == {"bool"}
isNumber == {"number"}
isText == {"text"}
isArrayOrObject == {"array", "object"}

Accepted == {isBool, isNumber, isText, isArrayOrObject}

\* Fault: any value will do.
checkTypeNever(types) ==
    /\ pc = "check"
    /\ Return(IF IsNull(value) THEN "fallback" ELSE "flag")
    /\ UNCHANGED <<store, flagKey, details, value, events, posted, leaked, strings,
                   began, quiet>>

checkType(types) ==
    /\ pc = "check"
    /\ IF IsNull(value) \/ value[1] \in types
       THEN /\ Return(IF IsNull(value) THEN "fallback" ELSE "flag")
            /\ UNCHANGED details
       ELSE Return("fallback") /\ details' = Error("WRONG_TYPE")
    /\ UNCHANGED <<store, flagKey, value, events, posted, leaked, strings, began,
                   quiet>>

\* The caller clears its details and makes another call, which counts its own
\* references and texts.
detailsClear ==
    /\ pc = "returned"
    /\ pc' = "idle" /\ flagKey' \in FlagKeys
    /\ details' = NoDetails
    /\ strings' = 0 /\ held' = [k \in Keys |-> 0] /\ leaked' = {}
    /\ value' = Absent /\ events' = <<>> /\ posted' = <<>> /\ result' = Absent
    /\ began' = version /\ quiet' = TRUE
    /\ UNCHANGED <<store, stack>>

-----------------------------------------------------------------------------

Lost == SUBSET (AttributeNames(user) \ {"secondary"})

Evaluation ==
    \/ evaluateOn
    \/ \E memory \in BOOLEAN :
         \/ evaluateOff(memory) \/ prerequisiteReturns(memory)
         \/ prerequisiteFailed(memory) \/ evaluateTargets(memory)
    \/ checkPrerequisitesEnds \/ readPrerequisite \/ readPrerequisiteFails
    \/ prerequisiteFailedNoMemory
    \/ evaluateRules \/ segmentsEnd \/ readSegmentFails
    \/ \E lost \in Lost : clauseMatchesUser(lost) \/ readSegment(lost)
    \/ \E lost \in Lost, memory \in BOOLEAN :
         \/ evaluateFallthrough(lost, memory)
         \/ \E idMemory \in BOOLEAN : ruleMatches(lost, memory, idMemory)
    \/ evaluated
    \/ \E detailed \in BOOLEAN :
         processEvaluation(detailed) \/ processEvaluationFails(detailed)
    \/ \E types \in Accepted : checkType(types)

Call ==
    \/ variation
    \/ \E kind \in {"OOM", "CLIENT_NOT_READY", "STORE_ERROR"} : variationFails(kind)
    \/ detailsClear

Next ==
    \/ \E k \in Keys : write(k)
    \/ Call
    \/ Evaluation

\* The thread that evaluates keeps running.  This is WF_vars(Evaluation), with
\* ENABLED Evaluation written out as Running: a call always has a next step
\* (the absence of deadlock shows that), and TLC takes long to find it.
Running == pc \in {"evaluate", "process", "check"}
Fairness == []<>~Running \/ []<><<Evaluation>>_vars

Spec == Init /\ [][Next]_vars /\ Fairness

-----------------------------------------------------------------------------
(* What a flag means: the reference for an evaluation that nothing         *)
(* interrupts.  Quantifiers over rules, clauses and segments instead of    *)
(* the loops; prerequisites by their depth.                                *)

Elements(v) == IF v[1] = "array" THEN {v[2][i] : i \in DOMAIN v[2]} ELSE {v}

\* A clause other than segmentMatch.
Holds(c, u) ==
    LET v == valueOfAttribute(u, c.attribute)
    IN  /\ c.op \in Operators /\ v # Absent
        /\ (c.negate = TRUE) #
             (\E e \in Elements(v), w \in Range(c.values) : lookupOperation(c.op, e, w))

InSegment(segment, u) ==
    \/ InList(segment.included, u)
    \/ /\ ~InList(segment.excluded, u)
       /\ \E r \in Range(segment.rules) :
            /\ \A c \in Range(r.clauses) : Holds(c, u)
            /\ \/ r.weight = Absent
               \/ bucketUser(u, segment.key, getBucketAttribute(r), segment.salt,
                             Absent) < r.weight

\* The features of a snapshot s of the store, for a user.
FeatureIn(s, k) == History[s.world][k][s.version[k]]

SegmentHolds(s, w) ==
    /\ w[1] = "text" /\ FeatureIn(s, w[2]) # Absent
    /\ InSegment(FeatureIn(s, w[2]), s.user)

ClauseHolds(s, c) ==
    IF IsSegmentMatch(c)
    THEN (c.negate = TRUE) # (\E w \in Range(c.values) : SegmentHolds(s, w))
    ELSE Holds(c, s.user)

RuleHolds(s, r) == \A c \in Range(r.clauses) : ClauseHolds(s, c)

\* Shares lie next to each other from 0 upwards; the last has no end.
InShare(W, i, bucket) ==
    /\ WeightUpTo(W, i - 1) <= bucket \/ i = 1
    /\ bucket < WeightUpTo(W, i) \/ i = Len(W)

Share(s, flag, serve) ==
    IF serve.variation # Absent
    THEN [index |-> serve.variation, inExperiment |-> FALSE]
    ELSE LET r == serve.rollout
             bucket == bucketUser(s.user, flag.key, getBucketAttribute(r), flag.salt, r.seed)
             w == r.variations[Min({i \in DOMAIN r.variations :
                                       InShare(r.variations, i, bucket)})]
         IN  [index |-> w.variation,
              inExperiment |-> r.kind = "experiment" /\ w.untracked # TRUE]

\* What a flag evaluates to; NotFound is the outcome of one that is not there.
As(flag, reason, extra, index, evs) ==
    [found |-> TRUE,
     details |-> [reason |-> reason, extra |-> extra,
                  hasVariation |-> index # Absent,
                  variationIndex |-> IF index = Absent THEN 0 ELSE index],
     value |-> IF index = Absent THEN Absent ELSE flag.variations[index + 1],
     events |-> evs]

NotFound == [found |-> FALSE]

Targets(s, flag) == {i \in DOMAIN flag.targets : s.user.key \in flag.targets[i].values}
Rules(s, flag) == {i \in DOMAIN flag.rules : RuleHolds(s, flag.rules[i])}

Outcome(s, flag, failed, evs) ==
    LET rule == flag.rules[Min(Rules(s, flag))]
    IN  IF ~flag.on THEN As(flag, "OFF", Absent, flag.offVariation, <<>>)
        ELSE IF failed # {}
        THEN As(flag, "PREREQUISITE_FAILED", flag.prerequisites[Min(failed)].key,
                flag.offVariation, evs)
        ELSE IF Targets(s, flag) # {}
        THEN As(flag, "TARGET_MATCH", Absent,
                flag.targets[Min(Targets(s, flag))].variation, evs)
        ELSE IF Rules(s, flag) # {}
        THEN As(flag, "RULE_MATCH",
                [ruleIndex |-> Min(Rules(s, flag)) - 1, id |-> rule.id,
                 inExperiment |-> Share(s, flag, rule.serve).inExperiment],
                Share(s, flag, rule.serve).index, evs)
        ELSE As(flag, "FALLTHROUGH",
                [inExperiment |-> Share(s, flag, flag.fallthrough).inExperiment],
                Share(s, flag, flag.fallthrough).index, evs)

\* Whether a prerequisite passes, given what it evaluates to, and the events
\* it adds.
Passes(p, o) ==
    /\ o.found /\ o.details.reason \notin {"OFF", "PREREQUISITE_FAILED"}
    /\ o.details.hasVariation /\ o.details.variationIndex = p.variation

MoreEvents(s, evs, p, o, k) ==
    IF ~o.found THEN evs
    ELSE (evs \o o.events) \o
           <<newFeatureRequestEvent(p.key, FeatureIn(s, p.key), s.version[p.key],
                                    o.details, o.value, k)>>

\* The events of the first prerequisites of flag k, below what they mean.
EventsUpTo(s, k, below, n) ==
    LET P == FeatureIn(s, k).prerequisites
        evs[i \in 0..Len(P)] ==
            IF i = 0 THEN <<>>
            ELSE MoreEvents(s, evs[i - 1], P[i], below[P[i].key], k)
    IN  evs[n]

Failed(s, k, below) ==
    LET P == FeatureIn(s, k).prerequisites
    IN  {i \in DOMAIN P : ~Passes(P[i], below[P[i].key])}

Meaning(s, k, below) ==
    LET flag == FeatureIn(s, k)
        failed == Failed(s, k, below)
        seen == IF failed = {} THEN Len(flag.prerequisites) ELSE Min(failed)
    IN  IF flag = Absent THEN NotFound
        ELSE Outcome(s, flag, failed, EventsUpTo(s, k, below, seen))

\* The outcome of each flag whose prerequisites go at most depth flags deep.
Reference(s) ==
    LET at[depth \in 0..Cardinality(FlagKeys)] ==
            IF depth = 0 THEN [k \in FlagKeys |-> NotFound]
            ELSE [k \in FlagKeys |-> Meaning(s, k, at[depth - 1])]
    IN  at[Cardinality(FlagKeys)]

-----------------------------------------------------------------------------
(* Properties.                                                             *)

Snapshot == [world |-> world, user |-> user, version |-> version]
Quiet == quiet /\ world \in WellFormed /\ Plain(user)
Meant == Reference(Snapshot)

\* An evaluation during which nothing is written and nothing fails gives the
\* flag's meaning: its value, reason and variation, and one event for each
\* prerequisite looked at, deepest first, up to the first that failed.  It
\* ends in an error only when there is no such flag or its value has another
\* type.
QuietEvaluation ==
    Quiet =>
        /\ pc = "process" =>
             IF ~Meant[flagKey].found THEN details = Error("FLAG_NOT_FOUND")
             ELSE /\ details = Meant[flagKey].details
                  /\ value = Meant[flagKey].value /\ events = Meant[flagKey].events
        /\ pc = "returned" /\ details.reason = "ERROR" =>
             details.extra \in {"FLAG_NOT_FOUND", "WRONG_TYPE"}

\* The features that were current at some moment of the call.
During(k) == {Versions(k)[v] : v \in began[k]..version[k]}

\* The event of a prerequisite shows a version that was current during the
\* call and a value of that version.
TruthfulEvent(e) ==
    /\ e.version \in began[e.key]..version[e.key]
    /\ LET flag == Versions(e.key)[e.version]
       IN  /\ flag # Absent
           /\ e.variation # Absent => e.value = flag.variations[e.variation + 1]

\* The prerequisites of a flag that can be read.
Walk(f) == IF Prerequisites(f) \in {Absent, Bad} THEN <<>> ELSE Prerequisites(f)

EventOf(f, i) ==
    {e \in Range(f.events) : e.key = Walk(f)[i].key /\ e.prereqOf = f.key}

PassShown(f, i) == \E e \in EventOf(f, i) : e.variation = Walk(f)[i].variation

FailureShown(f) ==
    \/ Absent \in During(Walk(f)[f.i].key)
    \/ \E e \in EventOf(f, f.i) :
         \/ e.reason[1] \in {"OFF", "PREREQUISITE_FAILED"}
         \/ e.variation # Walk(f)[f.i].variation

Explained(f) ==
    /\ \A e \in Range(f.events) : TruthfulEvent(e)
    /\ \A i \in 1..(f.i - 1) : PassShown(f, i)
    /\ f.details.reason \in {"TARGET_MATCH", "RULE_MATCH", "FALLTHROUGH"} =>
         f.i = Len(Walk(f)) + 1
    /\ f.details.reason = "PREREQUISITE_FAILED" =>
         f.details.extra = Walk(f)[f.i].key /\ FailureShown(f)

\* Whatever is written meanwhile, the events explain the result.  Each is
\* truthful; a prerequisite the walk went past has an event with the
\* variation that was asked for; a flag is matched only when it went past all
\* of them; a failed prerequisite is the one it stopped at, and has an event
\* that shows why unless it was not in the store.
EventsExplainResult == \A n \in DOMAIN stack : Explained(stack[n])

\* The thread holds one reference per frame of LDi_evaluate for the flag it
\* reads, on every way through errors and failures, and none when it has
\* returned: no flag is freed under an evaluation.  What a call leaves behind
\* is at most one reference, to the feature whose read failed although the
\* backend had it: that failure ends the call, so no second one follows.
Frames(k) == {n \in DOMAIN stack : stack[n].key = k}

ReferencesBalanced ==
    /\ \A k \in Keys :
         held[k] = Cardinality(Frames(k)) + (IF k \in leaked THEN 1 ELSE 0)
    /\ \A j, k \in leaked : j = k

\* A value of the flag is handed out only with the requested type, for a
\* reason other than an error; the event counted for the call reports that
\* value, as the variation that details name in a version of the flag that
\* was current during the call.
ValueIsTheVariation(types) ==
    result' = "flag" =>
        /\ value[1] \in types /\ details'.reason \notin {"ERROR", "UNKNOWN"}
        /\ details'.hasVariation
        /\ LET e == posted[1]
           IN  /\ e.key = flagKey /\ e.value = value
               /\ e.variation = details'.variationIndex
               /\ TruthfulEvent(e)

TypedResult == [][\A types \in Accepted : checkType(types) => ValueIsTheVariation(types)]_vars

\* Every call returns.
EvaluationEnds == pc # "idle" ~> pc = "returned"

\* The first variation of a rollout has one share, which is raised, and
\* nothing else is changed.
Ramps(old, new) ==
    /\ \A flag \in {old, new} : flag # Absent /\ flag.fallthrough.rollout # Absent
    /\ old.fallthrough.rollout.variations[1].weight
         < new.fallthrough.rollout.variations[1].weight
    /\ [new EXCEPT !.fallthrough.rollout.variations[1].weight =
           old.fallthrough.rollout.variations[1].weight] = old
    /\ \A i \in DOMAIN old.fallthrough.rollout.variations \ {1} :
         old.fallthrough.rollout.variations[i].variation
           # old.fallthrough.rollout.variations[1].variation

\* Raising a share so never takes the variation away from a user who had it:
\* the loop of LDi_getIndexForVariationOrRollout adds up the shares in order.
StaysInRamp ==
    [][\A k \in FlagKeys :
        LET old == Feature(k)
            new == Versions(k)[version'[k]]
            Index(flag) == getIndexForVariationOrRollout(flag, flag.fallthrough, user).index
            first == old.fallthrough.rollout.variations[1].variation
        IN  world \in WellFormed /\ Ramps(old, new) /\ Index(old) = first
              => Index(new) = first]_vars

-----------------------------------------------------------------------------
(* What the documentation, or the code elsewhere, says and the code does   *)
(* not do.                                                                 *)

\* LDDetailsClear frees "any resources associated with details"
\* (variations.h): the texts copied in a call are theirs when it returns.
\* An error that overwrites the union loses one.
DetailsOwnTheirTexts == pc = "returned" => strings = Owned(details)

\* hasVariation is "false if the default value was returned" (variations.h).
FallbackHasNoVariation == result = "fallback" => ~details.hasVariation

\* A store that fails under an evaluation is "an internal exception with the
\* flag store" (variations.h, LD_STORE_ERROR).
FailureHasAReason == pc = "returned" => details.reason # "UNKNOWN"

\* "A rule specified a nonexistent variation" is LD_MALFORMED_FLAG
\* (variations.h), not lack of memory.
NoMemoryMeansNoMemory ==
    pc = "returned" /\ quiet => ~(details.reason = "ERROR" /\ details.extra = "OOM")

\* A reference taken for a call is dropped (LDJSONRCDecrement): nothing is
\* held once it has returned.  A read that fails may have set its result
\* (store.c:980), and evaluate.c:483 and 747 return without dropping it.
NothingHeldAfterwards == pc = "returned" => \A k \in Keys : held[k] = 0

-----------------------------------------------------------------------------
(* The inductive invariant.                                                *)

FrameFields == {"key", "version", "at", "i", "rule", "clause", "segment",
                "details", "value", "events", "status"}
DetailsFields == {"reason", "extra", "hasVariation", "variationIndex"}
Reasons == {"OFF", "PREREQUISITE_FAILED", "TARGET_MATCH", "RULE_MATCH", "FALLTHROUGH"}

\* A frame is about a flag; the value it has, if it has one, is the variation
\* its details name, given for a reason.
FrameOK(f) ==
    /\ DOMAIN f = FrameFields /\ DOMAIN f.details = DetailsFields
    /\ IsSequence(f.events)
    /\ FlagOf(f) # Absent
    /\ f.at # "returned" => f.value = Absent
    /\ f.value # Absent =>
         /\ f.details.hasVariation = TRUE /\ f.details.reason \in Reasons
         /\ f.value = FlagOf(f).variations[f.details.variationIndex + 1]

\* All frames but the innermost wait for a prerequisite.  The outermost is
\* about the flag asked for, in a version that was current during the call.
StackOK ==
    /\ IsSequence(stack) /\ \A n \in 1..Len(stack) : FrameOK(stack[n])
    /\ \A n \in 1..Len(stack) - 1 : stack[n].at = "prerequisites"
    /\ stack # <<>> => /\ stack[1].key = flagKey
                       /\ stack[1].version \in began[flagKey]..version[flagKey]
    /\ pc \in {"idle", "returned"} => stack = <<>>
    /\ pc = "evaluate" => stack # <<>>
    /\ pc \in {"process", "check"} => Len(stack) <= 1

\* What LDi_evaluate returned is what its outermost frame holds.
OutcomeOK ==
    /\ pc \in {"idle", "evaluate"} => value = Absent
    /\ pc \in {"process", "check"} =>
         /\ IsSequence(events)
         /\ value # Absent =>
              stack # <<>> /\ value = stack[1].value /\ details = stack[1].details
    /\ pc = "idle" => events = <<>>
    /\ pc = "check" =>
         \A x \in {"key", "value", "variation", "version"} : posted[1][x] = FlagEvent[x]

CountersOK ==
    /\ world \in DOMAIN History /\ flagKey \in FlagKeys
    /\ version \in [Keys -> Nat] /\ began \in [Keys -> Nat]
    /\ held \in [Keys -> Nat]
    /\ pc \in {"idle", "evaluate", "process", "check", "returned"}

\* A read that leaves a reference behind is the last of its call.
LeakEnds ==
    /\ pc = "idle" => leaked = {}
    /\ pc = "evaluate" /\ leaked # {} => Top.at = "returned" /\ Top.status = "STORE"

Inv == CountersOK /\ StackOK /\ OutcomeOK /\ ReferencesBalanced /\ LeakEnds

\* For EventsExplainResult.  Versions only go up while a call is under way.
VersionsOK ==
    \A k \in Keys : began[k] \in 1..version[k] /\ version[k] \in DOMAIN Versions(k)

\* Where a frame is tells how far it got and what it may have found.
Story(f) ==
    /\ f.key \in FlagKeys /\ f.version \in began[f.key]..version[f.key]
    /\ f.i \in 1..(Len(Walk(f)) + 1)
    /\ f.at # "returned" => f.details.reason = "UNKNOWN" /\ f.details.hasVariation = FALSE
    /\ f.at \in {"targets", "rules", "clauses", "fallthrough"} => f.i = Len(Walk(f)) + 1
    /\ f.at = "failed" \/ f.details.reason = "PREREQUISITE_FAILED" =>
         FailureShown(f) /\ f.i <= Len(Walk(f)) /\ Walk(f)[f.i].key \in FlagKeys
    /\ \A e \in Range(f.events) : e.key \in FlagKeys
    /\ f.at \notin {"on", "returned"} => FlagOf(f).on = TRUE
    /\ f.at = "returned" /\ ~isEvalError(f.status) =>
         /\ f.details.hasVariation => f.value # Absent
         /\ f.status = "MISS" => f.details.reason \in {"OFF", "PREREQUISITE_FAILED"}
         /\ FlagOf(f).on = TRUE \/ f.details.reason = "OFF"

\* A frame that waits does so for the one above it.
WaitsFor(f, g) == ReadablePrerequisite(f) /\ g.key = Prerequisite(f).key

StoryInv ==
    /\ VersionsOK
    /\ \A f \in Range(stack) : Story(f) /\ Explained(f)
    /\ \A n \in 1..Len(stack) - 1 : WaitsFor(stack[n], stack[n + 1])

\* For QuietEvaluation: what the part a frame has reached says of the flag's
\* meaning, in snapshot s with outcomes M.
FlagIn(s, f) == FeatureIn(s, f.key)

PassedUpTo(f, s, M, n) ==
    /\ FlagIn(s, f).on = TRUE /\ f.i = n + 1 /\ n <= Len(FlagIn(s, f).prerequisites)
    /\ f.events = EventsUpTo(s, f.key, M, n)
    /\ \A j \in 1..n : j \notin Failed(s, f.key, M)

PassedAll(f, s, M) ==
    /\ PassedUpTo(f, s, M, Len(FlagIn(s, f).prerequisites))
    /\ Targets(s, FlagIn(s, f)) = {} \/ f.at = "targets"

MissedUpTo(f, s, n) ==
    f.rule = n + 1 /\ \A j \in 1..n : j \notin Rules(s, FlagIn(s, f))

\* The clauses of the current rule before the current one hold, and of a
\* clause that names segments those before the current one do not.
HeldUpTo(f, s) ==
    LET clauses == FlagIn(s, f).rules[f.rule].clauses
    IN  /\ f.rule <= Len(FlagIn(s, f).rules) /\ f.clause <= Len(clauses) + 1
        /\ \A j \in 1..(f.clause - 1) : ClauseHolds(s, clauses[j])
        /\ f.clause <= Len(clauses) /\ IsSegmentMatch(clauses[f.clause]) =>
             /\ f.segment <= Len(clauses[f.clause].values) + 1
             /\ \A j \in 1..(f.segment - 1) : ~SegmentHolds(s, clauses[f.clause].values[j])

FailedAt(f, s, M) ==
    /\ FlagIn(s, f).on = TRUE /\ f.events = EventsUpTo(s, f.key, M, f.i)
    /\ f.i \in Failed(s, f.key, M) /\ \A j \in 1..(f.i - 1) : j \notin Failed(s, f.key, M)

ReturnedMeaning(f, M) ==
    /\ M[f.key] = [found |-> TRUE, details |-> f.details, value |-> f.value,
                   events |-> f.events]
    /\ f.status = IF f.details.reason \in {"OFF", "PREREQUISITE_FAILED"}
                  THEN "MISS" ELSE "MATCH"

Progress(f, s, M) ==
    /\ f.at \in {"on", "prerequisites", "targets"} => f.rule = 1
    /\ f.at = "on" => f.i = 1 /\ f.events = <<>>
    /\ f.at = "prerequisites" => PassedUpTo(f, s, M, f.i - 1)
    /\ f.at = "failed" => FailedAt(f, s, M)
    /\ f.at \in {"targets", "rules", "clauses", "fallthrough"} => PassedAll(f, s, M)
    /\ f.at \in {"rules", "clauses"} => MissedUpTo(f, s, f.rule - 1)
    /\ f.at = "clauses" => HeldUpTo(f, s)
    /\ f.at = "fallthrough" => Rules(s, FlagIn(s, f)) = {}
    /\ f.at = "returned" => ReturnedMeaning(f, M)

QuietFrame(f, s, M) ==
    /\ f.version = s.version[f.key]
    /\ {f.i, f.rule, f.clause, f.segment} \subseteq Nat \ {0}
    /\ f.at \in {"on", "prerequisites", "failed", "targets", "rules"} =>
         f.clause = 1 /\ f.segment = 1
    /\ f.at # "returned" => f.details = NoDetails
    /\ Progress(f, s, M)

QuietInv ==
    /\ user \in Users /\ Acyclic(version)
    /\ DOMAIN details = DetailsFields /\ (pc = "idle" => details = NoDetails)
    /\ Quiet =>
         /\ \A f \in Range(stack) : QuietFrame(f, Snapshot, Meant)
         /\ pc = "check" /\ details.reason = "ERROR" => details.extra = "FLAG_NOT_FOUND"
         /\ QuietEvaluation

=============================================================================
