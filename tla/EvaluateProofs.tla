--------------------------- MODULE EvaluateProofs ---------------------------
(***************************************************************************)
(* A variation call drops every reference it takes and hands out only what *)
(* the flag says, for any flags, segments, users and writes in between.    *)
(* Inv is inductive: it follows each frame of LDi_evaluate from the flag   *)
(* it is about to the value it holds, and the outermost one to the caller. *)
(* Which variation a rule, a rollout or a segment selects plays no part.   *)
(* StoryInv, on top of it, follows the walk through the prerequisites and  *)
(* says that the events of a call explain its result.                      *)
(*                                                                         *)
(* The second half is about what is selected.  A rollout whose first share *)
(* grows keeps its users.  Each loop of the code decides what the reference*)
(* says with a quantifier, the reference is well defined because flags can *)
(* be ranked by their prerequisites, and QuietInv follows each frame to    *)
(* the outcome that the reference gives its flag.                          *)
(***************************************************************************)
EXTENDS Evaluate, FiniteSetTheorems, SequenceTheorems, WellFoundedInduction, TLAPS

-----------------------------------------------------------------------------
(* Frames.  Every part of LDi_evaluate makes of a frame that has not       *)
(* returned one that is about the same version of the same flag.           *)

Keeps(f, g) == FrameOK(g) /\ g.key = f.key /\ g.version = f.version

Open(f) == FrameOK(f) /\ f.value = Absent

(* The end of LDi_evaluate keeps what the frame holds.                     *)
LEMMA ReturnedKeeps ==
    ASSUME NEW f, FrameOK(f), NEW status
    PROVE  Keeps(f, Returned(f, status)) /\ Returned(f, status).details = f.details
BY DEF Keeps, FrameOK, Returned, FrameFields, FlagOf, Versions

(* A value is the variation that details name.                             *)
LEMMA ServedKeeps ==
    ASSUME NEW f, Open(f), f.details.reason \in Reasons,
           NEW index, NEW memory \in BOOLEAN, NEW status
    PROVE  Keeps(f, Served(f, index, memory, status))
<1> DEFINE g == addValue(f, index, memory)
<1>1. /\ DOMAIN g = FrameFields /\ DOMAIN g.details = DetailsFields
      /\ g.events = f.events /\ g.key = f.key /\ g.version = f.version
      /\ g.details.reason = f.details.reason
  BY DEF Open, FrameOK, addValue, FrameFields, DetailsFields
<1>2. g.value # Absent =>
        /\ g.details.hasVariation = TRUE
        /\ g.value = FlagOf(f).variations[g.details.variationIndex + 1]
  BY DEF Open, FrameOK, addValue, FrameFields, DetailsFields
<1>3. FlagOf(g) = FlagOf(f)
  BY <1>1 DEF FlagOf, Versions
<1> HIDE DEF g
<1>4. \A s : Keeps(f, Returned(g, s))
  BY <1>1, <1>2, <1>3 DEF Keeps, Open, FrameOK, Returned, FrameFields, FlagOf, Versions
<1> QED
  BY <1>4 DEF Served, g

(* Details get their reason before the value is looked up.                 *)
LEMMA BecauseKeeps ==
    ASSUME NEW f, Open(f), NEW reason, NEW extra
    PROVE  LET g == [f EXCEPT !.details = Because(@, reason, extra)]
           IN  Open(g) /\ Keeps(f, g) /\ g.details.reason = reason
<1> DEFINE g == [f EXCEPT !.details = Because(@, reason, extra)]
<1>1. /\ DOMAIN g = FrameFields /\ DOMAIN g.details = DetailsFields
      /\ g.events = f.events /\ g.key = f.key /\ g.version = f.version
      /\ g.details.reason = reason /\ g.value = f.value /\ g.at = f.at
  BY DEF Open, FrameOK, Because, FrameFields, DetailsFields
<1> HIDE DEF g
<1>2. FlagOf(g) = FlagOf(f)
  BY <1>1 DEF FlagOf, Versions
<1>3. Open(g) /\ Keeps(f, g) /\ g.details.reason = reason
  BY <1>1, <1>2 DEF Open, Keeps, FrameOK
<1> QED
  BY <1>3 DEF g

(* The loops move within the function.                                     *)
LEMMA MoveKeeps ==
    ASSUME NEW f, Open(f)
    PROVE  /\ \A place : Keeps(f, [f EXCEPT !.at = place])
           /\ Keeps(f, [f EXCEPT !.segment = @ + 1])
           /\ Keeps(f, [f EXCEPT !.clause = @ + 1, !.segment = 1])
           /\ Keeps(f, [f EXCEPT !.at = "rules", !.rule = @ + 1, !.clause = 1, !.segment = 1])
BY DEF Keeps, Open, FrameOK, FrameFields, FlagOf, Versions

LEMMA RuleLoopKeeps ==
    ASSUME NEW f, Open(f), NEW status
    PROVE  Keeps(f, ruleMatchesUser(f, status))
BY MoveKeeps, ReturnedKeeps DEF ruleMatchesUser, Open

LEMMA SegmentLoopKeeps ==
    ASSUME NEW f, Open(f), NEW segment, NEW seen
    PROVE  Keeps(f, afterSegment(f, segment, seen))
BY MoveKeeps, ReturnedKeeps, RuleLoopKeeps DEF afterSegment, Open

(* A rule that matches: the value, then the rule's id.                     *)
LEMMA RuleServedKeeps ==
    ASSUME NEW f, Open(f), NEW choice, NEW memory \in BOOLEAN, NEW idMemory \in BOOLEAN
    PROVE  Keeps(f, ruleServed(f, choice, memory, idMemory))
<1> DEFINE h == [f EXCEPT !.details =
                   Because(@, "RULE_MATCH", RuleDetails(f, Absent, choice.inExperiment))]
           g == Served(h, choice.index, memory, "MATCH")
           id == Rule(f).id
           named == [g EXCEPT !.details.extra.id = id]
<1>1. Open(h) /\ Keeps(f, h) /\ h.details.reason \in Reasons
  BY BecauseKeeps DEF Reasons
<1> HIDE DEF h
<1>2. Keeps(f, g)
  BY <1>1, ServedKeeps DEF Keeps
<1> HIDE DEF g
<1>3. \A s : Keeps(f, Returned(g, s))
  BY <1>2, ReturnedKeeps DEF Keeps
<1>4. Keeps(f, named)
  <2>1. /\ DOMAIN named = FrameFields /\ DOMAIN named.details = DetailsFields
        /\ named.events = g.events /\ named.key = g.key /\ named.version = g.version
        /\ named.value = g.value /\ named.at = g.at
        /\ named.details.reason = g.details.reason
        /\ named.details.hasVariation = g.details.hasVariation
        /\ named.details.variationIndex = g.details.variationIndex
    BY <1>2 DEF Keeps, FrameOK, FrameFields, DetailsFields
  <2> HIDE DEF named
  <2>2. FlagOf(named) = FlagOf(g)
    BY <2>1 DEF FlagOf, Versions
  <2> QED
    BY <1>2, <2>1, <2>2 DEF Keeps, FrameOK
<1> HIDE DEF named
<1> QED
  BY <1>2, <1>3, <1>4 DEF ruleServed, g, h, named

(* Two sequences and one more element make a sequence.                     *)
LEMMA Sequences ==
    ASSUME NEW s, NEW t, IsSequence(s), IsSequence(t), NEW e
    PROVE  IsSequence((s \o t) \o <<e>>)
<1> DEFINE S == Range(s) \cup Range(t) \cup {e}
<1>1. s \in Seq(S) /\ t \in Seq(S) /\ <<e>> \in Seq(S)
  <2>1. s \in Seq(Range(s)) /\ t \in Seq(Range(t)) /\ Range(s) \subseteq S /\ Range(t) \subseteq S
    BY DEF IsSequence
  <2> QED
    BY <2>1, SeqMonotonic
<1>2. (s \o t) \o <<e>> \in Seq(S)
  BY <1>1, ConcatProperties
<1> QED
  BY <1>2, SeqOfRange DEF IsSequence

(* The caller goes on with its events and those of its prerequisite.       *)
LEMMA CallerKeeps ==
    ASSUME NEW caller, Open(caller), NEW f, FrameOK(f), NEW event
    PROVE  Keeps(caller, afterPrerequisite(caller, f, event))
<1> DEFINE passed == [caller EXCEPT !.events = (@ \o f.events) \o <<event>>]
<1>1. /\ DOMAIN passed = FrameFields /\ passed.details = caller.details
      /\ passed.events = (caller.events \o f.events) \o <<event>>
      /\ passed.key = caller.key /\ passed.version = caller.version
      /\ passed.value = caller.value /\ passed.at = caller.at
  BY DEF Open, FrameOK, FrameFields
<1>2. IsSequence(passed.events)
  BY <1>1, Sequences DEF Open, FrameOK
<1> HIDE DEF passed
<1>3. FlagOf(passed) = FlagOf(caller)
  BY <1>1 DEF FlagOf, Versions
<1>4. Open(passed) /\ Keeps(caller, passed)
  BY <1>1, <1>2, <1>3 DEF Open, Keeps, FrameOK
<1>5. Keeps(passed, [passed EXCEPT !.at = "failed"])
  BY <1>4, MoveKeeps
<1>6. Keeps(passed, [passed EXCEPT !.i = @ + 1])
  BY <1>4 DEF Open, Keeps, FrameOK, FrameFields, FlagOf, Versions
<1> QED
  BY <1>4, <1>5, <1>6 DEF afterPrerequisite, Keeps, passed

-----------------------------------------------------------------------------
(* The stack.                                                              *)

(* The innermost frame is one, and has no value unless it has returned.    *)
LEMMA TopIsAFrame ==
    ASSUME Inv, pc = "evaluate"
    PROVE  /\ Len(stack) \in Nat \ {0} /\ Top = stack[Len(stack)] /\ FrameOK(Top)
           /\ Top.at # "returned" => Open(Top)
<1>1. Len(stack) \in Nat \ {0}
  BY DEF Inv, StackOK, IsSequence
<1> QED
  BY <1>1 DEF Inv, StackOK, Top, Last, Open, FrameOK

(* The innermost frame is replaced.                                        *)
LEMMA SetTopStack ==
    ASSUME Inv, pc = "evaluate", NEW g, SetTop(g)
    PROVE  /\ Len(stack') = Len(stack) /\ IsSequence(stack')
           /\ \A n \in 1..Len(stack) : stack'[n] = IF n = Len(stack) THEN g ELSE stack[n]
<1> DEFINE S == Range(stack) \cup {g}
<1>1. stack \in Seq(Range(stack)) /\ Len(stack) \in Nat \ {0}
  BY TopIsAFrame DEF Inv, StackOK, IsSequence
<1>2. stack \in Seq(S) /\ Len(stack) \in 1..Len(stack) /\ g \in S
  BY <1>1, SeqMonotonic
<1> HIDE DEF S
<1>3. /\ stack' \in Seq(S) /\ Len(stack') = Len(stack)
      /\ \A n \in 1..Len(stack) : stack'[n] = IF n = Len(stack) THEN g ELSE stack[n]
  BY <1>2, ExceptSeq DEF SetTop
<1> QED
  BY <1>3, SeqOfRange DEF IsSequence

(* The frames about k can be counted.                                      *)
LEMMA FramesFinite ==
    ASSUME IsSequence(stack), NEW k
    PROVE  /\ DOMAIN stack = 1..Len(stack) /\ Len(stack) \in Nat
           /\ IsFiniteSet(Frames(k)) /\ Cardinality(Frames(k)) \in Nat
<1>1. DOMAIN stack = 1..Len(stack) /\ Len(stack) \in Nat
  BY DEF IsSequence
<1>2. 1 \in Int /\ Len(stack) \in Int
  BY <1>1
<1>3. IsFiniteSet(1..Len(stack))
  BY <1>2, FS_Interval
<1>4. Frames(k) \in SUBSET (1..Len(stack))
  BY <1>1 DEF Frames
<1> QED
  BY <1>1, <1>3, <1>4, FS_Subset, FS_CardinalityType

(* A step within the innermost frame.                                      *)
LEMMA SetTopFrames ==
    ASSUME Inv, pc = "evaluate", NEW g, Keeps(Top, g), SetTop(g),
           UNCHANGED <<store, outcome, began>>
    PROVE  /\ StackOK' /\ OutcomeOK' /\ \A k : Frames(k)' = Frames(k)
           /\ Top' = g /\ UNCHANGED <<world, version, began, pc, flagKey>>
<1>1. /\ Len(stack) \in Nat \ {0} /\ Top = stack[Len(stack)]
      /\ stack \in Seq(Range(stack)) /\ UNCHANGED <<world, version, began, pc, flagKey>>
  BY TopIsAFrame DEF Inv, StackOK, IsSequence, store, outcome
<1>2. /\ Len(stack') = Len(stack) /\ IsSequence(stack')
      /\ \A n \in 1..Len(stack) : stack'[n] = IF n = Len(stack) THEN g ELSE stack[n]
  BY SetTopStack
<1>3. \A n \in 1..Len(stack) : /\ FrameOK(stack'[n])
                               /\ stack'[n].key = stack[n].key
                               /\ stack'[n].version = stack[n].version
  BY <1>1, <1>2 DEF Inv, StackOK, Keeps
<1>4. \A n \in 1..Len(stack') : FrameOK(stack[n])'
  BY <1>1, <1>2, <1>3 DEF FrameOK, FlagOf, Versions
<1>5. StackOK'
  <2>1. \A n \in 1..Len(stack') - 1 : stack'[n].at = "prerequisites"
    BY <1>1, <1>2 DEF Inv, StackOK
  <2> QED
    BY <1>1, <1>2, <1>3, <1>4, <2>1 DEF Inv, StackOK
<1>6. OutcomeOK'
  BY <1>1 DEF Inv, OutcomeOK, outcome
<1>7. \A k : Frames(k)' = Frames(k)
  <2>1. DOMAIN stack = 1..Len(stack) /\ DOMAIN stack' = 1..Len(stack)
    BY <1>1, <1>2 DEF IsSequence
  <2> QED
    BY <1>3, <2>1 DEF Frames
<1>8. Top' = g
  BY <1>1, <1>2 DEF Top, Last
<1> QED
  BY <1>1, <1>5, <1>6, <1>7, <1>8

(* The same with all references where they were.                           *)
LEMMA SetTopKeeps ==
    ASSUME Inv, pc = "evaluate", Top.at # "returned", NEW g, Keeps(Top, g), SetTop(g),
           UNCHANGED <<store, outcome, held, leaked, began>>
    PROVE  Inv'
<1>1. /\ StackOK' /\ OutcomeOK' /\ \A k : Frames(k)' = Frames(k)
      /\ UNCHANGED <<world, version, began, pc, flagKey>>
  BY SetTopFrames
<1>2. CountersOK' /\ ReferencesBalanced'
  BY <1>1 DEF Inv, CountersOK, ReferencesBalanced
<1>3. LeakEnds'
  BY <1>1 DEF Inv, LeakEnds
<1> QED
  BY <1>1, <1>2, <1>3 DEF Inv

(* One count changes, if there is one for that key.                        *)
LEMMA CountsChange ==
    ASSUME held \in [Keys -> Nat], NEW p, NEW n, p \in Keys => n \in Nat
    PROVE  [held EXCEPT ![p] = n] \in [Keys -> Nat]
<1>1. CASE p \in Keys
  BY <1>1
<1>2. CASE p \notin Keys
  <2>1. [held EXCEPT ![p] = n] = held
    BY <1>2
  <2> QED
    BY <2>1
<1> QED
  BY <1>1, <1>2

(* LDStoreGet fails: the frame returns, and what is left behind is one     *)
(* reference, the first of this call.                                      *)
LEMMA FailedReadInv ==
    ASSUME Inv, readPrerequisiteFails \/ readSegmentFails
    PROVE  Inv'
<1>1. /\ pc = "evaluate" /\ Top.at # "returned" /\ \E k : failedGet(k)
      /\ SetTop(Returned(Top, "STORE")) /\ UNCHANGED <<store, outcome, began>>
  BY DEF readPrerequisiteFails, ReadsPrerequisite, readSegmentFails, ReadsSegment,
         SegmentClause, At
<1>2. FrameOK(Top) /\ Open(Top)
  BY <1>1, TopIsAFrame
<1>3. Keeps(Top, Returned(Top, "STORE"))
  BY <1>2, ReturnedKeeps
<1>4. /\ StackOK' /\ OutcomeOK' /\ \A k : Frames(k)' = Frames(k)
      /\ Top' = Returned(Top, "STORE") /\ UNCHANGED <<world, version, began, pc, flagKey>>
  BY <1>1, <1>3, SetTopFrames
<1>5. LeakEnds'
  BY <1>1, <1>2, <1>4 DEF LeakEnds, Returned, FrameOK, FrameFields
<1>6. leaked = {} /\ held \in [Keys -> Nat]
  BY <1>1 DEF Inv, LeakEnds, CountersOK
<1>7. PICK k : failedGet(k)
  BY <1>1
<1>8. CASE UNCHANGED <<held, leaked>>
  BY <1>4, <1>5, <1>8 DEF Inv, CountersOK, ReferencesBalanced
<1>9. CASE held' = [held EXCEPT ![k] = @ + 1] /\ leaked' = leaked \cup {k}
  <2>1. held' \in [Keys -> Nat]
    <3>1. k \in Keys => held[k] + 1 \in Nat
      BY <1>6
    <3> QED
      BY <1>6, <1>9, <3>1, CountsChange
  <2>2. ASSUME NEW j \in Keys
        PROVE  held'[j] = Cardinality(Frames(j)') + (IF j \in leaked' THEN 1 ELSE 0)
    <3>1. held[j] = Cardinality(Frames(j)) + 0 /\ held[j] \in Nat
      BY <1>6 DEF Inv, ReferencesBalanced
    <3>2. Cardinality(Frames(j)) \in Nat
      BY FramesFinite DEF Inv, StackOK
    <3>3. held'[j] = IF j = k THEN held[j] + 1 ELSE held[j]
      BY <1>6, <1>9
    <3>4. j \in leaked' <=> j = k
      BY <1>6, <1>9
    <3> QED
      BY <1>4, <3>1, <3>2, <3>3, <3>4
  <2>3. \A i, j \in leaked' : i = j
    BY <1>6, <1>9
  <2>4. ReferencesBalanced'
    BY <2>2, <2>3 DEF ReferencesBalanced
  <2>5. CountersOK'
    BY <1>4, <2>1 DEF Inv, CountersOK
  <2> QED
    BY <1>4, <1>5, <2>4, <2>5 DEF Inv
<1> QED
  BY <1>7, <1>8, <1>9 DEF failedGet

(* The parts of LDi_evaluate that change the innermost frame only.         *)
LEMMA LocalInv ==
    ASSUME Inv,
           \/ evaluateOn
           \/ \E memory \in BOOLEAN :
                evaluateOff(memory) \/ prerequisiteFailed(memory) \/ evaluateTargets(memory)
           \/ checkPrerequisitesEnds \/ prerequisiteFailedNoMemory
           \/ evaluateRules \/ segmentsEnd
           \/ \E lost \in Lost : clauseMatchesUser(lost) \/ readSegment(lost)
           \/ \E lost \in Lost, memory \in BOOLEAN :
                \/ evaluateFallthrough(lost, memory)
                \/ \E idMemory \in BOOLEAN : ruleMatches(lost, memory, idMemory)
    PROVE  Inv'
<1>0. /\ pc = "evaluate" /\ Top.at # "returned"
      /\ UNCHANGED <<store, outcome, held, leaked, began>>
  BY DEF At, Local, evaluateOn, evaluateOff, prerequisiteFailed, evaluateTargets,
         checkPrerequisitesEnds, prerequisiteFailedNoMemory, evaluateRules,
         segmentsEnd, SegmentClause, ReadsSegment, clauseMatchesUser, readSegment,
         evaluateFallthrough, ruleMatches
<1>1. Open(Top) /\ FrameOK(Top)
  BY <1>0, TopIsAFrame
<1>2. /\ \A s : Keeps(Top, Returned(Top, s))
      /\ \A place : Keeps(Top, [Top EXCEPT !.at = place])
      /\ \A s : Keeps(Top, ruleMatchesUser(Top, s))
  BY <1>1, ReturnedKeeps, MoveKeeps, RuleLoopKeeps
<1>3. \A reason \in Reasons : \A extra, index, s : \A memory \in BOOLEAN :
        Keeps(Top, Served([Top EXCEPT !.details = Because(@, reason, extra)], index, memory, s))
  <2> SUFFICES ASSUME NEW reason \in Reasons, NEW extra, NEW index, NEW s,
                      NEW memory \in BOOLEAN
               PROVE  Keeps(Top, Served([Top EXCEPT !.details = Because(@, reason, extra)],
                                        index, memory, s))
    OBVIOUS
  <2> DEFINE h == [Top EXCEPT !.details = Because(@, reason, extra)]
  <2>1. Open(h) /\ Keeps(Top, h) /\ h.details.reason \in Reasons
    BY <1>1, BecauseKeeps
  <2> HIDE DEF h
  <2>2. Keeps(h, Served(h, index, memory, s))
    BY <2>1, ServedKeeps
  <2>3. Keeps(Top, Served(h, index, memory, s))
    BY <2>1, <2>2 DEF Keeps
  <2> QED
    BY <2>3 DEF h
<1>4. CASE evaluateOn \/ checkPrerequisitesEnds \/ evaluateRules
  <2>1. \E g : SetTop(g) /\ Keeps(Top, g)
    BY <1>2, <1>4 DEF evaluateOn, checkPrerequisitesEnds, evaluateRules
  <2> QED
    BY <1>0, <2>1, SetTopKeeps
<1>5. CASE prerequisiteFailedNoMemory
  <2>1. \E g : SetTop(g) /\ Keeps(Top, g)
    BY <1>2, <1>5 DEF prerequisiteFailedNoMemory
  <2> QED
    BY <1>0, <2>1, SetTopKeeps
<1>6. CASE segmentsEnd \/ \E lost \in Lost : clauseMatchesUser(lost)
  <2>1. \E g : SetTop(g) /\ Keeps(Top, g)
    BY <1>2, <1>6 DEF segmentsEnd, clauseMatchesUser
  <2> QED
    BY <1>0, <2>1, SetTopKeeps
<1>7. ASSUME NEW lost \in Lost, readSegment(lost)
      PROVE  Inv'
  <2>1. \E segment : SetTop(afterSegment(Top, segment, Seeing(lost)))
    BY <1>7 DEF readSegment
  <2>2. \A segment : Keeps(Top, afterSegment(Top, segment, Seeing(lost)))
    BY <1>1, SegmentLoopKeeps
  <2> QED
    BY <1>0, <2>1, <2>2, SetTopKeeps
<1>8. ASSUME NEW memory \in BOOLEAN, evaluateOff(memory) \/ prerequisiteFailed(memory)
      PROVE  Inv'
  <2>1. \E g : SetTop(g) /\ Keeps(Top, g)
    BY <1>3, <1>8 DEF evaluateOff, prerequisiteFailed, Reasons
  <2> QED
    BY <1>0, <2>1, SetTopKeeps
<1>9. ASSUME NEW memory \in BOOLEAN, evaluateTargets(memory)
      PROVE  Inv'
  <2> DEFINE targets == FlagOf(Top).targets
             hit == IF targets = Absent THEN 0 ELSE TargetHit(targets)
  <2>1. \/ \E s : SetTop(Returned(Top, s))
        \/ SetTop([Top EXCEPT !.at = "rules"])
        \/ SetTop(Served([Top EXCEPT !.details = Because(@, "TARGET_MATCH", Absent)],
                         targets[hit].variation, memory, "MATCH"))
    BY <1>9 DEF evaluateTargets
  <2> HIDE DEF targets, hit
  <2>2. \E g : SetTop(g) /\ Keeps(Top, g)
    BY <1>2, <1>3, <2>1 DEF Reasons
  <2> QED
    BY <1>0, <2>2, SetTopKeeps
<1>10. ASSUME NEW lost \in Lost, NEW memory \in BOOLEAN, evaluateFallthrough(lost, memory)
       PROVE  Inv'
  <2> DEFINE choice == getIndexForVariationOrRollout(FlagOf(Top), FlagOf(Top).fallthrough,
                                                     Seeing(lost))
             f == [Top EXCEPT !.details = Because(@, "FALLTHROUGH",
                                                  [inExperiment |-> choice.inExperiment])]
  <2>1. SetTop(Served(f, choice.index, memory, "MATCH")) \/ SetTop(Returned(f, "SCHEMA"))
    BY <1>10 DEF evaluateFallthrough
  <2> HIDE DEF choice
  <2>2. Keeps(Top, Served(f, choice.index, memory, "MATCH"))
    BY <1>3 DEF Reasons
  <2>3. Keeps(Top, f)
    BY <1>1, BecauseKeeps
  <2> HIDE DEF f
  <2>4. Keeps(Top, Returned(f, "SCHEMA"))
    BY <2>3, ReturnedKeeps DEF Keeps
  <2> QED
    BY <1>0, <2>1, <2>2, <2>4, SetTopKeeps
<1>11. ASSUME NEW lost \in Lost, NEW memory \in BOOLEAN, NEW idMemory \in BOOLEAN,
              ruleMatches(lost, memory, idMemory)
       PROVE  Inv'
  <2>1. \E choice : SetTop(ruleServed(Top, choice, memory, idMemory))
    BY <1>11 DEF ruleMatches
  <2>2. \A choice : Keeps(Top, ruleServed(Top, choice, memory, idMemory))
    BY <1>1, RuleServedKeeps
  <2> QED
    BY <1>0, <2>1, <2>2, SetTopKeeps
<1> QED
  BY <1>4, <1>5, <1>6, <1>7, <1>8, <1>9, <1>10, <1>11

(* A new frame is about a flag that is there, in its current version.      *)
LEMMA NewFrameOK ==
    ASSUME NEW k, Feature(k) # Absent
    PROVE  /\ FrameOK(NewFrame(k)) /\ NewFrame(k).key = k
           /\ NewFrame(k).version = version[k]
<1>1. IsSequence(<<>>)
  BY DEF IsSequence, Range
<1> QED
  BY <1>1 DEF NewFrame, FrameOK, FrameFields, DetailsFields, NoDetails, FlagOf, Feature, Versions

(* LDStoreGet of a prerequisite: a frame more and a reference more, or the *)
(* prerequisite has failed.                                                *)
LEMMA ReadPrerequisiteInv ==
    ASSUME Inv, readPrerequisite
    PROVE  Inv'
<1>1. /\ pc = "evaluate" /\ Top.at = "prerequisites"
      /\ UNCHANGED <<store, outcome, leaked, strings, began, quiet>>
  BY DEF readPrerequisite, ReadsPrerequisite, At
<1>2. Open(Top) /\ Len(stack) \in Nat \ {0} /\ leaked = {}
  BY <1>1, TopIsAFrame DEF Inv, LeakEnds
<1> DEFINE p == Prerequisite(Top).key
<1>3. CASE Feature(p) = Absent
  <2>1. SetTop([Top EXCEPT !.at = "failed"]) /\ UNCHANGED held
    BY <1>3 DEF readPrerequisite
  <2>2. Keeps(Top, [Top EXCEPT !.at = "failed"])
    BY <1>2, MoveKeeps
  <2> QED
    BY <1>1, <2>1, <2>2, SetTopKeeps
<1>4. CASE Feature(p) # Absent
  <2> DEFINE f == NewFrame(p)
  <2>1. stack' = Append(stack, f) /\ held' = [held EXCEPT ![p] = @ + 1]
    BY <1>4 DEF readPrerequisite
  <2> HIDE DEF p
  <2>2. FrameOK(f) /\ f.key = p
    BY <1>4, NewFrameOK
  <2> HIDE DEF f
  <2>3. UNCHANGED <<world, version, began, pc, flagKey>>
    BY <1>1 DEF store, outcome
  <2>4. /\ Len(stack') = Len(stack) + 1 /\ IsSequence(stack')
        /\ \A n \in 1..Len(stack) : stack'[n] = stack[n]
        /\ stack'[Len(stack) + 1] = f
    <3> DEFINE S == Range(stack) \cup {f}
    <3>1. stack \in Seq(S) /\ f \in S
      BY SeqMonotonic DEF Inv, StackOK, IsSequence
    <3> HIDE DEF S
    <3>2. /\ stack' \in Seq(S) /\ Len(stack') = Len(stack) + 1
          /\ \A n \in 1..Len(stack) : stack'[n] = stack[n]
          /\ stack'[Len(stack) + 1] = f
      BY <2>1, <3>1
    <3> QED
      BY <3>2, SeqOfRange DEF IsSequence
  <2>5. \A n \in 1..Len(stack') : FrameOK(stack[n])'
    <3>1. \A n \in 1..Len(stack') : FrameOK(stack'[n])
      BY <1>2, <2>2, <2>4 DEF Inv, StackOK
    <3> QED
      BY <2>3, <3>1 DEF FrameOK, FlagOf, Versions
  <2>6. StackOK'
    <3>1. stack' # <<>> /\ stack # <<>> /\ stack'[1] = stack[1]
      BY <1>1, <1>2, <2>4 DEF Inv, StackOK
    <3>2. \A n \in 1..Len(stack') - 1 : stack'[n].at = "prerequisites"
      BY <1>1, <1>2, <2>4, TopIsAFrame DEF Inv, StackOK
    <3> QED
      BY <1>1, <2>3, <2>4, <2>5, <3>1, <3>2 DEF Inv, StackOK
  <2>7. OutcomeOK'
    BY <1>1 DEF Inv, OutcomeOK, outcome
  <2>8. held' \in [Keys -> Nat]
    <3>1. held \in [Keys -> Nat] /\ (p \in Keys => held[p] + 1 \in Nat)
      BY DEF Inv, CountersOK
    <3> QED
      BY <2>1, <3>1, CountsChange
  <2>9. CountersOK'
    BY <2>3, <2>8 DEF Inv, CountersOK
  <2>10. ReferencesBalanced'
    <3> SUFFICES ASSUME NEW k \in Keys
                 PROVE  held'[k] = Cardinality(Frames(k)') + 0
      BY <1>1, <1>2 DEF ReferencesBalanced
    <3>1. /\ held[k] = Cardinality(Frames(k)) + 0 /\ IsFiniteSet(Frames(k))
          /\ Cardinality(Frames(k)) \in Nat
      BY <1>2, FramesFinite DEF Inv, StackOK, ReferencesBalanced
    <3>2. /\ DOMAIN stack = 1..Len(stack) /\ DOMAIN stack' = 1..Len(stack) + 1
      BY <2>4 DEF Inv, StackOK, IsSequence
    <3>3. CASE k = p
      <4>1. Frames(k)' = Frames(k) \cup {Len(stack) + 1} /\ Len(stack) + 1 \notin Frames(k)
        BY <1>2, <2>2, <2>4, <3>2, <3>3 DEF Frames
      <4>2. Cardinality(Frames(k)') = Cardinality(Frames(k)) + 1
        BY <3>1, <4>1, FS_AddElement
      <4> QED
        BY <2>1, <3>1, <3>3, <4>2 DEF Inv, CountersOK
    <3>4. CASE k # p
      <4>1. Frames(k)' = Frames(k)
        BY <1>2, <2>2, <2>4, <3>2, <3>4 DEF Frames
      <4> QED
        BY <2>1, <3>1, <3>4, <4>1 DEF Inv, CountersOK
    <3> QED
      BY <3>3, <3>4
  <2>11. LeakEnds'
    BY <1>1, <1>2 DEF LeakEnds, outcome
  <2> QED
    BY <2>6, <2>7, <2>9, <2>10, <2>11 DEF Inv
<1> QED
  BY <1>3, <1>4

(* All of a sequence but its last element.                                 *)
LEMMA FrontProperties ==
    ASSUME NEW S, NEW s \in Seq(S), Len(s) > 0
    PROVE  /\ Front(s) \in Seq(S) /\ Len(Front(s)) = Len(s) - 1
           /\ \A n \in 1..Len(s) - 1 : Front(s)[n] = s[n]
<1> DEFINE l == Len(s) - 1
<1>1. 1 \in Int /\ l \in Nat /\ l \in Int /\ \A i \in 1..l : s[i] \in S
  BY ElementOfSeq
<1>2. Front(s) = SubSeq(s, 1, l)
  BY DEF Front
<1> HIDE DEF l
<1>3. /\ SubSeq(s, 1, l) \in Seq(S)
      /\ Len(SubSeq(s, 1, l)) = IF 1 <= l THEN l - 1 + 1 ELSE 0
      /\ \A i \in 1..l - 1 + 1 : SubSeq(s, 1, l)[i] = s[1 + i - 1]
  BY <1>1, SubSeqProperties
<1>4. /\ Front(s) \in Seq(S) /\ Len(Front(s)) = l
      /\ \A i \in 1..l : Front(s)[i] = s[i]
  BY <1>1, <1>2, <1>3
<1> QED
  BY <1>4 DEF l

(* The innermost frame goes, and its caller goes on as g.                  *)
LEMMA Pops ==
    ASSUME Inv, Len(stack) > 1, NEW g, stack' = Append(Front(Front(stack)), g)
    PROVE  LET m == Len(stack) - 1
           IN  /\ Len(stack') = m /\ IsSequence(stack') /\ stack'[m] = g
               /\ \A n \in 1..m - 1 : stack'[n] = stack[n]
<1> DEFINE m == Len(stack) - 1
           S == Range(stack) \cup {g}
           front == Front(stack)
           rest == Front(front)
<1>1. m \in Nat \ {0} /\ Len(stack) = m + 1 /\ stack \in Seq(Range(stack))
  BY DEF Inv, StackOK, IsSequence
<1>2. stack \in Seq(S) /\ g \in S
  BY <1>1, SeqMonotonic
<1> HIDE DEF S
<1>3. front \in Seq(S) /\ Len(front) = m /\ \A n \in 1..m : front[n] = stack[n]
  <2>1. Len(stack) > 0
    BY <1>1
  <2> QED
    BY <1>2, <2>1, FrontProperties
<1> HIDE DEF front, m
<1>4. /\ rest \in Seq(S) /\ Len(rest) = m - 1
      /\ \A n \in 1..m - 1 : rest[n] = front[n]
  <2>1. Len(front) > 0
    BY <1>1, <1>3
  <2>2. /\ rest \in Seq(S) /\ Len(rest) = Len(front) - 1
        /\ \A n \in 1..Len(front) - 1 : rest[n] = front[n]
    BY <1>3, <2>1, FrontProperties
  <2> QED
    BY <1>3, <2>2
<1>5. stack' = Append(rest, g)
  BY DEF rest, front
<1> HIDE DEF rest
<1>6. \A n \in 1..m - 1 : rest[n] = stack[n]
  BY <1>1, <1>3, <1>4
<1>7. /\ stack' \in Seq(S) /\ Len(stack') = m /\ stack'[m] = g
      /\ \A n \in 1..m - 1 : stack'[n] = rest[n]
  BY <1>1, <1>2, <1>4, <1>5
<1>8. /\ Len(stack') = m /\ IsSequence(stack') /\ stack'[m] = g
      /\ \A n \in 1..m - 1 : stack'[n] = stack[n]
  BY <1>6, <1>7, SeqOfRange DEF IsSequence
<1> QED
  BY <1>8 DEF m

(* A prerequisite returns: its frame and its reference go, and the caller  *)
(* is still about its own flag.                                            *)
LEMMA PrerequisiteReturnsInv ==
    ASSUME Inv, NEW memory \in BOOLEAN, prerequisiteReturns(memory)
    PROVE  Inv'
<1> DEFINE m == Len(stack) - 1
           caller == stack[m]
           event == newFeatureRequestEvent(Top.key, FlagOf(Top), Top.version,
                        Top.details, Top.value, caller.key)
           g == IF isEvalError(Top.status) THEN Returned(caller, Top.status)
                ELSE IF ~memory THEN Returned(caller, "MEM")
                ELSE afterPrerequisite(caller, Top, event)
<1>1. /\ pc = "evaluate" /\ Len(stack) > 1
      /\ stack' = Append(Front(Front(stack)), g)
      /\ held' = [held EXCEPT ![Top.key] = @ - 1]
      /\ UNCHANGED <<store, outcome, leaked, began>>
  BY DEF prerequisiteReturns, At, release
<1>2. /\ Len(stack) \in Nat /\ m \in Nat \ {0} /\ m \in 1..Len(stack) - 1
      /\ FrameOK(Top) /\ Top = stack[m + 1]
      /\ FrameOK(caller) /\ stack \in Seq(Range(stack))
  <2>1. Len(stack) \in Nat /\ FrameOK(Top) /\ Top = stack[Len(stack)] /\ Len(stack) > 1
    BY <1>1, TopIsAFrame
  <2>2. m \in Nat \ {0} /\ m \in 1..Len(stack) - 1 /\ m + 1 = Len(stack) /\ m \in 1..Len(stack)
    BY <2>1
  <2> QED
    BY <2>1, <2>2 DEF Inv, StackOK, IsSequence
<1>3. Keeps(caller, g)
  <2>1. Open(caller)
    <3>1. caller.at = "prerequisites"
      BY <1>2 DEF Inv, StackOK
    <3> HIDE DEF caller
    <3> QED
      BY <1>2, <3>1 DEF Open, FrameOK
  <2> HIDE DEF caller, event
  <2> QED
    BY <1>2, <2>1, ReturnedKeeps, CallerKeeps
<1> HIDE DEF g
<1>4. UNCHANGED <<world, version, began, pc, flagKey>>
  BY <1>1 DEF store, outcome
<1>5. /\ Len(stack') = m /\ IsSequence(stack') /\ stack'[m] = g
      /\ \A n \in 1..m - 1 : stack'[n] = stack[n]
  BY <1>1, Pops
<1>6. \A n \in 1..m : /\ FrameOK(stack'[n]) /\ stack'[n].key = stack[n].key
                      /\ stack'[n].version = stack[n].version
  BY <1>2, <1>3, <1>5 DEF Inv, StackOK, Keeps
<1>7. StackOK'
  <2>1. \A n \in 1..Len(stack') : FrameOK(stack[n])'
    BY <1>4, <1>5, <1>6 DEF FrameOK, FlagOf, Versions
  <2>2. \A n \in 1..Len(stack') - 1 : stack'[n].at = "prerequisites"
    BY <1>2, <1>5 DEF Inv, StackOK
  <2>3. stack' # <<>> /\ stack # <<>> /\ 1 \in 1..m
    BY <1>1, <1>2, <1>5 DEF Inv, StackOK
  <2> QED
    BY <1>1, <1>4, <1>5, <1>6, <2>1, <2>2, <2>3 DEF Inv, StackOK
<1>8. OutcomeOK'
  BY <1>1 DEF Inv, OutcomeOK, outcome
<1> DEFINE Stray(k) == IF k \in leaked THEN 1 ELSE 0
<1>9. ASSUME NEW k \in Keys
      PROVE  /\ held[k] = Cardinality(Frames(k)) + Stray(k) /\ IsFiniteSet(Frames(k))
             /\ Cardinality(Frames(k)) \in Nat
             /\ Frames(k)' = Frames(k) \ {m + 1}
             /\ m + 1 \in Frames(k) <=> Top.key = k
  <2>1. DOMAIN stack = 1..m + 1 /\ DOMAIN stack' = 1..m
    BY <1>2, <1>5 DEF IsSequence
  <2>2. Frames(k)' = Frames(k) \ {m + 1} /\ (m + 1 \in Frames(k) <=> Top.key = k)
    BY <1>2, <1>6, <2>1 DEF Frames
  <2> QED
    BY <2>2, FramesFinite DEF Inv, StackOK, ReferencesBalanced
<1>10. ASSUME NEW k \in Keys
       PROVE  /\ Top.key = k => held[k] - 1 = Cardinality(Frames(k)') + Stray(k)
              /\ Top.key # k => held[k] = Cardinality(Frames(k)') + Stray(k)
              /\ Cardinality(Frames(k)') + Stray(k) \in Nat
  <2>1. CASE Top.key = k
    <3>1. Cardinality(Frames(k)') = Cardinality(Frames(k)) - 1 /\ IsFiniteSet(Frames(k)')
      <4>1. /\ IsFiniteSet(Frames(k)) /\ m + 1 \in Frames(k)
            /\ Frames(k)' = Frames(k) \ {m + 1}
        BY <1>9, <2>1
      <4> HIDE DEF m, Stray
      <4> QED
        BY <4>1, FS_RemoveElement
    <3>2. Cardinality(Frames(k)') \in Nat
      BY <3>1, FS_CardinalityType
    <3> QED
      BY <1>9, <2>1, <3>1, <3>2
  <2>2. CASE Top.key # k
    <3>1. Frames(k)' = Frames(k)
      BY <1>9, <2>2
    <3> QED
      BY <1>9, <2>2, <3>1
  <2> QED
    BY <2>1, <2>2
<1>11. held' \in [Keys -> Nat]
  <2>1. held \in [Keys -> Nat] /\ (Top.key \in Keys => held[Top.key] - 1 \in Nat)
    BY <1>10 DEF Inv, CountersOK
  <2> QED
    BY <1>1, <2>1, CountsChange
<1>12. CountersOK'
  BY <1>4, <1>11 DEF Inv, CountersOK
<1>13. ReferencesBalanced'
  <2> SUFFICES ASSUME NEW k \in Keys
               PROVE  held'[k] = Cardinality(Frames(k)') + Stray(k)
    BY <1>1 DEF Inv, ReferencesBalanced
  <2>1. held'[k] = IF Top.key = k THEN held[k] - 1 ELSE held[k]
    BY <1>1 DEF Inv, CountersOK
  <2> QED
    BY <1>10, <2>1
<1>14. LeakEnds'
  <2> SUFFICES ASSUME leaked # {}
               PROVE  g.at = "returned" /\ g.status = "STORE"
    <3>1. Top' = g
      BY <1>2, <1>5 DEF Top, Last
    <3> QED
      BY <1>1, <1>4, <3>1 DEF LeakEnds
  <2>1. Top.status = "STORE"
    BY <1>1 DEF Inv, LeakEnds
  <2>2. g = Returned(caller, "STORE")
    BY <2>1 DEF g, isEvalError
  <2> QED
    BY <1>2, <2>2 DEF Returned, FrameOK, FrameFields
<1> QED
  BY <1>7, <1>8, <1>12, <1>13, <1>14 DEF Inv

-----------------------------------------------------------------------------
(* The call around it.                                                     *)

LEMMA AtMostOne ==
    ASSUME NEW n \in Nat, n <= 1
    PROVE  n \in {0, 1}
OBVIOUS

(* The way out: one frame at most is left, and its reference is dropped.   *)
LEMMA ReturnKeeps ==
    ASSUME Inv, Len(stack) <= 1, NEW what, Return(what),
           UNCHANGED <<world, version, flagKey>>, UNCHANGED leaked,
           began' \in {began, version}
    PROVE  Inv'
<1>1. pc' = "returned" /\ stack' = <<>>
  BY DEF Return
<1>2. IsSequence(stack) /\ IsSequence(stack') /\ Len(stack) \in {0, 1} /\ Len(stack') = 0
  <2>1. IsSequence(stack) /\ Len(stack) \in Nat
    BY DEF Inv, StackOK, IsSequence
  <2>2. IsSequence(stack') /\ Len(stack') = 0
    BY <1>1 DEF IsSequence, Range
  <2>3. Len(stack) \in {0, 1}
    BY ONLY <2>1, Len(stack) <= 1, AtMostOne
  <2> QED
    BY <2>1, <2>2, <2>3
<1>3. StackOK' /\ OutcomeOK'
  BY <1>1, <1>2 DEF StackOK, OutcomeOK
<1>4. DOMAIN stack = 1..Len(stack)
  BY <1>2, FramesFinite
<1> DEFINE Stray(k) == IF k \in leaked THEN 1 ELSE 0
<1>5. ASSUME NEW k \in Keys
      PROVE  held'[k] = Stray(k) /\ Cardinality(Frames(k)') = 0
  <2>1. Frames(k)' = {}
    BY <1>1 DEF Frames
  <2>2. held[k] = Cardinality(Frames(k)) + Stray(k)
    BY DEF Inv, ReferencesBalanced
  <2>3. CASE stack = <<>>
    <3>1. Frames(k) = {} /\ held' = held
      BY <2>3 DEF Frames, Return
    <3> QED
      BY <2>1, <2>2, <3>1, FS_EmptySet
  <2>4. CASE stack # <<>>
    <3>1. Len(stack) = 1 /\ held' = [held EXCEPT ![stack[1].key] = @ - 1]
      BY <1>2, <2>4 DEF IsSequence, Return, release
    <3>2. Frames(k) = IF stack[1].key = k THEN {1} ELSE {}
      BY <1>4, <3>1 DEF Frames
    <3>3. held[k] = (IF stack[1].key = k THEN 1 ELSE 0) + Stray(k)
      BY <2>2, <3>2, FS_EmptySet, FS_Singleton
    <3>4. held'[k] = Stray(k)
      BY <3>1, <3>3 DEF Inv, CountersOK
    <3> QED
      BY <2>1, <3>4, FS_EmptySet
  <2> QED
    BY <2>3, <2>4
<1>6. ReferencesBalanced' /\ LeakEnds'
  BY <1>1, <1>5 DEF Inv, ReferencesBalanced, LeakEnds
<1>7. held' \in [Keys -> Nat]
  <2>1. DOMAIN held' = Keys /\ held' = [k \in DOMAIN held' |-> held'[k]]
    BY DEF Inv, CountersOK, Return, release
  <2> QED
    BY <1>5, <2>1
<1>8. CountersOK'
  BY <1>1, <1>7 DEF Inv, CountersOK
<1> QED
  BY <1>3, <1>6, <1>8 DEF Inv

(* variation() finds the flag and takes a reference, or there is none.     *)
LEMMA VariationInv ==
    ASSUME Inv, variation
    PROVE  Inv'
<1>1. /\ pc = "idle" /\ stack = <<>> /\ value = Absent /\ events = <<>>
      /\ UNCHANGED <<world, version, flagKey, value, events>> /\ began' = version
      /\ leaked = {} /\ leaked' = {}
  BY DEF Inv, StackOK, OutcomeOK, LeakEnds, variation, store
<1>2. ASSUME NEW k \in Keys
      PROVE  held[k] = 0
  <2>1. Frames(k) = {} /\ held[k] = Cardinality(Frames(k)) + 0
    BY <1>1 DEF Inv, ReferencesBalanced, Frames
  <2> QED
    BY <2>1, FS_EmptySet
<1>3. CASE Feature(flagKey) = Absent
  <2>1. pc' = "process" /\ UNCHANGED <<stack, held>>
    BY <1>3 DEF variation
  <2>2. IsSequence(<<>>)
    BY DEF IsSequence, Range
  <2>3. StackOK' /\ OutcomeOK'
    BY <1>1, <2>1, <2>2 DEF StackOK, OutcomeOK
  <2>4. CountersOK' /\ ReferencesBalanced' /\ LeakEnds'
    BY <1>1, <2>1 DEF Inv, CountersOK, ReferencesBalanced, Frames, LeakEnds
  <2> QED
    BY <2>3, <2>4 DEF Inv
<1>4. CASE Feature(flagKey) # Absent
  <2> DEFINE f == NewFrame(flagKey)
  <2>1. /\ pc' = "evaluate" /\ stack' = <<f>>
        /\ held' = [held EXCEPT ![flagKey] = @ + 1]
    BY <1>4 DEF variation
  <2>2. FrameOK(f) /\ f.key = flagKey /\ f.version = version[flagKey]
    BY <1>4, NewFrameOK
  <2>3. flagKey \in Keys /\ version[flagKey] \in Nat
    BY DEF Inv, CountersOK, Keys
  <2> HIDE DEF f
  <2>4. /\ IsSequence(stack') /\ Len(stack') = 1 /\ stack'[1] = f /\ stack' # <<>>
        /\ DOMAIN stack' = {1}
    BY <2>1 DEF IsSequence, Range
  <2>5. StackOK'
    <3>1. FrameOK(stack[1])'
      BY <1>1, <2>2, <2>4 DEF FrameOK, FlagOf, Versions
    <3>2. \A n \in 1..Len(stack') : FrameOK(stack[n])'
      BY <2>4, <3>1
    <3>3. stack'[1].version \in began'[flagKey']..version'[flagKey']
      BY <1>1, <2>2, <2>3, <2>4
    <3>4. 1..Len(stack') - 1 = {}
      BY <2>4
    <3> QED
      BY <1>1, <2>1, <2>2, <2>4, <3>2, <3>3, <3>4 DEF StackOK
  <2>6. OutcomeOK'
    BY <1>1, <2>1 DEF OutcomeOK
  <2>7. held' \in [Keys -> Nat]
    BY <2>1, <2>3 DEF Inv, CountersOK
  <2>8. CountersOK'
    BY <1>1, <2>1, <2>7 DEF Inv, CountersOK
  <2>9. ReferencesBalanced'
    <3> SUFFICES ASSUME NEW k \in Keys
                 PROVE  held'[k] = Cardinality(Frames(k)') + 0
      BY <1>1 DEF ReferencesBalanced
    <3>1. Frames(k)' = IF k = flagKey THEN {1} ELSE {}
      BY <2>2, <2>4 DEF Frames
    <3>2. held'[k] = IF k = flagKey THEN 1 ELSE 0
      BY <1>2, <2>1, <2>3 DEF Inv, CountersOK
    <3>3. Cardinality(Frames(k)') = IF k = flagKey THEN 1 ELSE 0
      BY <3>1, FS_EmptySet, FS_Singleton
    <3> QED
      BY <3>2, <3>3
  <2>10. LeakEnds'
    BY <1>1 DEF LeakEnds
  <2> QED
    BY <2>5, <2>6, <2>8, <2>9, <2>10 DEF Inv
<1> QED
  BY <1>3, <1>4

(* The event of the flag tells of the frame, whatever is written.          *)
LEMMA FlagEventStays ==
    ASSUME UNCHANGED <<world, stack, details, value, flagKey>>
    PROVE  FlagEvent' = FlagEvent
BY DEF FlagEvent, FlagOf, Versions

(* LDi_evaluate has returned to variation().                               *)
LEMMA EvaluatedInv ==
    ASSUME Inv, evaluated
    PROVE  Inv'
<1>1. pc = "evaluate" /\ Len(stack) = 1 /\ UNCHANGED <<world, version, flagKey, leaked, began>>
  BY DEF evaluated, At, store
<1>2. CASE Top.status \in {"MEM", "SCHEMA"}
  <2>1. Return("fallback")
    BY <1>2 DEF evaluated
  <2> QED
    BY <1>1, <2>1, ReturnKeeps
<1>3. CASE Top.status \notin {"MEM", "SCHEMA"}
  <2>1. /\ pc' = "process" /\ details' = Top.details /\ value' = Top.value
        /\ events' = Top.events /\ UNCHANGED <<stack, held>>
    BY <1>3 DEF evaluated
  <2>2. Top = stack[1] /\ FrameOK(Top)
    BY <1>1, TopIsAFrame
  <2>3. stack # <<>>
    BY <1>1 DEF Inv, StackOK
  <2>4. StackOK'
    <3>1. \A n \in 1..Len(stack) : FrameOK(stack[n])
      BY DEF Inv, StackOK
    <3>2. UNCHANGED <<world, stack>>
      BY <1>1, <2>1
    <3>3. \A n \in 1..Len(stack') : FrameOK(stack[n])'
      BY <3>1, <3>2 DEF FrameOK, FlagOf, Versions
    <3>4. pc' = "process" /\ Len(stack') <= 1 /\ stack' = stack
      <4>1. Len(stack') = 1
        BY <1>1, <3>2, Zenon
      <4>2. Len(stack') <= 1
        BY <4>1
      <4> QED
        BY <2>1, <3>2, <4>2
    <3>5. UNCHANGED <<flagKey, began, version>>
      BY <1>1
    <3> QED
      BY <3>3, <3>4, <3>5 DEF Inv, StackOK
  <2>5. OutcomeOK'
    BY <2>1, <2>2, <2>3 DEF OutcomeOK, FrameOK
  <2>6. CountersOK' /\ ReferencesBalanced' /\ LeakEnds'
    BY <1>1, <2>1 DEF Inv, CountersOK, ReferencesBalanced, Frames, LeakEnds
  <2> QED
    BY <2>4, <2>5, <2>6 DEF Inv
<1> QED
  BY <1>2, <1>3

(* LDi_processEvaluation counts the event of the flag first.               *)
LEMMA ProcessInv ==
    ASSUME Inv, NEW detailed \in BOOLEAN, processEvaluation(detailed)
    PROVE  Inv'
<1>1. /\ pc = "process" /\ pc' = "check" /\ posted' = Queued(detailed)
      /\ UNCHANGED <<world, version, flagKey, began, stack, held, leaked, details,
                     value, events>>
  BY DEF processEvaluation, store
<1>2. FlagEvent' = FlagEvent
  BY <1>1, FlagEventStays
<1>3. IsSequence(events)
  BY <1>1 DEF Inv, OutcomeOK
<1>4. posted'[1] = possiblyQueueEvent(FlagEvent, detailed)
  <2> DEFINE e == FlagEvent
             S == Range(events) \cup {e}
  <2>1. events \in Seq(S) /\ <<e>> \in Seq(S) /\ Len(<<e>>) = 1 /\ <<e>>[1] = e
    BY <1>3, SeqMonotonic DEF IsSequence
  <2>2. Len(events) \in Nat /\ 1 \in 1..(Len(events) + 1)
    BY <2>1
  <2> HIDE DEF S
  <2>3. (<<e>> \o events)[1] = e
    BY <2>1, <2>2, ConcatProperties
  <2> HIDE DEF e
  <2>4. posted'[1] = possiblyQueueEvent((<<e>> \o events)[1], detailed)
    BY <1>1, <2>2 DEF Queued, e
  <2> QED
    BY <2>3, <2>4 DEF e
<1>5. \A x \in {"key", "value", "variation", "version"} : posted'[1][x] = FlagEvent[x]
  <2>1. /\ "key" \in DOMAIN FlagEvent /\ "value" \in DOMAIN FlagEvent
        /\ "variation" \in DOMAIN FlagEvent /\ "version" \in DOMAIN FlagEvent
    BY DEF FlagEvent, newFeatureRequestEvent
  <2> QED
    BY <1>4, <2>1 DEF possiblyQueueEvent
<1>6. StackOK'
  <2>1. \A n \in 1..Len(stack) : FrameOK(stack[n])
    BY DEF Inv, StackOK
  <2>2. \A n \in 1..Len(stack') : FrameOK(stack[n])'
    BY <1>1, <2>1 DEF FrameOK, FlagOf, Versions
  <2> QED
    BY <1>1, <2>2 DEF Inv, StackOK
<1>7. OutcomeOK'
  BY <1>1, <1>2, <1>5 DEF Inv, OutcomeOK
<1>8. CountersOK' /\ ReferencesBalanced' /\ LeakEnds'
  BY <1>1 DEF Inv, CountersOK, ReferencesBalanced, Frames, LeakEnds
<1> QED
  BY <1>6, <1>7, <1>8 DEF Inv

(* The other ways a call returns.                                          *)
LEMMA WayOutInv ==
    ASSUME Inv,
           \/ \E kind \in {"OOM", "CLIENT_NOT_READY", "STORE_ERROR"} : variationFails(kind)
           \/ \E detailed \in BOOLEAN : processEvaluationFails(detailed)
           \/ \E types \in Accepted : checkType(types)
    PROVE  Inv'
<1>1. Len(stack) <= 1
  <2>1. pc \in {"idle", "process", "check"}
    BY DEF variationFails, processEvaluationFails, checkType
  <2> QED
    BY <2>1 DEF Inv, StackOK
<1>2. \E what : Return(what)
  BY DEF variationFails, processEvaluationFails, checkType
<1>3. UNCHANGED <<world, version, flagKey, leaked>> /\ began' \in {began, version}
  BY DEF variationFails, processEvaluationFails, checkType, store
<1> QED
  BY <1>1, <1>2, <1>3, ReturnKeeps

(* The caller clears its details.                                          *)
LEMMA DetailsClearInv ==
    ASSUME Inv, detailsClear
    PROVE  Inv'
<1>1. /\ pc = "returned" /\ pc' = "idle" /\ flagKey' \in FlagKeys
      /\ value' = Absent /\ events' = <<>> /\ began' = version
      /\ held' = [k \in Keys |-> 0] /\ leaked' = {}
      /\ UNCHANGED <<world, version, stack>> /\ stack = <<>>
  BY DEF Inv, StackOK, detailsClear, store
<1>2. Len(stack') = 0 /\ IsSequence(stack')
  BY <1>1 DEF Inv, StackOK
<1>3. StackOK' /\ OutcomeOK'
  BY <1>1, <1>2 DEF StackOK, OutcomeOK
<1>4. CountersOK' /\ LeakEnds'
  BY <1>1 DEF Inv, CountersOK, LeakEnds
<1>5. ReferencesBalanced'
  <2>1. \A k \in Keys : Frames(k)' = {} /\ held'[k] = 0
    BY <1>1 DEF Frames
  <2>2. \A k \in Keys : Cardinality(Frames(k)') = 0
    BY <2>1, FS_EmptySet
  <2> QED
    BY <1>1, <2>1, <2>2 DEF ReferencesBalanced
<1> QED
  BY <1>3, <1>4, <1>5 DEF Inv

(* The network thread replaces a feature: versions only go up, and no      *)
(* frame looks at the store again for its own flag.                        *)
LEMMA WriteInv ==
    ASSUME Inv, NEW k \in Keys, write(k)
    PROVE  Inv'
<1>1. PICK v \in DOMAIN Versions(k) : v > version[k] /\ version' = [version EXCEPT ![k] = v]
  BY DEF write
<1>2. UNCHANGED <<world, flagKey, stack, held, leaked, began>> /\ UNCHANGED outcome
  BY DEF write, outcome
<1>3. version \in [Keys -> Nat] /\ began \in [Keys -> Nat] /\ flagKey \in Keys
  BY DEF Inv, CountersOK, Keys
<1>4. v \in Nat
  BY EvaluateAssumption DEF Inv, CountersOK, Versions
<1>5. version' \in [Keys -> Nat] /\ \A j \in Keys : version'[j] >= version[j]
  BY <1>1, <1>3, <1>4
<1>6. StackOK'
  <2>1. \A n \in 1..Len(stack) : FrameOK(stack[n])
    BY DEF Inv, StackOK
  <2>2. \A n \in 1..Len(stack') : FrameOK(stack[n])'
    BY <1>2, <2>1 DEF FrameOK, FlagOf, Versions
  <2>3. ASSUME stack # <<>>
        PROVE  stack[1].version \in began[flagKey]..version'[flagKey]
    <3>1. stack[1].version \in began[flagKey]..version[flagKey]
      BY <2>3 DEF Inv, StackOK
    <3> QED
      BY <1>3, <1>5, <3>1
  <2> QED
    BY <1>2, <2>2, <2>3 DEF Inv, StackOK, outcome
<1>7. OutcomeOK'
  <2>1. FlagEvent' = FlagEvent
    BY <1>2, FlagEventStays DEF outcome
  <2> QED
    BY <1>2, <2>1 DEF Inv, OutcomeOK, outcome
<1>8. CountersOK' /\ ReferencesBalanced' /\ LeakEnds'
  BY <1>2, <1>5 DEF Inv, CountersOK, ReferencesBalanced, Frames, LeakEnds, Top, outcome
<1> QED
  BY <1>6, <1>7, <1>8 DEF Inv

-----------------------------------------------------------------------------
(* Together.                                                               *)

LEMMA InitInv == Init => Inv
<1> SUFFICES ASSUME Init
             PROVE  Inv
  OBVIOUS
<1>1. IsSequence(<<>>) /\ Len(<<>>) = 0
  BY DEF IsSequence, Range
<1>2. StackOK /\ OutcomeOK
  BY <1>1 DEF Init, StackOK, OutcomeOK
<1>3. CountersOK
  BY DEF Init, CountersOK
<1>4. ReferencesBalanced /\ LeakEnds
  <2>1. leaked = {} /\ \A k \in Keys : Frames(k) = {} /\ held[k] = 0
    BY DEF Init, Frames
  <2> QED
    BY <2>1, FS_EmptySet DEF ReferencesBalanced, LeakEnds
<1> QED
  BY <1>2, <1>3, <1>4 DEF Inv

(* Inv is inductive.                                                       *)
LEMMA NextInv == Inv /\ [Next]_vars => Inv'
<1> SUFFICES ASSUME Inv, [Next]_vars
             PROVE  Inv'
  OBVIOUS
<1>1. CASE UNCHANGED vars
  <2>1. UNCHANGED <<world, version, began, stack, held, leaked, outcome>>
    BY <1>1 DEF vars, store
  <2>2. \A n \in 1..Len(stack) : FrameOK(stack[n])
    BY DEF Inv, StackOK
  <2>3. \A n \in 1..Len(stack') : FrameOK(stack[n])'
    BY <2>1, <2>2 DEF FrameOK, FlagOf, Versions
  <2>4. StackOK'
    BY <2>1, <2>3 DEF Inv, StackOK, outcome
  <2>5. FlagEvent' = FlagEvent
    BY <2>1, FlagEventStays DEF outcome
  <2>6. OutcomeOK'
    BY <2>1, <2>5 DEF Inv, OutcomeOK, outcome
  <2>7. CountersOK' /\ ReferencesBalanced' /\ LeakEnds'
    BY <2>1 DEF Inv, CountersOK, ReferencesBalanced, Frames, LeakEnds, Top, outcome
  <2> QED
    BY <2>4, <2>6, <2>7 DEF Inv
<1>2. CASE Evaluation
  BY <1>2, LocalInv, FailedReadInv, ReadPrerequisiteInv, PrerequisiteReturnsInv, EvaluatedInv,
     ProcessInv, WayOutInv DEF Evaluation
<1>3. CASE Call
  BY <1>3, VariationInv, WayOutInv, DetailsClearInv DEF Call
<1> QED
  BY <1>1, <1>2, <1>3, WriteInv DEF Next

(* LDi_evaluate and variation(): the inductive invariant holds, for every  *)
(* history of flags and segments and every user.                           *)
THEOREM InvHolds == Spec => []Inv
BY InitInv, NextInv, PTL DEF Spec

(* LDStoreGet and LDJSONRCDecrement in evaluate.c and variations.c: one    *)
(* reference for each frame, on every way out, and after the call none but *)
(* the one that a failed read may have left behind.                        *)
THEOREM ReferencesAlwaysBalanced == Spec => []ReferencesBalanced
<1>1. Inv => ReferencesBalanced
  BY DEF Inv
<1> QED
  BY <1>1, InvHolds, PTL

(* What the caller is given is what the counted event reports.             *)
LEMMA CheckedValue ==
    ASSUME Inv, NEW types \in Accepted, checkType(types)
    PROVE  ValueIsTheVariation(types)
<1> SUFFICES ASSUME result' = "flag"
             PROVE  /\ value[1] \in types /\ details'.reason \notin {"ERROR", "UNKNOWN"}
                    /\ details'.hasVariation
                    /\ posted[1].key = flagKey /\ posted[1].value = value
                    /\ posted[1].variation = details'.variationIndex
                    /\ TruthfulEvent(posted[1])
  BY DEF ValueIsTheVariation
<1>1. pc = "check" /\ ~IsNull(value) /\ value[1] \in types /\ UNCHANGED details
  BY DEF checkType, Return
<1>2. /\ value # Absent /\ stack # <<>>
      /\ value = stack[1].value /\ details = stack[1].details
  BY <1>1 DEF Inv, OutcomeOK, IsNull
<1>3. /\ FrameOK(stack[1]) /\ stack[1].key = flagKey
      /\ stack[1].version \in began[flagKey]..version[flagKey]
  <2>1. 1 \in 1..Len(stack)
    BY <1>2 DEF Inv, StackOK, IsSequence
  <2> QED
    BY <1>2, <2>1 DEF Inv, StackOK
<1>4. /\ details.hasVariation = TRUE /\ details.reason \in Reasons
      /\ FlagOf(stack[1]) # Absent
      /\ value = FlagOf(stack[1]).variations[details.variationIndex + 1]
  BY <1>2, <1>3 DEF FrameOK
<1>5. /\ FlagEvent.key = flagKey /\ FlagEvent.value = value
      /\ FlagEvent.variation = details.variationIndex
      /\ FlagEvent.version = stack[1].version
  BY <1>1, <1>2, <1>4 DEF FlagEvent, newFeatureRequestEvent
<1>6. /\ posted[1].key = flagKey /\ posted[1].value = value
      /\ posted[1].variation = details.variationIndex
      /\ posted[1].version = stack[1].version
  BY <1>1, <1>5 DEF Inv, OutcomeOK
<1>7. TruthfulEvent(posted[1])
  <2>1. Versions(posted[1].key)[posted[1].version] = FlagOf(stack[1])
    BY <1>3, <1>6 DEF FlagOf
  <2> QED
    BY <1>3, <1>4, <1>6, <2>1 DEF TruthfulEvent
<1> QED
  BY <1>1, <1>4, <1>6, <1>7 DEF Reasons

(* variation() and the typed calls: a value of the flag is handed out only *)
(* with the type that was asked for and a reason, and the event counted    *)
(* reports it, in a version that was current during the call.              *)
THEOREM ResultsAreTyped == Spec => TypedResult
<1>1. Inv /\ [Next]_vars =>
        [\A types \in Accepted : checkType(types) => ValueIsTheVariation(types)]_vars
  BY CheckedValue
<1> QED
  BY <1>1, InvHolds, PTL DEF Spec, TypedResult

-----------------------------------------------------------------------------
(* The events explain the result.  A frame on the stack tells where it has *)
(* got to and what it found on the way.                                    *)

Tells(f) == Story(f) /\ Explained(f)

SameWalk(f, g) ==
    g.key = f.key /\ g.version = f.version /\ g.i = f.i /\ g.events = f.events

(* A flag that was current during the call has the shape it is given.      *)
LEMMA FlagShape ==
    ASSUME Inv, VersionsOK, NEW f, FlagOf(f) # Absent, f.key \in FlagKeys,
           f.version \in began[f.key]..version[f.key]
    PROVE  /\ FlagOf(f).on \in BOOLEAN \cup {Bad}
           /\ Len(Walk(f)) \in Nat /\ DOMAIN Walk(f) = 1..Len(Walk(f))
           /\ \A p \in Range(Walk(f)) : p.key \in FlagKeys \cup {Bad} /\ p.variation # Absent
<1> DEFINE k == f.key
           flag == FlagOf(f)
<1>1. /\ world \in DOMAIN History /\ k \in Keys
      /\ version[k] \in Nat /\ began[k] \in Nat
      /\ began[k] \in 1..version[k] /\ version[k] \in DOMAIN Versions(k)
  BY DEF Inv, CountersOK, VersionsOK, Keys
<1>2. Len(Versions(k)) \in Nat /\ DOMAIN Versions(k) = 1..Len(Versions(k))
  BY <1>1, EvaluateAssumption DEF Versions
<1>3. f.version \in DOMAIN Versions(k)
  BY <1>1, <1>2
<1>4. flag \in Range(History[world][k]) \ {Absent}
  BY <1>3 DEF FlagOf, Versions, Range
<1>5. /\ flag.on \in BOOLEAN \cup {Bad}
      /\ flag.prerequisites \notin {Absent, Bad} =>
           /\ flag.prerequisites \in Seq(Range(flag.prerequisites))
           /\ \A p \in Range(flag.prerequisites) :
                p.key \in FlagKeys \cup {Bad} /\ p.variation # Absent
  BY <1>1, <1>4, EvaluateAssumption
<1> HIDE DEF flag
<1>6. CASE flag.prerequisites \in {Absent, Bad}
  <2>1. Walk(f) = <<>>
    BY <1>6 DEF Walk, Prerequisites, flag
  <2>2. Len(<<>>) = 0 /\ DOMAIN <<>> = 1..0 /\ Range(<<>>) = {}
    BY DEF Range
  <2> QED
    BY <1>5, <2>1, <2>2 DEF flag
<1>7. CASE flag.prerequisites \notin {Absent, Bad}
  <2>1. Walk(f) = flag.prerequisites
    BY <1>7 DEF Walk, Prerequisites, flag
  <2>2. Walk(f) \in Seq(Range(Walk(f)))
    BY <1>5, <1>7, <2>1
  <2>3. Len(Walk(f)) \in Nat /\ DOMAIN Walk(f) = 1..Len(Walk(f))
    BY <2>2
  <2> QED
    BY <1>5, <1>7, <2>1, <2>3 DEF flag
<1> QED
  BY <1>6, <1>7

(* The prerequisite a frame reads.                                         *)
LEMMA ReadShape ==
    ASSUME Inv, VersionsOK, NEW f, FlagOf(f) # Absent, f.key \in FlagKeys,
           f.version \in began[f.key]..version[f.key],
           f.i \in Nat \ {0}, ReadablePrerequisite(f)
    PROVE  /\ f.i <= Len(Walk(f)) /\ Prerequisite(f) = Walk(f)[f.i]
           /\ Prerequisite(f).key \in FlagKeys /\ Prerequisite(f).variation # Absent
<1>1. /\ Len(Walk(f)) \in Nat /\ DOMAIN Walk(f) = 1..Len(Walk(f))
      /\ \A p \in Range(Walk(f)) : p.key \in FlagKeys \cup {Bad} /\ p.variation # Absent
  BY FlagShape
<1>2. /\ Walk(f) = Prerequisites(f) /\ f.i <= Len(Walk(f))
      /\ Prerequisite(f) = Walk(f)[f.i] /\ Prerequisite(f).key # Bad
  BY DEF ReadablePrerequisite, MorePrerequisites, MalformedPrerequisite, Walk, Prerequisite
<1>3. f.i \in DOMAIN Walk(f)
  BY <1>1, <1>2
<1>4. Walk(f)[f.i] \in Range(Walk(f))
  BY <1>3 DEF Range
<1> QED
  BY <1>1, <1>2, <1>4

(* What is shown of the walk depends on the flag and the events alone.     *)
LEMMA SameWalkSame ==
    ASSUME NEW f, NEW g, SameWalk(f, g)
    PROVE  /\ FlagOf(g) = FlagOf(f) /\ Walk(g) = Walk(f)
           /\ \A i : PassShown(g, i) <=> PassShown(f, i)
           /\ FailureShown(g) <=> FailureShown(f)
<1>1. FlagOf(g) = FlagOf(f) /\ Walk(g) = Walk(f)
  BY DEF SameWalk, FlagOf, Walk, Prerequisites
<1>2. \A i : EventOf(g, i) = EventOf(f, i)
  BY <1>1 DEF SameWalk, EventOf
<1> QED
  BY <1>1, <1>2 DEF SameWalk, PassShown, FailureShown

FailedHere(f) ==
    FailureShown(f) /\ f.i <= Len(Walk(f)) /\ Walk(f)[f.i].key \in FlagKeys

Matched == {"targets", "rules", "clauses", "fallthrough"}

(* A frame moves on within LDi_evaluate.                                   *)
LEMMA MovedTells ==
    ASSUME NEW f, Tells(f), f.at # "returned", NEW g, SameWalk(f, g), g.details = f.details,
           g.at # "returned", g.at \in Matched => f.i = Len(Walk(f)) + 1,
           g.at = "failed" => FailedHere(f),
           g.at # "on" => FlagOf(f).on = TRUE
    PROVE  Tells(g)
<1>1. Story(g)
  BY SameWalkSame DEF Tells, Story, SameWalk, FailedHere, Matched
<1>2. Explained(g)
  BY SameWalkSame DEF Tells, Story, Explained, SameWalk
<1> QED
  BY <1>1, <1>2 DEF Tells

(* A frame returns, for a reason its walk bears out.                       *)
LEMMA ReturnedTells ==
    ASSUME NEW f, Tells(f), NEW g, SameWalk(f, g), g.at = "returned",
           g.details.reason \in {"TARGET_MATCH", "RULE_MATCH", "FALLTHROUGH"} =>
             f.i = Len(Walk(f)) + 1,
           g.details.reason = "PREREQUISITE_FAILED" =>
             FailedHere(f) /\ g.details.extra = Walk(f)[f.i].key,
           ~isEvalError(g.status) =>
             /\ g.details.hasVariation => g.value # Absent
             /\ g.status = "MISS" => g.details.reason \in {"OFF", "PREREQUISITE_FAILED"}
             /\ FlagOf(f).on = TRUE \/ g.details.reason = "OFF"
    PROVE  Tells(g)
<1>1. Story(g)
  BY SameWalkSame DEF Tells, Story, SameWalk, FailedHere
<1>2. Explained(g)
  BY SameWalkSame DEF Tells, Story, Explained, SameWalk, FailedHere
<1> QED
  BY <1>1, <1>2 DEF Tells

With(f, reason, extra) == [f EXCEPT !.details = Because(@, reason, extra)]

BearsOut(f, reason, extra, status) ==
    /\ reason \in {"TARGET_MATCH", "RULE_MATCH", "FALLTHROUGH"} => f.i = Len(Walk(f)) + 1
    /\ reason = "PREREQUISITE_FAILED" => FailedHere(f) /\ extra = Walk(f)[f.i].key
    /\ status = "MISS" => reason \in {"OFF", "PREREQUISITE_FAILED"}
    /\ FlagOf(f).on = TRUE \/ reason = "OFF"

ReturnsFor(f, reason, g) ==
    /\ Tells(g) /\ SameWalk(f, g) /\ g.at = "returned" /\ DOMAIN g = FrameFields
    /\ g.details.reason = reason /\ DOMAIN g.details = DetailsFields

(* The reason is set, then the value is looked up.                         *)
LEMMA ServedTells ==
    ASSUME NEW f, FrameOK(f), Tells(f), NEW reason \in Reasons, NEW extra,
           NEW index, NEW memory \in BOOLEAN, NEW status \in {"MATCH", "MISS"},
           BearsOut(f, reason, extra, status)
    PROVE  ReturnsFor(f, reason, Served(With(f, reason, extra), index, memory, status))
<1> DEFINE h == With(f, reason, extra)
           a == addValue(h, index, memory)
           g == Served(h, index, memory, status)
<1>1. /\ DOMAIN h = FrameFields /\ DOMAIN h.details = DetailsFields /\ SameWalk(f, h)
      /\ h.details.reason = reason /\ h.details.extra = extra
  BY DEF FrameOK, With, Because, FrameFields, DetailsFields, SameWalk
<1> HIDE DEF h
<1>2. /\ DOMAIN a = FrameFields /\ DOMAIN a.details = DetailsFields /\ SameWalk(h, a)
      /\ a.details.reason = reason /\ a.details.extra = extra
  BY <1>1 DEF addValue, FrameFields, DetailsFields, SameWalk
<1>3. index = Absent => a.details.hasVariation = FALSE
  BY <1>1 DEF addValue, FrameFields, DetailsFields
<1> HIDE DEF a
<1>4. /\ DOMAIN g = FrameFields /\ g.details = a.details /\ SameWalk(f, g)
      /\ g.at = "returned" /\ g.value = a.value
      /\ g.status = IF index # Absent /\ a.value = Absent THEN "MEM" ELSE status
  BY <1>1, <1>2 DEF Served, Returned, FrameFields, SameWalk, a
<1> HIDE DEF g
<1>5. ~isEvalError(g.status) =>
        g.status = status /\ (g.details.hasVariation => g.value # Absent)
  BY <1>3, <1>4 DEF isEvalError
<1>6. Tells(g)
  BY <1>2, <1>4, <1>5, ReturnedTells DEF BearsOut
<1> QED
  BY <1>2, <1>4, <1>6 DEF ReturnsFor, g, h

(* A write makes more versions current during the call, never fewer.       *)
LEMMA TellsGrows ==
    ASSUME UNCHANGED <<world, began>>, version \in [Keys -> Nat], version' \in [Keys -> Nat],
           began \in [Keys -> Nat], \A k \in Keys : version[k] <= version'[k]
    PROVE  \A f : Tells(f) => Tells(f)'
<1>1. \A k \in FlagKeys : /\ began[k]..version[k] \subseteq began'[k]..version'[k]
                          /\ began'[k] = began[k]
  BY DEF Keys
<1>2. \A k : Versions(k)' = Versions(k)
  BY DEF Versions
<1>3. \A f : FlagOf(f)' = FlagOf(f) /\ Walk(f)' = Walk(f)
  BY <1>2 DEF FlagOf, Walk, Prerequisites
<1>4. \A f, i : EventOf(f, i)' = EventOf(f, i)
  BY <1>3 DEF EventOf
<1>5. \A f, i : PassShown(f, i)' <=> PassShown(f, i)
  BY <1>3, <1>4 DEF PassShown
<1>6. \A k \in FlagKeys : During(k) \subseteq During(k)'
  BY <1>1, <1>2 DEF During
<1>7. \A e : e.key \in FlagKeys /\ TruthfulEvent(e) => TruthfulEvent(e)'
  BY <1>1, <1>2 DEF TruthfulEvent
<1>8. \A f : Walk(f)[f.i].key \in FlagKeys /\ FailureShown(f) => FailureShown(f)'
  BY <1>3, <1>4, <1>6 DEF FailureShown
<1> SUFFICES ASSUME NEW f, Tells(f)
             PROVE  Tells(f)'
  OBVIOUS
<1>9. f.at = "failed" \/ f.details.reason = "PREREQUISITE_FAILED" => FailureShown(f)'
  BY <1>8 DEF Tells, Story
<1>10. Story(f)'
  BY <1>1, <1>3, <1>9 DEF Tells, Story
<1>11. Explained(f)'
  BY <1>3, <1>5, <1>7, <1>9 DEF Tells, Story, Explained
<1> QED
  BY <1>10, <1>11 DEF Tells

(* What every frame tells is still so after a step that writes nothing.    *)
LEMMA StoryGoesOn ==
    ASSUME Inv, StoryInv, UNCHANGED <<world, version, began>>,
           \A f \in Range(stack') : Tells(f),
           \A n \in 1..Len(stack') - 1 : WaitsFor(stack'[n], stack'[n + 1])
    PROVE  StoryInv'
<1>1. version \in [Keys -> Nat] /\ began \in [Keys -> Nat]
  BY DEF Inv, CountersOK
<1>2. version' \in [Keys -> Nat] /\ \A k \in Keys : version[k] <= version'[k]
  BY <1>1
<1>3. \A f : Tells(f) => Tells(f)'
  BY <1>1, <1>2, TellsGrows
<1>4. \A f \in Range(stack') : Tells(f)'
  BY <1>3
<1>5. VersionsOK'
  BY DEF StoryInv, VersionsOK, Versions
<1>6. \A n \in 1..Len(stack') - 1 : WaitsFor(stack[n], stack[n + 1])'
  BY DEF WaitsFor, ReadablePrerequisite, MorePrerequisites, MalformedPrerequisite,
         Prerequisite, Prerequisites, FlagOf, Versions
<1>7. \A f \in Range(stack') : Story(f)' /\ Explained(f)'
  BY <1>4 DEF Tells
<1> QED
  BY <1>5, <1>6, <1>7 DEF StoryInv

(* The innermost frame tells its story.                                    *)
LEMMA TopTells ==
    ASSUME Inv, StoryInv, pc = "evaluate"
    PROVE  FrameOK(Top) /\ Tells(Top) /\ \A n \in 1..Len(stack) : Tells(stack[n])
<1>1. Len(stack) \in 1..Len(stack) /\ Top = stack[Len(stack)] /\ FrameOK(Top)
  BY TopIsAFrame
<1>2. DOMAIN stack = 1..Len(stack)
  BY DEF Inv, StackOK, IsSequence
<1>3. \A n \in 1..Len(stack) : stack[n] \in Range(stack)
  BY <1>2 DEF Range
<1> QED
  BY <1>1, <1>3 DEF StoryInv, Tells

(* A step within the innermost frame.                                      *)
LEMMA SetTopStory ==
    ASSUME Inv, StoryInv, pc = "evaluate", NEW g, SetTop(g), Tells(g), g.key = Top.key,
           UNCHANGED <<world, version, began>>
    PROVE  StoryInv'
<1>1. /\ Len(stack) \in Nat \ {0} /\ Top = stack[Len(stack)]
      /\ \A n \in 1..Len(stack) : Tells(stack[n])
  BY TopIsAFrame, TopTells
<1>2. /\ Len(stack') = Len(stack) /\ DOMAIN stack' = 1..Len(stack)
      /\ \A n \in 1..Len(stack) : stack'[n] = IF n = Len(stack) THEN g ELSE stack[n]
  BY SetTopStack DEF IsSequence
<1>3. \A f \in Range(stack') : Tells(f)
  <2>1. \A n \in 1..Len(stack) : Tells(stack'[n])
    BY <1>1, <1>2
  <2> QED
    BY <1>2, <2>1 DEF Range
<1>4. \A n \in 1..Len(stack') - 1 : WaitsFor(stack'[n], stack'[n + 1])
  <2> SUFFICES ASSUME NEW n \in 1..Len(stack) - 1
               PROVE  WaitsFor(stack'[n], stack'[n + 1])
    BY <1>2
  <2>1. n \in 1..Len(stack) /\ n # Len(stack) /\ n + 1 \in 1..Len(stack)
    BY <1>1
  <2>2. stack'[n] = stack[n]
    BY <1>2, <2>1
  <2>3. stack'[n + 1] = IF n + 1 = Len(stack) THEN g ELSE stack[n + 1]
    BY <1>2, <2>1
  <2>4. stack'[n + 1].key = stack[n + 1].key
    BY <1>1, <2>3
  <2>5. WaitsFor(stack[n], stack[n + 1])
    BY DEF StoryInv
  <2> QED
    BY <2>2, <2>4, <2>5 DEF WaitsFor
<1> QED
  BY <1>3, <1>4, StoryGoesOn

(* An error ends the walk where it is.                                     *)
LEMMA ErrorTells ==
    ASSUME NEW f, FrameOK(f), Tells(f), f.at # "returned", NEW status, isEvalError(status)
    PROVE  Tells(Returned(f, status)) /\ Returned(f, status).key = f.key
<1> DEFINE g == Returned(f, status)
<1>1. /\ SameWalk(f, g) /\ g.at = "returned" /\ g.status = status
      /\ g.details.reason = "UNKNOWN"
  BY DEF Returned, FrameOK, FrameFields, SameWalk, Tells, Story
<1> HIDE DEF g
<1>2. Tells(g) /\ g.key = f.key
  BY <1>1, ReturnedTells DEF SameWalk
<1> QED
  BY <1>2 DEF g

(* An error after the reason was set.                                      *)
LEMMA LateErrorTells ==
    ASSUME NEW f, FrameOK(f), Tells(f), NEW reason, NEW extra,
           BearsOut(f, reason, extra, "MATCH"), NEW status, isEvalError(status)
    PROVE  /\ Tells(Returned(With(f, reason, extra), status))
           /\ Returned(With(f, reason, extra), status).key = f.key
<1> DEFINE g == Returned(With(f, reason, extra), status)
<1>1. /\ SameWalk(f, g) /\ g.at = "returned" /\ g.status = status
      /\ g.details.reason = reason /\ g.details.extra = extra
  BY DEF Returned, With, Because, FrameOK, FrameFields, DetailsFields, SameWalk
<1> HIDE DEF g
<1>2. Tells(g) /\ g.key = f.key
  BY <1>1, ReturnedTells DEF SameWalk, BearsOut
<1> QED
  BY <1>2 DEF g

(* The loops over rules, clauses and segments go on or return.             *)
LEMMA LoopTells ==
    ASSUME NEW f, FrameOK(f), Tells(f), f.at = "clauses", NEW status, NEW segment, NEW seen
    PROVE  /\ Tells(ruleMatchesUser(f, status)) /\ ruleMatchesUser(f, status).key = f.key
           /\ Tells(afterSegment(f, segment, seen)) /\ afterSegment(f, segment, seen).key = f.key
<1>1. f.at \in Matched /\ f.i = Len(Walk(f)) + 1 /\ FlagOf(f).on = TRUE
      /\ f.details.reason = "UNKNOWN" /\ DOMAIN f = FrameFields
  BY DEF Tells, Story, Matched, FrameOK
<1>2. \A s : isEvalError(s) => Tells(Returned(f, s)) /\ Returned(f, s).key = f.key
  BY <1>1, ErrorTells
<1>3. ASSUME NEW g \in {[f EXCEPT !.segment = @ + 1], [f EXCEPT !.clause = @ + 1, !.segment = 1],
                        [f EXCEPT !.at = "rules", !.rule = @ + 1, !.clause = 1, !.segment = 1]}
      PROVE  Tells(g) /\ g.key = f.key
  <2>1. SameWalk(f, g) /\ g.details = f.details /\ g.at \in {"rules", "clauses"}
    BY <1>1, <1>3 DEF FrameFields, SameWalk
  <2> QED
    BY <1>1, <2>1, MovedTells DEF Matched, SameWalk
<1>4. \A s : Tells(ruleMatchesUser(f, s)) /\ ruleMatchesUser(f, s).key = f.key
  BY <1>2, <1>3 DEF ruleMatchesUser
<1> QED
  BY <1>2, <1>3, <1>4 DEF afterSegment

(* A rule that matches: the value, then the rule's id.                     *)
LEMMA RuleServedTells ==
    ASSUME NEW f, FrameOK(f), Tells(f), f.at = "clauses", NEW choice,
           NEW memory \in BOOLEAN, NEW idMemory \in BOOLEAN
    PROVE  /\ Tells(ruleServed(f, choice, memory, idMemory))
           /\ ruleServed(f, choice, memory, idMemory).key = f.key
<1> DEFINE extra == RuleDetails(f, Absent, choice.inExperiment)
           g == Served(With(f, "RULE_MATCH", extra), choice.index, memory, "MATCH")
           id == Rule(f).id
           named == [g EXCEPT !.details.extra.id = id]
<1>1. f.i = Len(Walk(f)) + 1 /\ FlagOf(f).on = TRUE
  BY DEF Tells, Story
<1>2. ReturnsFor(f, "RULE_MATCH", g)
  <2> DEFINE index == choice.index
  <2> HIDE DEF extra, index
  <2>1. "RULE_MATCH" \in Reasons /\ BearsOut(f, "RULE_MATCH", extra, "MATCH")
    BY <1>1 DEF Reasons, BearsOut
  <2>2. ReturnsFor(f, "RULE_MATCH", Served(With(f, "RULE_MATCH", extra), index, memory, "MATCH"))
    BY <2>1, ServedTells
  <2> QED
    BY <2>2 DEF index
<1> HIDE DEF g
<1>3. g.i = Len(Walk(g)) + 1 /\ FlagOf(g).on = TRUE /\ g.at = "returned"
  BY <1>1, <1>2, SameWalkSame DEF SameWalk, ReturnsFor
<1>4. ASSUME NEW s, isEvalError(s)
      PROVE  Tells(Returned(g, s)) /\ Returned(g, s).key = f.key
  <2> DEFINE h == Returned(g, s)
  <2>1. SameWalk(g, h) /\ h.at = "returned" /\ h.details = g.details /\ h.status = s
    BY <1>2 DEF Returned, FrameFields, SameWalk, ReturnsFor
  <2> HIDE DEF h
  <2>2. Tells(h) /\ h.key = f.key
    BY <1>2, <1>3, <1>4, <2>1, ReturnedTells DEF SameWalk, ReturnsFor
  <2> QED
    BY <2>2 DEF h
<1>5. Tells(named) /\ named.key = f.key
  <2>1. /\ SameWalk(g, named) /\ named.at = g.at /\ named.status = g.status
        /\ named.value = g.value /\ named.details.reason = "RULE_MATCH"
        /\ named.details.hasVariation = g.details.hasVariation
    BY <1>2 DEF FrameFields, DetailsFields, SameWalk, ReturnsFor
  <2> HIDE DEF named
  <2>2. ~isEvalError(g.status) =>
          (g.details.hasVariation => g.value # Absent) /\ g.status # "MISS"
    BY <1>2, <1>3 DEF Tells, Story, ReturnsFor
  <2> QED
    BY <1>2, <1>3, <2>1, <2>2, ReturnedTells DEF SameWalk, ReturnsFor
<1> HIDE DEF named
<1> QED
  BY <1>2, <1>4, <1>5 DEF ruleServed, ReturnsFor, With, g, named, SameWalk, isEvalError

(* The parts of LDi_evaluate that change the innermost frame only.         *)
LEMMA LocalStory ==
    ASSUME Inv, StoryInv,
           \/ evaluateOn
           \/ \E memory \in BOOLEAN :
                evaluateOff(memory) \/ prerequisiteFailed(memory) \/ evaluateTargets(memory)
           \/ checkPrerequisitesEnds \/ readPrerequisiteFails \/ prerequisiteFailedNoMemory
           \/ evaluateRules \/ segmentsEnd \/ readSegmentFails
           \/ \E lost \in Lost : clauseMatchesUser(lost) \/ readSegment(lost)
           \/ \E lost \in Lost, memory \in BOOLEAN :
                \/ evaluateFallthrough(lost, memory)
                \/ \E idMemory \in BOOLEAN : ruleMatches(lost, memory, idMemory)
    PROVE  StoryInv'
<1>0. pc = "evaluate" /\ Top.at # "returned" /\ UNCHANGED <<store, outcome, began>>
  BY DEF At, Local, evaluateOn, evaluateOff, prerequisiteFailed, evaluateTargets,
         checkPrerequisitesEnds, readPrerequisiteFails, ReadsPrerequisite,
         prerequisiteFailedNoMemory, evaluateRules, segmentsEnd, SegmentClause,
         readSegmentFails, ReadsSegment, clauseMatchesUser, readSegment,
         evaluateFallthrough, ruleMatches
<1>1. FrameOK(Top) /\ Tells(Top) /\ Open(Top) /\ UNCHANGED <<world, version, began>>
  BY <1>0, TopTells, TopIsAFrame DEF store
<1> SUFFICES \E g : SetTop(g) /\ Tells(g) /\ g.key = Top.key
  BY <1>0, <1>1, SetTopStory
<1>2. \A s : isEvalError(s) => Tells(Returned(Top, s)) /\ Returned(Top, s).key = Top.key
  BY <1>0, <1>1, ErrorTells
<1>3. isEvalError("SCHEMA") /\ isEvalError("MEM") /\ isEvalError("STORE")
  BY DEF isEvalError
<1>4. \A place : LET g == [Top EXCEPT !.at = place]
                 IN  SameWalk(Top, g) /\ g.details = Top.details /\ g.at = place
  BY <1>1 DEF FrameOK, FrameFields, SameWalk
<1>5. ASSUME NEW place \in Matched, Top.i = Len(Walk(Top)) + 1, FlagOf(Top).on = TRUE
      PROVE  LET g == [Top EXCEPT !.at = place]
             IN  Tells(g) /\ g.key = Top.key
  BY <1>0, <1>1, <1>4, <1>5, MovedTells DEF SameWalk, Matched
<1>6. ASSUME NEW reason \in Reasons, NEW extra, NEW index, NEW memory \in BOOLEAN,
             NEW status \in {"MATCH", "MISS"}, BearsOut(Top, reason, extra, status)
      PROVE  LET g == Served(With(Top, reason, extra), index, memory, status)
             IN  Tells(g) /\ g.key = Top.key
  BY <1>1, <1>6, ServedTells DEF ReturnsFor, SameWalk
<1>7. Top.at \in Matched => Top.i = Len(Walk(Top)) + 1 /\ FlagOf(Top).on = TRUE
  BY <1>0, <1>1 DEF Tells, Story, Matched
<1>8. CASE readPrerequisiteFails \/ prerequisiteFailedNoMemory \/ readSegmentFails
  BY <1>2, <1>3, <1>8 DEF readPrerequisiteFails, prerequisiteFailedNoMemory, readSegmentFails
<1>9. CASE evaluateOn
  <2>1. FlagOf(Top).on \in BOOLEAN \cup {Bad}
    BY <1>1, FlagShape DEF FrameOK, Tells, Story, StoryInv
  <2>2. CASE FlagOf(Top).on = Bad
    BY <1>2, <1>3, <1>9, <2>2 DEF evaluateOn
  <2>3. CASE FlagOf(Top).on # Bad
    <3> DEFINE g == [Top EXCEPT !.at = "prerequisites"]
    <3>1. SetTop(g) /\ FlagOf(Top).on = TRUE
      BY <1>9, <2>1, <2>3 DEF evaluateOn
    <3>2. SameWalk(Top, g) /\ g.details = Top.details /\ g.at = "prerequisites"
      BY <1>4
    <3> HIDE DEF g
    <3>3. Tells(g) /\ g.key = Top.key
      BY <1>0, <1>1, <3>1, <3>2, MovedTells DEF SameWalk, Matched
    <3> QED
      BY <3>1, <3>3
  <2> QED
    BY <2>2, <2>3
<1>10. CASE checkPrerequisitesEnds
  <2>1. CASE MalformedPrerequisite(Top)
    BY <1>2, <1>3, <1>10, <2>1 DEF checkPrerequisitesEnds
  <2>2. CASE ~MalformedPrerequisite(Top)
    <3>1. SetTop([Top EXCEPT !.at = "targets"]) /\ ~MorePrerequisites(Top)
      BY <1>10, <2>2 DEF checkPrerequisitesEnds
    <3>2. FlagOf(Top).on = TRUE /\ Top.i \in 1..Len(Walk(Top)) + 1
      BY <1>1, <1>10 DEF Tells, Story, checkPrerequisitesEnds, At
    <3>3. Len(Walk(Top)) \in Nat
      BY <1>1, FlagShape DEF FrameOK, Tells, Story, StoryInv
    <3>4. Walk(Top) = IF Prerequisites(Top) = Absent THEN <<>> ELSE Prerequisites(Top)
      BY <2>2 DEF Walk, MalformedPrerequisite
    <3>5. Top.i = Len(Walk(Top)) + 1
      <4>1. CASE Prerequisites(Top) = Absent
        BY <3>2, <3>4, <4>1
      <4>2. CASE Prerequisites(Top) # Absent
        <5>1. ~(Top.i <= Len(Walk(Top)))
          BY <2>2, <3>1, <3>4, <4>2 DEF MorePrerequisites, MalformedPrerequisite
        <5> QED
          BY <3>2, <3>3, <5>1
      <4> QED
        BY <4>1, <4>2
    <3>6. "targets" \in Matched
      BY DEF Matched
    <3> QED
      BY <1>5, <3>1, <3>2, <3>5, <3>6
  <2> QED
    BY <2>1, <2>2
<1>11. ASSUME NEW memory \in BOOLEAN, evaluateOff(memory)
       PROVE  \E g : SetTop(g) /\ Tells(g) /\ g.key = Top.key
  <2> DEFINE index == FlagOf(Top).offVariation
  <2>1. SetTop(Served(With(Top, "OFF", Absent), index, memory, "MISS"))
    BY <1>11 DEF evaluateOff, With
  <2> HIDE DEF index
  <2>2. "OFF" \in Reasons /\ BearsOut(Top, "OFF", Absent, "MISS")
    BY DEF Reasons, BearsOut
  <2> QED
    BY <1>6, <2>1, <2>2
<1>12. ASSUME NEW memory \in BOOLEAN, prerequisiteFailed(memory)
       PROVE  \E g : SetTop(g) /\ Tells(g) /\ g.key = Top.key
  <2> DEFINE index == FlagOf(Top).offVariation
             extra == Prerequisite(Top).key
  <2>1. SetTop(Served(With(Top, "PREREQUISITE_FAILED", extra), index, memory, "MISS"))
    BY <1>12 DEF prerequisiteFailed, With
  <2>2. FailedHere(Top) /\ FlagOf(Top).on = TRUE /\ Top.i \in 1..Len(Walk(Top)) + 1
    BY <1>1, <1>12 DEF prerequisiteFailed, At, Tells, Story, FailedHere
  <2>3. Prerequisites(Top) \notin {Absent, Bad}
    <3> SUFFICES ASSUME Prerequisites(Top) \in {Absent, Bad}
                 PROVE  FALSE
      OBVIOUS
    <3>1. Len(Walk(Top)) = 0
      BY DEF Walk
    <3> QED
      BY <2>2, <3>1 DEF FailedHere
  <2>4. extra = Walk(Top)[Top.i].key
    BY <2>3 DEF Walk, Prerequisite
  <2> HIDE DEF index, extra
  <2>5. /\ "PREREQUISITE_FAILED" \in Reasons
        /\ BearsOut(Top, "PREREQUISITE_FAILED", extra, "MISS")
    BY <2>2, <2>4 DEF Reasons, BearsOut
  <2> QED
    BY <1>6, <2>1, <2>5
<1>13. ASSUME NEW memory \in BOOLEAN, evaluateTargets(memory)
       PROVE  \E g : SetTop(g) /\ Tells(g) /\ g.key = Top.key
  <2> DEFINE targets == FlagOf(Top).targets
             hit == IF targets = Absent THEN 0 ELSE TargetHit(targets)
             index == targets[hit].variation
  <2>1. \/ SetTop(Returned(Top, "SCHEMA"))
        \/ SetTop([Top EXCEPT !.at = "rules"])
        \/ SetTop(Served(With(Top, "TARGET_MATCH", Absent), index, memory, "MATCH"))
    BY <1>13 DEF evaluateTargets, With
  <2> HIDE DEF targets, hit, index
  <2>2. Top.at \in Matched /\ "rules" \in Matched
    BY <1>13 DEF evaluateTargets, At, Matched
  <2>3. "TARGET_MATCH" \in Reasons /\ BearsOut(Top, "TARGET_MATCH", Absent, "MATCH")
    BY <1>7, <2>2 DEF Reasons, BearsOut
  <2> QED
    BY <1>2, <1>3, <1>5, <1>6, <1>7, <2>1, <2>2, <2>3
<1>14. CASE evaluateRules
  <2>1. \/ SetTop(Returned(Top, "SCHEMA"))
        \/ \E place \in Matched : SetTop([Top EXCEPT !.at = place])
    BY <1>14 DEF evaluateRules, Matched
  <2>2. Top.at \in Matched
    BY <1>14 DEF evaluateRules, At, Matched
  <2> QED
    BY <1>2, <1>3, <1>5, <1>7, <2>1, <2>2
<1>15. CASE segmentsEnd \/ \E lost \in Lost : clauseMatchesUser(lost)
  <2>1. (\E s : SetTop(ruleMatchesUser(Top, s))) /\ Top.at = "clauses"
    BY <1>15 DEF segmentsEnd, SegmentClause, At, clauseMatchesUser
  <2>2. \A s : Tells(ruleMatchesUser(Top, s)) /\ ruleMatchesUser(Top, s).key = Top.key
    BY <1>1, <2>1, LoopTells
  <2> QED
    BY <2>1, <2>2
<1>16. ASSUME NEW lost \in Lost, readSegment(lost)
       PROVE  \E g : SetTop(g) /\ Tells(g) /\ g.key = Top.key
  <2> DEFINE seen == Seeing(lost)
  <2>1. (\E segment : SetTop(afterSegment(Top, segment, seen))) /\ Top.at = "clauses"
    BY <1>16 DEF readSegment, ReadsSegment, SegmentClause, At
  <2> HIDE DEF seen
  <2>2. \A segment : /\ Tells(afterSegment(Top, segment, seen))
                     /\ afterSegment(Top, segment, seen).key = Top.key
    BY <1>1, <2>1, LoopTells
  <2> QED
    BY <2>1, <2>2
<1>17. ASSUME NEW lost \in Lost, NEW memory \in BOOLEAN, evaluateFallthrough(lost, memory)
       PROVE  \E g : SetTop(g) /\ Tells(g) /\ g.key = Top.key
  <2> DEFINE choice == getIndexForVariationOrRollout(FlagOf(Top), FlagOf(Top).fallthrough,
                                                     Seeing(lost))
             extra == [inExperiment |-> choice.inExperiment]
             index == choice.index
  <2>1. \/ SetTop(Served(With(Top, "FALLTHROUGH", extra), index, memory, "MATCH"))
        \/ SetTop(Returned(With(Top, "FALLTHROUGH", extra), "SCHEMA"))
    BY <1>17 DEF evaluateFallthrough, With
  <2> HIDE DEF choice, extra, index
  <2>2. Top.at \in Matched
    BY <1>17 DEF evaluateFallthrough, At, Matched
  <2>3. "FALLTHROUGH" \in Reasons /\ BearsOut(Top, "FALLTHROUGH", extra, "MATCH")
    BY <1>7, <2>2 DEF Reasons, BearsOut
  <2>4. /\ Tells(Returned(With(Top, "FALLTHROUGH", extra), "SCHEMA"))
        /\ Returned(With(Top, "FALLTHROUGH", extra), "SCHEMA").key = Top.key
    BY <1>1, <1>3, <2>3, LateErrorTells
  <2> QED
    BY <1>6, <2>1, <2>3, <2>4
<1>18. ASSUME NEW lost \in Lost, NEW memory \in BOOLEAN, NEW idMemory \in BOOLEAN,
              ruleMatches(lost, memory, idMemory)
       PROVE  \E g : SetTop(g) /\ Tells(g) /\ g.key = Top.key
  <2>1. /\ \E choice : SetTop(ruleServed(Top, choice, memory, idMemory))
        /\ Top.at = "clauses"
    BY <1>18 DEF ruleMatches, At
  <2>2. \A choice : /\ Tells(ruleServed(Top, choice, memory, idMemory))
                    /\ ruleServed(Top, choice, memory, idMemory).key = Top.key
    BY <1>1, <2>1, RuleServedTells
  <2> QED
    BY <2>1, <2>2
<1> QED
  BY <1>8, <1>9, <1>10, <1>11, <1>12, <1>13, <1>14, <1>15, <1>16, <1>17, <1>18

(* A new frame has nothing to tell yet.                                    *)
LEMMA NewFrameTells ==
    ASSUME Inv, VersionsOK, NEW k \in FlagKeys, Feature(k) # Absent
    PROVE  Tells(NewFrame(k))
<1> DEFINE f == NewFrame(k)
<1>1. /\ f.key = k /\ f.version = version[k] /\ f.at = "on" /\ f.i = 1
      /\ f.events = <<>> /\ f.details = NoDetails /\ f.status = Absent
  BY DEF NewFrame
<1>2. FlagOf(f) # Absent
  BY NewFrameOK DEF FrameOK
<1> HIDE DEF f
<1>3. k \in Keys /\ version[k] \in Nat /\ began[k] \in Nat /\ began[k] \in 1..version[k]
  BY DEF Inv, CountersOK, VersionsOK, Keys
<1>4. f.version \in began[f.key]..version[f.key]
  BY <1>1, <1>3
<1>5. Len(Walk(f)) \in Nat
  BY <1>1, <1>2, <1>4, FlagShape
<1>6. 1 \in 1..Len(Walk(f)) + 1 /\ 1..(f.i - 1) = {} /\ Range(f.events) = {}
  BY <1>1, <1>5 DEF Range
<1>7. f.details.reason = "UNKNOWN" /\ f.details.hasVariation = FALSE
  BY <1>1 DEF NoDetails
<1>8. Story(f) /\ Explained(f)
  BY <1>1, <1>4, <1>6, <1>7 DEF Story, Explained
<1> QED
  BY <1>8 DEF Tells, f

(* LDStoreGet of a prerequisite: one that is not there has failed, and one *)
(* that is there is evaluated.                                             *)
LEMMA ReadPrerequisiteStory ==
    ASSUME Inv, StoryInv, readPrerequisite
    PROVE  StoryInv'
<1> DEFINE p == Prerequisite(Top).key
<1>1. /\ pc = "evaluate" /\ Top.at = "prerequisites" /\ ReadablePrerequisite(Top)
      /\ UNCHANGED <<world, version, began>>
  BY DEF readPrerequisite, ReadsPrerequisite, At, store
<1>2. /\ FrameOK(Top) /\ Tells(Top) /\ \A n \in 1..Len(stack) : Tells(stack[n])
      /\ Len(stack) \in Nat \ {0} /\ Top = stack[Len(stack)]
  BY <1>1, TopTells, TopIsAFrame
<1>3. /\ FlagOf(Top) # Absent /\ Top.key \in FlagKeys
      /\ Top.version \in began[Top.key]..version[Top.key] /\ Top.i \in 1..Len(Walk(Top)) + 1
      /\ VersionsOK
  BY <1>2 DEF FrameOK, Tells, Story, StoryInv
<1>4. /\ Top.i <= Len(Walk(Top)) /\ Prerequisite(Top) = Walk(Top)[Top.i] /\ p \in FlagKeys
  <2>1. Top.i \in Nat \ {0}
    <3>1. Len(Walk(Top)) \in Nat
      BY <1>3, FlagShape
    <3> QED
      BY <1>3, <3>1
  <2> QED
    BY <1>1, <1>3, <2>1, ReadShape
<1>5. CASE Feature(p) = Absent
  <2> DEFINE g == [Top EXCEPT !.at = "failed"]
  <2>1. SetTop(g)
    BY <1>5 DEF readPrerequisite
  <2>2. SameWalk(Top, g) /\ g.details = Top.details /\ g.at = "failed"
    BY <1>2 DEF FrameOK, FrameFields, SameWalk
  <2> HIDE DEF g
  <2>3. Absent \in During(p)
    <3>1. p \in Keys
      BY <1>4 DEF Keys
    <3> HIDE DEF p
    <3>2. version[p] \in Nat /\ began[p] \in 1..version[p]
      BY <1>3, <3>1 DEF VersionsOK, Inv, CountersOK
    <3>3. version[p] \in began[p]..version[p]
      BY <3>2
    <3> QED
      BY <1>5, <3>3 DEF During, Feature
  <2>4. FailedHere(Top)
    BY <1>4, <2>3 DEF FailedHere, FailureShown
  <2>5. FlagOf(Top).on = TRUE
    BY <1>1, <1>2 DEF Tells, Story
  <2>6. Tells(g) /\ g.key = Top.key
    BY <1>1, <1>2, <2>2, <2>4, <2>5, MovedTells DEF SameWalk, Matched
  <2> QED
    BY <1>1, <2>1, <2>6, SetTopStory
<1>6. CASE Feature(p) # Absent
  <2> DEFINE f == NewFrame(p)
             l == Len(stack)
  <2>1. stack' = Append(stack, f)
    BY <1>6 DEF readPrerequisite
  <2>2. Tells(f) /\ f.key = p
    <3> HIDE DEF p
    <3> QED
      BY <1>3, <1>4, <1>6, NewFrameTells, NewFrameOK
  <2> HIDE DEF f
  <2>3. stack \in Seq(Range(stack)) /\ l \in Nat \ {0}
    BY <1>2 DEF Inv, StackOK, IsSequence
  <2>4. /\ Len(stack') = l + 1 /\ DOMAIN stack' = 1..l + 1
        /\ \A n \in 1..l : stack'[n] = stack[n]
        /\ stack'[l + 1] = f
    BY <2>1, <2>3
  <2> HIDE DEF l
  <2>5. \A g \in Range(stack') : Tells(g)
    <3>1. \A n \in 1..l + 1 : Tells(stack'[n])
      <4> TAKE n \in 1..l + 1
      <4>1. CASE n \in 1..l
        BY <1>2, <2>4, <4>1 DEF l
      <4>2. CASE n = l + 1
        BY <2>2, <2>4, <4>2
      <4> QED
        BY <2>3, <4>1, <4>2
    <3> QED
      BY <2>4, <3>1 DEF Range
  <2>6. ASSUME NEW n \in 1..Len(stack') - 1
        PROVE  WaitsFor(stack'[n], stack'[n + 1])
    <3>1. n \in 1..l /\ (n = l \/ (n \in 1..l - 1 /\ n + 1 \in 1..l))
      BY <2>3, <2>4
    <3>2. CASE n = l
      BY <1>1, <1>2, <2>2, <2>4, <3>1, <3>2 DEF WaitsFor, l
    <3>3. CASE n \in 1..l - 1 /\ n + 1 \in 1..l
      <4>1. stack'[n] = stack[n] /\ stack'[n + 1] = stack[n + 1]
        BY <2>4, <3>1, <3>3
      <4>2. WaitsFor(stack[n], stack[n + 1])
        BY <3>3 DEF StoryInv, l
      <4> QED
        BY <4>1, <4>2
    <3> QED
      BY <3>1, <3>2, <3>3
  <2> QED
    BY <1>1, <2>5, <2>6, StoryGoesOn
<1> QED
  BY <1>5, <1>6

(* The elements of two sequences and one more.                             *)
LEMMA Elements3 ==
    ASSUME NEW s, NEW t, IsSequence(s), IsSequence(t), NEW e
    PROVE  Range((s \o t) \o <<e>>) = Range(s) \cup Range(t) \cup {e}
<1> DEFINE S == Range(s) \cup Range(t) \cup {e}
           st == s \o t
           last == <<e>>
<1>1. s \in Seq(S) /\ t \in Seq(S) /\ last \in Seq(S)
  <2>1. s \in Seq(Range(s)) /\ t \in Seq(Range(t)) /\ Range(s) \subseteq S /\ Range(t) \subseteq S
    BY DEF IsSequence
  <2> QED
    BY <2>1, SeqMonotonic
<1>2. Range(last) = {e}
  BY DEF Range
<1> HIDE DEF S, last
<1>3. st \in Seq(S) /\ Range(st) = Range(s) \cup Range(t)
  BY <1>1, ConcatProperties, RangeConcatenation
<1> HIDE DEF st
<1>4. Range(st \o last) = Range(st) \cup Range(last)
  BY <1>1, <1>3, RangeConcatenation
<1> QED
  BY <1>2, <1>3, <1>4 DEF st, last

(* The event of a prerequisite that was evaluated.                         *)
EventFor(f, caller) ==
    newFeatureRequestEvent(f.key, FlagOf(f), f.version, f.details, f.value, caller.key)

(* The prerequisite has not the variation that is wanted of it.            *)
Refuses(f, wanted) ==
    \/ f.status = "MISS" \/ ~FlagOf(f).on
    \/ ~f.details.hasVariation \/ f.details.variationIndex # wanted

(* It tells the truth, and shows why the caller goes on or fails.          *)
LEMMA EventTells ==
    ASSUME NEW f, FrameOK(f), Tells(f), f.at = "returned", ~isEvalError(f.status),
           NEW caller, NEW wanted, wanted # Absent
    PROVE  LET e == EventFor(f, caller)
           IN  /\ e.key = f.key /\ e.prereqOf = caller.key /\ TruthfulEvent(e)
               /\ ~Refuses(f, wanted) => e.variation = wanted
               /\ Refuses(f, wanted) => \/ e.reason[1] \in {"OFF", "PREREQUISITE_FAILED"}
                                       \/ e.variation # wanted
<1> DEFINE e == EventFor(f, caller)
<1>1. /\ e.key = f.key /\ e.prereqOf = caller.key /\ e.value = f.value
      /\ e.variation = IF f.details.hasVariation THEN f.details.variationIndex ELSE Absent
      /\ e.version = f.version /\ e.reason = reasonToJSON(f.details)
  BY DEF EventFor, newFeatureRequestEvent, FrameOK
<1> HIDE DEF e
<1>2. /\ f.details.hasVariation => f.value # Absent
      /\ f.status = "MISS" => f.details.reason \in {"OFF", "PREREQUISITE_FAILED"}
      /\ FlagOf(f).on = TRUE \/ f.details.reason = "OFF"
      /\ f.version \in began[f.key]..version[f.key]
  BY DEF Tells, Story
<1>3. TruthfulEvent(e)
  <2>1. FlagOf(f) = Versions(e.key)[e.version] /\ FlagOf(f) # Absent
    BY <1>1 DEF FlagOf, FrameOK
  <2>2. e.variation # Absent => e.value = FlagOf(f).variations[e.variation + 1]
    BY <1>1, <1>2 DEF FrameOK
  <2> QED
    BY <1>1, <1>2, <2>1, <2>2 DEF TruthfulEvent
<1>4. f.details.reason \in {"OFF", "PREREQUISITE_FAILED"} => e.reason[1] = f.details.reason
  BY <1>1 DEF reasonToJSON, HasName
<1> QED
  BY <1>1, <1>2, <1>3, <1>4 DEF Refuses, e

(* More events show all that fewer did.                                    *)
LEMMA MoreEventsShow ==
    ASSUME NEW f, NEW g, g.key = f.key, g.version = f.version,
           Range(f.events) \subseteq Range(g.events)
    PROVE  FlagOf(g) = FlagOf(f) /\ Walk(g) = Walk(f) /\ \A i : PassShown(f, i) => PassShown(g, i)
<1>1. FlagOf(g) = FlagOf(f) /\ Walk(g) = Walk(f)
  BY DEF FlagOf, Walk, Prerequisites
<1>2. \A i : EventOf(f, i) \subseteq EventOf(g, i)
  BY <1>1 DEF EventOf
<1> QED
  BY <1>1, <1>2 DEF PassShown

(* The caller takes over the events of its prerequisite and adds one.      *)
LEMMA AfterTells ==
    ASSUME Inv, VersionsOK, NEW caller, FrameOK(caller), Tells(caller),
           caller.at = "prerequisites", NEW f, FrameOK(f), Tells(f), f.at = "returned",
           ~isEvalError(f.status), WaitsFor(caller, f)
    PROVE  LET g == afterPrerequisite(caller, f, EventFor(f, caller))
           IN  Tells(g) /\ g.key = caller.key
<1> DEFINE e == EventFor(f, caller)
           g == afterPrerequisite(caller, f, e)
           wanted == Prerequisite(caller).variation
           i == caller.i
<1>1. /\ caller.key \in FlagKeys /\ FlagOf(caller).on = TRUE
      /\ caller.version \in began[caller.key]..version[caller.key]
      /\ i \in 1..Len(Walk(caller)) + 1 /\ FlagOf(caller) # Absent
      /\ caller.details.reason = "UNKNOWN" /\ caller.details.hasVariation = FALSE
      /\ DOMAIN caller = FrameFields
  BY DEF Tells, Story, FrameOK
<1>2. Len(Walk(caller)) \in Nat
  BY <1>1, FlagShape
<1>3. /\ i <= Len(Walk(caller)) /\ Prerequisite(caller) = Walk(caller)[i]
      /\ f.key = Walk(caller)[i].key /\ f.key \in FlagKeys /\ wanted # Absent
      /\ wanted = Walk(caller)[i].variation
  <2>1. i \in Nat \ {0}
    BY <1>1, <1>2
  <2> QED
    BY <1>1, <2>1, ReadShape DEF WaitsFor
<1> HIDE DEF wanted
<1>4. /\ e.key = f.key /\ e.prereqOf = caller.key /\ TruthfulEvent(e)
      /\ ~Refuses(f, wanted) => e.variation = wanted
      /\ Refuses(f, wanted) => \/ e.reason[1] \in {"OFF", "PREREQUISITE_FAILED"}
                              \/ e.variation # wanted
  BY <1>3, EventTells
<1> HIDE DEF e
<1>5. /\ g.key = caller.key /\ g.version = caller.version /\ g.details = caller.details
      /\ g.events = (caller.events \o f.events) \o <<e>>
      /\ Refuses(f, wanted) => g.at = "failed" /\ g.i = i
      /\ ~Refuses(f, wanted) => g.at = "prerequisites" /\ g.i = i + 1
  <2> DEFINE passed == [caller EXCEPT !.events = (@ \o f.events) \o <<e>>]
  <2>1. /\ DOMAIN passed = FrameFields /\ passed.details = caller.details
        /\ passed.events = (caller.events \o f.events) \o <<e>>
        /\ passed.key = caller.key /\ passed.version = caller.version
        /\ passed.at = "prerequisites" /\ passed.i = i
    BY <1>1 DEF FrameFields
  <2>2. g = IF Refuses(f, wanted) THEN [passed EXCEPT !.at = "failed"]
                                  ELSE [passed EXCEPT !.i = @ + 1]
    BY DEF afterPrerequisite, Refuses, wanted
  <2> HIDE DEF passed, g
  <2>3. CASE Refuses(f, wanted)
    BY <2>1, <2>2, <2>3 DEF FrameFields
  <2>4. CASE ~Refuses(f, wanted)
    BY <2>1, <2>2, <2>4 DEF FrameFields
  <2> QED
    BY <2>3, <2>4
<1> HIDE DEF g
<1>6. Range(g.events) = Range(caller.events) \cup Range(f.events) \cup {e}
  BY <1>5, Elements3 DEF FrameOK
<1>7. /\ FlagOf(g) = FlagOf(caller) /\ Walk(g) = Walk(caller)
      /\ \A j : PassShown(caller, j) => PassShown(g, j)
  BY <1>5, <1>6, MoreEventsShow
<1>8. e \in EventOf(g, i)
  BY <1>3, <1>4, <1>5, <1>6, <1>7 DEF EventOf
<1>9. \A x \in Range(g.events) : TruthfulEvent(x) /\ x.key \in FlagKeys
  BY <1>3, <1>4, <1>6 DEF Tells, Story, Explained
<1>10. \A j \in 1..(i - 1) : PassShown(g, j)
  BY <1>7 DEF Tells, Explained
<1>11. CASE Refuses(f, wanted)
  <2>1. g.at = "failed" /\ g.i = i
    BY <1>5, <1>11
  <2>2. FailureShown(g)
    BY <1>3, <1>4, <1>7, <1>8, <1>11, <2>1 DEF FailureShown
  <2>3. Story(g)
    BY <1>1, <1>3, <1>5, <1>7, <1>9, <2>1, <2>2 DEF Story
  <2>4. Explained(g)
    BY <1>1, <1>5, <1>9, <1>10, <2>1 DEF Explained
  <2> QED
    BY <1>5, <2>3, <2>4 DEF Tells, g, e
<1>12. CASE ~Refuses(f, wanted)
  <2>1. g.at = "prerequisites" /\ g.i = i + 1
    BY <1>5, <1>12
  <2>2. PassShown(g, i)
    BY <1>3, <1>4, <1>7, <1>8, <1>12 DEF PassShown
  <2>3. g.i \in 1..Len(Walk(g)) + 1 /\ \A j \in 1..(g.i - 1) : j \in 1..(i - 1) \/ j = i
    BY <1>1, <1>2, <1>3, <1>7, <2>1
  <2>4. Story(g)
    BY <1>1, <1>5, <1>7, <1>9, <2>1, <2>3 DEF Story
  <2>5. Explained(g)
    BY <1>1, <1>5, <1>9, <1>10, <2>1, <2>2, <2>3 DEF Explained
  <2> QED
    BY <1>5, <2>4, <2>5 DEF Tells, g, e
<1> QED
  BY <1>11, <1>12

(* A prerequisite returns, and its caller tells what came of it.           *)
LEMMA PrerequisiteReturnsStory ==
    ASSUME Inv, StoryInv, NEW memory \in BOOLEAN, prerequisiteReturns(memory)
    PROVE  StoryInv'
<1> DEFINE m == Len(stack) - 1
           caller == stack[m]
           g == IF isEvalError(Top.status) THEN Returned(caller, Top.status)
                ELSE IF ~memory THEN Returned(caller, "MEM")
                ELSE afterPrerequisite(caller, Top, EventFor(Top, caller))
<1>1. /\ pc = "evaluate" /\ Top.at = "returned" /\ Len(stack) > 1
      /\ stack' = Append(Front(Front(stack)), g) /\ UNCHANGED <<world, version, began>>
  BY DEF prerequisiteReturns, EventFor, At, store
<1>2. /\ m \in Nat \ {0} /\ Len(stack) = m + 1 /\ m \in 1..Len(stack) /\ m \in 1..Len(stack) - 1
      /\ Top = stack[m + 1]
  BY <1>1, TopIsAFrame
<1>3. FrameOK(Top) /\ Tells(Top) /\ FrameOK(caller) /\ Tells(caller)
  BY <1>1, <1>2, TopTells DEF Inv, StackOK
<1>4. caller.at = "prerequisites" /\ WaitsFor(caller, Top) /\ VersionsOK
  BY <1>2 DEF Inv, StackOK, StoryInv
<1> HIDE DEF caller
<1>5. Tells(g) /\ g.key = caller.key
  <2>1. isEvalError("MEM")
    BY DEF isEvalError
  <2>2. \A s : isEvalError(s) => Tells(Returned(caller, s)) /\ Returned(caller, s).key = caller.key
    BY <1>3, <1>4, ErrorTells
  <2>3. CASE isEvalError(Top.status)
    BY <2>2, <2>3
  <2>4. CASE ~isEvalError(Top.status) /\ ~memory
    BY <2>1, <2>2, <2>4
  <2>5. CASE ~isEvalError(Top.status) /\ memory
    BY <1>1, <1>3, <1>4, <2>5, AfterTells
  <2> QED
    BY <2>3, <2>4, <2>5
<1> HIDE DEF g
<1>6. /\ Len(stack') = m /\ DOMAIN stack' = 1..m /\ stack'[m] = g
      /\ \A n \in 1..m - 1 : stack'[n] = stack[n]
  BY <1>1, Pops DEF IsSequence
<1> HIDE DEF m
<1>7. \A n \in 1..m : Tells(stack'[n])
  <2> TAKE n \in 1..m
  <2>1. n \in 1..Len(stack) /\ (n = m \/ n \in 1..m - 1)
    BY <1>2
  <2>2. n \in 1..m - 1 => stack'[n] = stack[n] /\ Tells(stack[n])
    BY <1>1, <1>6, <2>1, TopTells
  <2> QED
    BY <1>5, <1>6, <2>1, <2>2
<1>8. \A f \in Range(stack') : Tells(f)
  BY <1>6, <1>7 DEF Range
<1>9. ASSUME NEW n \in 1..Len(stack') - 1
      PROVE  WaitsFor(stack'[n], stack'[n + 1])
  <2>1. n \in 1..m - 1 /\ n \in 1..Len(stack) - 1 /\ (n + 1 = m \/ n + 1 \in 1..m - 1)
    BY <1>2, <1>6
  <2>2. stack'[n] = stack[n] /\ stack'[n + 1].key = stack[n + 1].key
    BY <1>5, <1>6, <2>1 DEF caller
  <2>3. WaitsFor(stack[n], stack[n + 1])
    BY <2>1 DEF StoryInv
  <2> QED
    BY <2>2, <2>3 DEF WaitsFor
<1> QED
  BY <1>1, <1>8, <1>9, StoryGoesOn

(* No call is under way.                                                   *)
LEMMA EmptyStory ==
    ASSUME Inv, VersionsOK, stack' = <<>>, UNCHANGED <<world, version>>,
           began' \in {began, version}
    PROVE  StoryInv'
<1>1. \A k \in Keys : version[k] \in Nat
  BY DEF Inv, CountersOK
<1>2. \A k \in Keys : began[k] \in 1..version[k] /\ version[k] \in 1..version[k]
  BY <1>1 DEF VersionsOK
<1>3. \A k \in Keys : version[k] \in DOMAIN Versions(k)
  BY DEF VersionsOK
<1>4. VersionsOK'
  BY <1>2, <1>3 DEF VersionsOK, Versions
<1>5. Range(stack') = {} /\ Len(stack') = 0
  BY DEF Range
<1>6. 1..Len(stack') - 1 = {}
  BY <1>5
<1> QED
  BY <1>4, <1>5, <1>6 DEF StoryInv

(* A frame that has just started tells its story of a call that has, too.  *)
LEMMA FreshTells ==
    ASSUME Inv, UNCHANGED <<world, version>>, began' = version
    PROVE  \A f : /\ Tells(f) /\ f.version = version[f.key] /\ f.at = "on" /\ f.i = 1
                  /\ f.events = <<>>
                  => Tells(f)'
<1> SUFFICES ASSUME NEW f, Tells(f), f.version = version[f.key], f.at = "on", f.i = 1,
                    f.events = <<>>
             PROVE  Tells(f)'
  OBVIOUS
<1>1. f.version \in began'[f.key]..version'[f.key]
  <2>1. version[f.key] \in Nat
    BY DEF Inv, CountersOK, Keys, Tells, Story
  <2> QED
    BY <2>1
<1>2. Walk(f)' = Walk(f)
  BY DEF Walk, Prerequisites, FlagOf, Versions
<1>3. Range(f.events) = {} /\ 1..(f.i - 1) = {}
  BY DEF Range
<1>4. f.details.reason = "UNKNOWN"
  BY DEF Tells, Story
<1>5. Story(f)'
  BY <1>1, <1>2, <1>3, <1>4 DEF Tells, Story
<1>6. Explained(f)'
  BY <1>3, <1>4 DEF Explained
<1> QED
  BY <1>5, <1>6 DEF Tells

(* variation() starts with the flag it found.                              *)
LEMMA VariationStory ==
    ASSUME Inv, StoryInv, variation
    PROVE  StoryInv'
<1>1. /\ stack = <<>> /\ UNCHANGED <<world, version>> /\ began' = version
      /\ flagKey \in FlagKeys /\ VersionsOK
  BY DEF Inv, StackOK, CountersOK, variation, store, StoryInv
<1>2. CASE Feature(flagKey) = Absent
  <2>1. stack' = <<>>
    BY <1>1, <1>2 DEF variation
  <2> QED
    BY <1>1, <2>1, EmptyStory
<1>3. CASE Feature(flagKey) # Absent
  <2> DEFINE f == NewFrame(flagKey)
  <2>1. stack' = <<f>>
    BY <1>3 DEF variation
  <2>2. Tells(f)
    BY <1>1, <1>3, NewFrameTells
  <2>3. /\ f.key = flagKey /\ f.version = version[flagKey] /\ f.at = "on" /\ f.i = 1
        /\ f.events = <<>>
    BY DEF NewFrame
  <2> HIDE DEF f
  <2>4. \A g : g = f => Tells(g)'
    BY <1>1, <2>2, <2>3, FreshTells
  <2>5. Range(stack') = {f} /\ Len(stack') = 1
    BY <2>1 DEF Range
  <2>6. 1..Len(stack') - 1 = {}
    BY <2>5
  <2>7. \A g \in Range(stack') : Story(g)' /\ Explained(g)'
    BY <2>4, <2>5 DEF Tells
  <2>8. VersionsOK'
    <3>1. \A k \in Keys : version[k] \in Nat /\ began[k] \in 1..version[k]
      BY <1>1 DEF Inv, CountersOK, VersionsOK
    <3>2. \A k \in Keys : version[k] \in 1..version[k]
      BY <3>1
    <3>3. \A k \in Keys : version[k] \in DOMAIN Versions(k)
      BY <1>1 DEF VersionsOK
    <3> QED
      BY <1>1, <3>2, <3>3 DEF VersionsOK, Versions
  <2> QED
    BY <2>6, <2>7, <2>8 DEF StoryInv
<1> QED
  BY <1>2, <1>3

(* The steps that leave the stack alone.                                   *)
LEMMA SameStory ==
    ASSUME Inv, StoryInv, UNCHANGED <<stack, world, version, began>>
    PROVE  StoryInv'
<1>1. \A f \in Range(stack') : Tells(f)
  BY DEF StoryInv, Tells
<1>2. \A n \in 1..Len(stack') - 1 : WaitsFor(stack'[n], stack'[n + 1])
  BY DEF StoryInv
<1> QED
  BY <1>1, <1>2, StoryGoesOn

(* The network thread replaces a feature.                                  *)
LEMMA WriteStory ==
    ASSUME Inv, StoryInv, NEW k \in Keys, write(k)
    PROVE  StoryInv'
<1>1. PICK v \in DOMAIN Versions(k) : v > version[k] /\ version' = [version EXCEPT ![k] = v]
  BY DEF write
<1>2. UNCHANGED <<world, stack, began>>
  BY DEF write
<1>3. version \in [Keys -> Nat] /\ began \in [Keys -> Nat] /\ v \in Nat
  BY EvaluateAssumption DEF Inv, CountersOK, Versions
<1>4. version' \in [Keys -> Nat] /\ \A j \in Keys : version[j] <= version'[j]
  BY <1>1, <1>3
<1>5. \A f : Tells(f) => Tells(f)'
  BY <1>2, <1>3, <1>4, TellsGrows
<1>6. \A f \in Range(stack') : Story(f)' /\ Explained(f)'
  BY <1>2, <1>5 DEF StoryInv, Tells
<1>7. \A n \in 1..Len(stack') - 1 : WaitsFor(stack[n], stack[n + 1])'
  BY <1>2 DEF StoryInv, WaitsFor, ReadablePrerequisite, MorePrerequisites,
              MalformedPrerequisite, Prerequisite, Prerequisites, FlagOf, Versions
<1>8. VersionsOK'
  <2>1. \A j \in Keys : began[j] \in 1..version[j] /\ version[j] \in DOMAIN Versions(j)
    BY DEF StoryInv, VersionsOK
  <2>2. \A j \in Keys : began[j] \in 1..version'[j]
    BY <1>3, <1>4, <2>1
  <2>3. \A j \in Keys : version'[j] \in DOMAIN Versions(j)
    BY <1>1, <1>3, <2>1
  <2> QED
    BY <1>2, <2>2, <2>3 DEF VersionsOK, Versions
<1> QED
  BY <1>6, <1>7, <1>8 DEF StoryInv

LEMMA InitStory == Init => StoryInv
<1> SUFFICES ASSUME Init
             PROVE  StoryInv
  OBVIOUS
<1>1. world \in DOMAIN History /\ \A k \in Keys : version[k] = 1 /\ began[k] = 1
  BY DEF Init
<1>2. \A k \in Keys : 1 \in DOMAIN Versions(k)
  <2>1. \A k \in Keys : /\ Len(Versions(k)) \in Nat \ {0}
                        /\ DOMAIN Versions(k) = 1..Len(Versions(k))
    BY <1>1, EvaluateAssumption DEF Versions
  <2> QED
    BY <2>1
<1>3. VersionsOK
  BY <1>1, <1>2 DEF VersionsOK
<1>4. Range(stack) = {} /\ Len(stack) = 0
  BY DEF Init, Range
<1>5. 1..Len(stack) - 1 = {}
  BY <1>4
<1> QED
  BY <1>3, <1>4, <1>5 DEF StoryInv

(* StoryInv is inductive, relative to Inv.                                 *)
LEMMA NextStory == Inv /\ StoryInv /\ [Next]_vars => StoryInv'
<1> SUFFICES ASSUME Inv, StoryInv, [Next]_vars
             PROVE  StoryInv'
  OBVIOUS
<1>1. CASE UNCHANGED vars
  BY <1>1, SameStory DEF vars, store
<1>2. ASSUME \/ \E kind \in {"OOM", "CLIENT_NOT_READY", "STORE_ERROR"} : variationFails(kind)
             \/ \E detailed \in BOOLEAN : processEvaluationFails(detailed)
             \/ \E types \in Accepted : checkType(types)
             \/ detailsClear
      PROVE  StoryInv'
  <2>1. stack' = <<>> /\ UNCHANGED <<world, version>> /\ began' \in {began, version}
    BY <1>2 DEF variationFails, processEvaluationFails, checkType, detailsClear, Return, store,
                Inv, StackOK
  <2> QED
    BY <2>1, EmptyStory DEF StoryInv
<1>3. ASSUME evaluated \/ \E detailed \in BOOLEAN : processEvaluation(detailed)
      PROVE  StoryInv'
  <2>1. UNCHANGED <<world, version, began>> /\ (stack' = <<>> \/ stack' = stack)
    BY <1>3 DEF evaluated, processEvaluation, Return, store
  <2> QED
    BY <2>1, EmptyStory, SameStory DEF StoryInv
<1>4. CASE Evaluation
  BY <1>2, <1>3, <1>4, LocalStory, ReadPrerequisiteStory, PrerequisiteReturnsStory DEF Evaluation
<1>5. CASE Call
  BY <1>2, <1>5, VariationStory DEF Call
<1> QED
  BY <1>1, <1>4, <1>5, WriteStory DEF Next

(* LDi_checkPrerequisites and its events: where each frame has got to and  *)
(* what it found holds of every evaluation, whatever is written meanwhile. *)
THEOREM StoryHolds == Spec => []StoryInv
BY InitStory, NextStory, InvHolds, PTL DEF Spec

(* LDi_checkPrerequisites and LDi_newFeatureRequestEvent: whatever is      *)
(* written during a call, its events explain the result.                   *)
THEOREM EventsAlwaysExplain == Spec => []EventsExplainResult
<1>1. StoryInv => EventsExplainResult
  BY DEF StoryInv, EventsExplainResult, Range
<1> QED
  BY <1>1, StoryHolds, PTL

-----------------------------------------------------------------------------
(* Numbers.                                                                *)

Below == {pair \in Nat \X Nat : pair[1] < pair[2]}

(* A set of numbers has a least one.                                       *)
LEMMA LeastNumber ==
    ASSUME NEW S \in SUBSET Nat, S # {}
    PROVE  \E m \in S : \A n \in S : m <= n
<1>1. OpToRel(<, Nat) = Below
  BY Zenon DEF OpToRel, Below
<1>2. IsWellFoundedOn(Below, Nat)
  BY <1>1, NatLessThanWellFounded, Zenon
<1>3. PICK m \in S : \A n \in S : <<n, m>> \notin Below
  BY <1>2, WFMin
<1>4. ASSUME NEW n \in S PROVE m <= n
  <2>1. m \in Nat /\ n \in Nat
    OBVIOUS
  <2>2. ~(n < m)
    BY <1>3, <2>1 DEF Below
  <2> QED
    BY <2>1, <2>2
<1> QED
  BY <1>4

(* Induction: a set of numbers with 0 in it that is closed under the       *)
(* successor holds them all.                                               *)
LEMMA NumberInduction ==
    ASSUME NEW S, 0 \in S, \A n \in Nat : n \in S => n + 1 \in S
    PROVE  \A n \in Nat : n \in S
<1> SUFFICES ASSUME Nat \ S # {} PROVE FALSE
  OBVIOUS
<1>1. Nat \ S \in SUBSET Nat
  OBVIOUS
<1>2. PICK m \in Nat \ S : \A n \in Nat \ S : m <= n
  BY <1>1, LeastNumber
<1>3. m \in Nat /\ m # 0
  OBVIOUS
<1>4. m - 1 \in Nat /\ ~(m <= m - 1)
  BY <1>3
<1>5. m - 1 \in S
  BY <1>2, <1>4
<1>6. (m - 1) + 1 = m
  BY <1>3
<1> QED
  BY <1>4, <1>5, <1>6

(* The first of a set of numbers.                                          *)
LEMMA FirstOne ==
    ASSUME NEW S \in SUBSET Nat, S # {}
    PROVE  Min(S) \in S /\ \A n \in S : Min(S) <= n
<1>1. PICK m \in S : \A n \in S : m <= n
  BY LeastNumber
<1> QED
  BY <1>1, Zenon DEF Min

(* The first of two numbers that are both the first is the same.           *)
LEMMA FirstIs ==
    ASSUME NEW S \in SUBSET Nat, NEW m \in S, \A n \in S : m <= n
    PROVE  Min(S) = m
<1>1. Min(S) \in S /\ \A n \in S : Min(S) <= n
  BY FirstOne
<1>2. Min(S) \in Nat /\ m \in Nat /\ Min(S) <= m /\ m <= Min(S)
  BY <1>1
<1> QED
  BY <1>2

-----------------------------------------------------------------------------
(* Sums of weights.                                                        *)

IsSum(f, weighted, i) ==
    f = [n \in 0..i |-> IF n = 0 THEN 0
                        ELSE IF Malformed(weighted[n]) THEN f[n - 1]
                        ELSE f[n - 1] + weighted[n].weight]

(* The recursive definition of the sum of the weights has a solution.      *)
LEMMA SumExists ==
    ASSUME NEW weighted, NEW i \in Nat
    PROVE  \E f : IsSum(f, weighted, i)
<1> DEFINE Plus(sum, n) == IF Malformed(weighted[n]) THEN sum ELSE sum + weighted[n].weight
           S == {m \in Nat : \E f : IsSum(f, weighted, m)}
<1>1. 0 \in S
  <2> DEFINE g == [n \in 0..0 |-> 0]
  <2>1. IsSum(g, weighted, 0)
    BY DEF IsSum
  <2> QED
    BY <2>1
<1>2. ASSUME NEW m \in Nat, m \in S PROVE m + 1 \in S
  <2>1. PICK f : IsSum(f, weighted, m)
    BY <1>2
  <2> DEFINE g == [n \in 0..(m + 1) |-> IF n = m + 1 THEN Plus(f[m], m + 1) ELSE f[n]]
             h == [n \in 0..(m + 1) |-> IF n = 0 THEN 0 ELSE Plus(g[n - 1], n)]
  <2>2. \A n \in 0..m : f[n] = IF n = 0 THEN 0 ELSE Plus(f[n - 1], n)
    BY <2>1 DEF IsSum
  <2> HIDE DEF Plus
  <2>3. ASSUME NEW n \in 0..(m + 1) PROVE g[n] = h[n]
    <3>1. CASE n = 0
      BY <3>1, <2>2
    <3>2. CASE n \in 1..m
      <4>1. n - 1 \in 0..m /\ n - 1 # m + 1 /\ n - 1 \in 0..(m + 1)
        BY <3>2
      <4>2. g[n - 1] = f[n - 1] /\ g[n] = f[n] /\ n # 0 /\ n \in 0..m
        BY <3>2, <4>1
      <4>3. f[n] = Plus(f[n - 1], n)
        BY <4>2, <2>2
      <4> QED
        BY <4>2, <4>3
    <3>3. CASE n = m + 1
      <4>1. n - 1 = m /\ n # 0 /\ m \in 0..(m + 1) /\ m # m + 1
        BY <3>3
      <4> QED
        BY <3>3, <4>1
    <3> QED
      BY <3>1, <3>2, <3>3
  <2>4. g = h
    BY <2>3
  <2> USE DEF Plus
  <2>5. IsSum(g, weighted, m + 1)
    BY <2>4 DEF IsSum
  <2> QED
    BY <2>5
<1>3. i \in S
  BY <1>1, <1>2, NumberInduction
<1> QED
  BY <1>3

(* The weight up to an entry that can be read is a number.                 *)
LEMMA WeightUpToIs ==
    ASSUME NEW weighted, NEW i \in Nat,
           \A n \in 1..i : weighted[n].weight \in Nat /\ ~Malformed(weighted[n])
    PROVE  /\ WeightUpTo(weighted, i) \in Nat
           /\ i = 1 => WeightUpTo(weighted, i) = weighted[1].weight
<1> DEFINE sum == CHOOSE f : IsSum(f, weighted, i)
<1>1. IsSum(sum, weighted, i)
  BY SumExists, Zenon
<1>2. WeightUpTo(weighted, i) = sum[i]
  BY Zenon DEF WeightUpTo, IsSum
<1>3. \A n \in 0..i : sum[n] = IF n = 0 THEN 0 ELSE sum[n - 1] + weighted[n].weight
  <2> HIDE DEF sum
  <2> SUFFICES ASSUME NEW n \in 0..i
               PROVE  sum[n] = IF n = 0 THEN 0 ELSE sum[n - 1] + weighted[n].weight
    OBVIOUS
  <2>1. n # 0 => ~Malformed(weighted[n])
    OBVIOUS
  <2> QED
    BY <1>1, <2>1 DEF IsSum
<1> HIDE DEF sum
<1> DEFINE S == {n \in Nat : n <= i => sum[n] \in Nat}
<1>4. 0 \in S
  BY <1>3
<1>5. ASSUME NEW n \in Nat, n \in S PROVE n + 1 \in S
  <2> SUFFICES ASSUME n + 1 <= i PROVE sum[n + 1] \in Nat
    OBVIOUS
  <2>1. n + 1 \in 0..i /\ n + 1 # 0 /\ (n + 1) - 1 = n /\ n <= i /\ n + 1 \in 1..i
    OBVIOUS
  <2>2. sum[n] \in Nat
    BY <1>5, <2>1
  <2>3. sum[n + 1] = sum[n] + weighted[n + 1].weight
    BY <1>3, <2>1
  <2> QED
    BY <2>1, <2>2, <2>3
<1>6. i \in S
  BY <1>4, <1>5, NumberInduction
<1>7. i = 1 => sum[i] = weighted[1].weight
  <2> SUFFICES ASSUME i = 1 PROVE sum[1] = weighted[1].weight
    OBVIOUS
  <2>1. sum[0] = 0 /\ sum[1] = sum[0] + weighted[1].weight
    BY <1>3
  <2> QED
    BY <2>1
<1> QED
  BY <1>2, <1>6, <1>7

-----------------------------------------------------------------------------
(* Rollouts.                                                               *)

(* LDi_bucketUser gives a number, whatever it is asked to hash.            *)
LEMMA BucketIsANumber ==
    ASSUME NEW u, NEW key, NEW attribute, NEW salt, NEW seed
    PROVE  bucketUser(u, key, attribute, salt, seed) \in Nat
<1> DEFINE bucketable == Bucketable(valueOfAttribute(u, attribute))
           hash == Digest(Raw(u, key, bucketable, salt, seed))
<1> HIDE DEF bucketable, hash
<1>1. (IF bucketable = Absent \/ hash \notin 0..Scale THEN 0 ELSE hash) \in Nat
  BY ScaleIsPositive
<1>2. bucketUser(u, key, attribute, salt, seed)
        = IF bucketable = Absent \/ hash \notin 0..Scale THEN 0 ELSE hash
  BY Zenon DEF bucketUser, bucketable, hash
<1> QED
  BY <1>1, <1>2

Readable(W) ==
    /\ IsSequence(W) /\ W # <<>>
    /\ \A i \in 1..Len(W) : W[i].weight \in Nat /\ ~Malformed(W[i])

(* The shares of a rollout that can be read are a list of weights.         *)
LEMMA ReadableShape ==
    ASSUME NEW W, Readable(W)
    PROVE  Len(W) \in Nat \ {0} /\ DOMAIN W = 1..Len(W)
BY DEF Readable, IsSequence

(* Their sums are numbers.                                                 *)
LEMMA WeightsAreNumbers ==
    ASSUME NEW W, Readable(W), NEW i \in 0..Len(W)
    PROVE  /\ WeightUpTo(W, i) \in Nat
           /\ i = 1 => WeightUpTo(W, i) = W[1].weight
<1>1. Len(W) \in Nat
  BY ReadableShape
<1>2. i \in Nat /\ \A n \in 1..i : W[n].weight \in Nat /\ ~Malformed(W[n])
  BY <1>1 DEF Readable
<1> QED
  BY <1>2, WeightUpToIs

Holding(W, bucket) == {i \in 1..Len(W) : bucket < WeightUpTo(W, i)}

(* The loop stops at the first share that reaches past the bucket.         *)
LEMMA StopsAtIs ==
    ASSUME NEW W, Readable(W), NEW bucket
    PROVE  StopsAt(W, bucket) = IF Holding(W, bucket) # {} THEN Min(Holding(W, bucket)) ELSE 0
<1> DEFINE id == [i \in DOMAIN W |-> i]
           I == {i \in 1..Len(id) : Malformed(W[id[i]]) \/ bucket < WeightUpTo(W, id[i])}
<1>1. Len(W) \in Nat /\ DOMAIN W = 1..Len(W)
  BY ReadableShape
<1>2. id \in Seq(Nat)
  BY <1>1
<1>3. Len(id) = Len(W)
  BY <1>1, <1>2
<1>4. I = Holding(W, bucket)
  <2>1. ASSUME NEW i \in 1..Len(W)
        PROVE  id[i] = i /\ ~Malformed(W[i])
    BY <1>1, <2>1 DEF Readable
  <2> QED
    BY <1>3, <2>1 DEF Holding
<1>5. StopsAt(W, bucket) = IF I # {} THEN Min(I) ELSE 0
  BY Zenon DEF StopsAt, SelectInSeq
<1> QED
  BY <1>4, <1>5, Zenon

(* The loop over the shares stops at the first that holds the bucket.      *)
LEMMA LoopFindsShare ==
    ASSUME NEW W, Readable(W), NEW bucket \in Nat
    PROVE  /\ weightedVariation(W, bucket) \in 1..Len(W)
           /\ weightedVariation(W, bucket) = Min({i \in DOMAIN W : InShare(W, i, bucket)})
<1> DEFINE I == {i \in DOMAIN W : InShare(W, i, bucket)}
           H == Holding(W, bucket)
           w == weightedVariation(W, bucket)
<1>1. Len(W) \in Nat \ {0} /\ DOMAIN W = 1..Len(W)
  BY ReadableShape
<1>2. H \in SUBSET (1..Len(W)) /\ I \in SUBSET (1..Len(W)) /\ H \in SUBSET Nat /\ I \in SUBSET Nat
  BY <1>1 DEF Holding
<1>3. w = IF H # {} THEN Min(H) ELSE Len(W)
  <2>1. H # {} => Min(H) # 0
    BY <1>2, FirstOne
  <2>2. StopsAt(W, bucket) = IF H # {} THEN Min(H) ELSE 0
    BY StopsAtIs
  <2> HIDE DEF H
  <2> QED
    BY <2>1, <2>2 DEF weightedVariation
<1>4. \A i \in 0..Len(W) : WeightUpTo(W, i) \in Nat
  BY WeightsAreNumbers
<1>5. w \in 1..Len(W) /\ (\A i \in 1..(w - 1) : i \notin H) /\ (w \in H \/ w = Len(W))
  <2>1. CASE H # {}
    <3>1. Min(H) \in H /\ \A n \in H : Min(H) <= n
      BY <2>1, <1>2, FirstOne
    <3>2. w = Min(H) /\ Min(H) \in Nat /\ Min(H) \in 1..Len(W)
      BY <2>1, <3>1, <1>2, <1>3
    <3>3. \A i \in 1..(Min(H) - 1) : ~(Min(H) <= i)
      BY <3>2
    <3> QED
      BY <3>1, <3>2, <3>3
  <2>2. CASE H = {}
    BY <2>2, <1>1, <1>3
  <2> QED
    BY <2>1, <2>2
<1> HIDE DEF w
<1>a. w \in 1..Len(W)
  BY <1>5
<1>6. w \in I
  <2>1. w = 1 \/ WeightUpTo(W, w - 1) <= bucket
    <3> SUFFICES ASSUME w # 1 PROVE WeightUpTo(W, w - 1) <= bucket
      OBVIOUS
    <3>1. w - 1 \in 1..(w - 1) /\ w - 1 \in 0..Len(W) /\ w - 1 \in 1..Len(W)
      BY <1>a, <1>1
    <3>2. ~(bucket < WeightUpTo(W, w - 1))
      BY <3>1, <1>5 DEF Holding
    <3> QED
      BY <3>1, <3>2, <1>4
  <2>2. bucket < WeightUpTo(W, w) \/ w = Len(W)
    BY <1>5 DEF Holding
  <2> QED
    BY <2>1, <2>2, <1>1, <1>5 DEF InShare
<1>7. ASSUME NEW i \in I PROVE w <= i
  <2> SUFFICES ASSUME i < w PROVE FALSE
    BY <1>2, <1>5
  <2>1. i \in 1..Len(W) /\ i \in 1..(w - 1) /\ i # Len(W)
    <3>1. i \in 1..Len(W)
      BY <1>2
    <3> QED
      BY <3>1, <1>1, <1>a
  <2>2. bucket < WeightUpTo(W, i)
    BY <2>1 DEF InShare
  <2> QED
    BY <2>1, <2>2, <1>5 DEF Holding
<1>8. Min(I) = w
  BY <1>2, <1>6, <1>7, FirstIs
<1> QED
  BY <1>5, <1>8 DEF w

(* Raising the first share keeps who is in it.                             *)
LEMMA FirstShareGrows ==
    ASSUME NEW W, NEW V, Readable(W), Readable(V), Len(W) = Len(V),
           W[1].weight < V[1].weight, NEW bucket \in Nat,
           weightedVariation(W, bucket) = 1
    PROVE  weightedVariation(V, bucket) = 1
<1>1. Len(W) \in Nat \ {0} /\ 1 \in 0..Len(W) /\ 1 \in 1..Len(W)
  BY ReadableShape
<1>2. WeightUpTo(W, 1) = W[1].weight /\ WeightUpTo(V, 1) = V[1].weight
  BY <1>1, WeightsAreNumbers
<1>3. W[1].weight \in Nat /\ V[1].weight \in Nat
  BY <1>1 DEF Readable
<1>4. /\ Holding(W, bucket) \in SUBSET Nat /\ Holding(V, bucket) \in SUBSET Nat
      /\ 0 \notin Holding(V, bucket)
  BY DEF Holding
<1>5. CASE Len(W) = 1
  <2>1. weightedVariation(V, bucket) \in 1..Len(V)
    BY LoopFindsShare, Zenon
  <2> QED
    BY <1>5, <2>1
<1>6. CASE Len(W) # 1
  <2>1. Holding(W, bucket) # {} /\ Min(Holding(W, bucket)) = 1
    <3>1. StopsAt(W, bucket) = IF Holding(W, bucket) # {} THEN Min(Holding(W, bucket)) ELSE 0
      BY StopsAtIs
    <3> HIDE DEF Holding
    <3> QED
      BY <1>6, <3>1 DEF weightedVariation
  <2>2. 1 \in Holding(W, bucket)
    BY <2>1, <1>4, FirstOne
  <2>3. 1 \in Holding(V, bucket)
    BY <2>2, <1>1, <1>2, <1>3 DEF Holding
  <2>4. \A n \in Holding(V, bucket) : 1 <= n
    BY DEF Holding
  <2>5. Min(Holding(V, bucket)) = 1
    BY <2>3, <2>4, <1>4, FirstIs
  <2> QED
    <3>1. StopsAt(V, bucket) = IF Holding(V, bucket) # {} THEN Min(Holding(V, bucket)) ELSE 0
      BY StopsAtIs
    <3> QED
      BY <2>3, <2>5, <3>1 DEF weightedVariation
<1> QED
  BY <1>5, <1>6

(* Only the network thread changes the store.                              *)
LEMMA OnlyWritesChange ==
    ASSUME [Next]_vars
    PROVE  UNCHANGED <<world, user>> /\ (UNCHANGED version \/ \E k \in Keys : write(k))
<1>1. CASE UNCHANGED vars
  BY <1>1 DEF vars, store
<1>2. CASE \E k \in Keys : write(k)
  BY <1>2 DEF write
<1>3. CASE Call
  BY <1>3 DEF Call, variation, variationFails, detailsClear, store
<1>4. CASE Evaluation
  BY <1>4 DEF Evaluation, Local, store, evaluateOn, evaluateOff, prerequisiteReturns,
              prerequisiteFailed, evaluateTargets, checkPrerequisitesEnds, readPrerequisite,
              readPrerequisiteFails, prerequisiteFailedNoMemory, evaluateRules, segmentsEnd,
              readSegmentFails, clauseMatchesUser, readSegment, evaluateFallthrough,
              ruleMatches, evaluated, processEvaluation, processEvaluationFails, checkType
<1> QED
  BY <1>1, <1>2, <1>3, <1>4 DEF Next

(* The shares of a rollout that follows the schema can be read.            *)
LEMMA SharesAreReadable ==
    ASSUME NEW flag, NEW r, RolloutOK(flag, r)
    PROVE  Readable(r.variations)
<1> DEFINE W == r.variations
<1>1. IsSequence(W) /\ W # <<>> /\ \A w \in Range(W) : ShareOK(flag, w)
  BY Zenon DEF RolloutOK, ListOf
<1>2. ASSUME NEW i \in 1..Len(W) PROVE W[i].weight \in Nat /\ ~Malformed(W[i])
  <2>1. i \in DOMAIN W
    BY <1>1, <1>2 DEF IsSequence
  <2>2. W[i] \in Range(W)
    BY <2>1, Zenon DEF Range
  <2> QED
    BY <1>1, <2>2, Zenon DEF ShareOK
<1> QED
  BY <1>1, <1>2 DEF Readable

(* The share that the loop finds, and getIndexForVariationOrRollout of it. *)
Rolled(flag, r, u) ==
    r.variations[weightedVariation(r.variations,
        bucketUser(u, flag.key, getBucketAttribute(r), flag.salt, r.seed))]

RolledChoice(flag, r, u) ==
    Choice(Rolled(flag, r, u).variation,
           r.kind = "experiment" /\ Rolled(flag, r, u).untracked # TRUE)

(* The rollout serves the variation of the share it stops at.              *)
LEMMA RolloutServes ==
    ASSUME NEW flag, FlagOK(flag), NEW serve, ServeOK(flag, serve), serve.variation = Absent,
           NEW u, ~Malformed(Rolled(flag, serve.rollout, u))
    PROVE  getIndexForVariationOrRollout(flag, serve, u)
             = RolledChoice(flag, serve.rollout, u)
<1> DEFINE r == serve.rollout
           w == Rolled(flag, r, u)
<1>1. Bad \notin {flag.key, flag.salt}
  BY DEF FlagOK
<1>2. r # Absent /\ r # Bad /\ RolloutOK(flag, r)
  BY DEF ServeOK
<1>3. Bad \notin {r.kind, r.bucketBy, r.seed} /\ r.variations # <<>> /\ r.variations # Bad
  BY <1>2, Zenon DEF RolloutOK, ListOf
<1>4. Absent # Bad
  BY AbsentIsNotBad
<1>5. ~(Bad \in {r.kind, r.variations, r.bucketBy, r.seed} \/ r.variations = <<>>)
  BY <1>3, Zenon
<1>6. rolloutForUser(r, u, flag.key, flag.salt) = RolledChoice(flag, r, u)
  BY <1>5, Zenon DEF rolloutForUser, RolledChoice, Rolled
<1>7. variationIndexForUser(serve, u, flag.key, flag.salt) = rolloutForUser(r, u, flag.key, flag.salt)
  <2>1. serve.variation # Bad /\ ~(serve.variation # Absent) /\ ~(serve.rollout \in {Absent, Bad})
    BY <1>2, <1>4
  <2> QED
    BY <2>1, Zenon DEF variationIndexForUser
<1> QED
  BY <1>1, <1>6, <1>7, Zenon DEF getIndexForVariationOrRollout

(* Raising the first share of a rollout takes no user out of it.           *)
LEMMA RampKeeps ==
    ASSUME NEW old, NEW new, FlagOK(old), FlagOK(new), Ramps(old, new), NEW u,
           getIndexForVariationOrRollout(old, old.fallthrough, u).index
             = old.fallthrough.rollout.variations[1].variation
    PROVE  getIndexForVariationOrRollout(new, new.fallthrough, u).index
             = old.fallthrough.rollout.variations[1].variation
<1> DEFINE q == old.fallthrough.rollout
           r == new.fallthrough.rollout
           W == q.variations
           V == r.variations
           V1 == [V[1] EXCEPT !.weight = W[1].weight]
           r1 == [r EXCEPT !.variations = [V EXCEPT ![1] = V1]]
           s1 == [new.fallthrough EXCEPT !.rollout = r1]
<1>1. ServeOK(old, old.fallthrough) /\ ServeOK(new, new.fallthrough)
  BY DEF FlagOK
<1>2. RolloutOK(old, q) /\ RolloutOK(new, r)
  BY <1>1 DEF Ramps, ServeOK
<1>3. [new EXCEPT !.fallthrough = s1] = old
  BY Zenon DEF Ramps
<1>4. old.key = new.key /\ old.salt = new.salt /\ old.fallthrough = s1
  <2> HIDE DEF s1
  <2> QED
    BY <1>3 DEF FlagOK
<1>5. q = r1 /\ old.fallthrough.variation = new.fallthrough.variation
  <2> HIDE DEF r1
  <2> QED
    BY <1>1, <1>4 DEF ServeOK
<1>6. W = [V EXCEPT ![1] = V1] /\ q.kind = r.kind /\ q.bucketBy = r.bucketBy /\ q.seed = r.seed
  <2> HIDE DEF V1
  <2> QED
    BY <1>2, <1>5 DEF RolloutOK
<1>7. Readable(W) /\ Readable(V)
  BY <1>2, SharesAreReadable
<1>8. Len(W) = Len(V) /\ 1 \in DOMAIN V /\ DOMAIN W = 1..Len(W) /\ DOMAIN V = 1..Len(V)
  <2>1. DOMAIN W = DOMAIN V
    BY <1>6
  <2> QED
    BY <1>7, <2>1, ReadableShape
<1>9. W[1] = V1 /\ W[1].variation = V[1].variation
  <2>1. W[1] = V1
    BY <1>6, <1>8
  <2>2. ShareOK(new, V[1])
    BY <1>2, <1>8 DEF RolloutOK, ListOf, Range
  <2> QED
    BY <2>1, <2>2 DEF ShareOK
<1> DEFINE bucket == bucketUser(u, old.key, getBucketAttribute(q), old.salt, q.seed)
<1>10. bucket \in Nat /\ bucket = bucketUser(u, new.key, getBucketAttribute(r), new.salt, r.seed)
  BY <1>4, <1>6, BucketIsANumber DEF getBucketAttribute
<1> HIDE DEF bucket
<1>11. CASE old.fallthrough.variation # Absent
  BY <1>1, <1>5, <1>4, <1>11 DEF FlagOK, ServeOK, VariationOK, getIndexForVariationOrRollout,
     variationIndexForUser, Choice
<1>12. CASE old.fallthrough.variation = Absent
  <2> DEFINE i == weightedVariation(W, bucket)
             j == weightedVariation(V, bucket)
  <2>0. i \in 1..Len(W) /\ j \in 1..Len(V)
    BY <1>7, <1>10, LoopFindsShare, Zenon
  <2>1. ~Malformed(W[i]) /\ ~Malformed(V[j])
    BY <1>7, <2>0 DEF Readable
  <2>2. getIndexForVariationOrRollout(old, old.fallthrough, u).index = W[i].variation
    <3>1. Rolled(old, q, u) = W[i]
      BY <1>10, Zenon DEF Rolled, bucket
    <3>2. old.fallthrough.variation = Absent /\ ~Malformed(Rolled(old, q, u))
      BY <1>5, <1>12, <2>1, <3>1
    <3>3. getIndexForVariationOrRollout(old, old.fallthrough, u) = RolledChoice(old, q, u)
      BY <1>1, <3>2, RolloutServes
    <3> QED
      BY <3>1, <3>3 DEF RolledChoice, Choice
  <2>3. getIndexForVariationOrRollout(new, new.fallthrough, u).index = V[j].variation
    <3>1. Rolled(new, r, u) = V[j]
      BY <1>10, Zenon DEF Rolled, bucket
    <3>2. new.fallthrough.variation = Absent /\ ~Malformed(Rolled(new, r, u))
      BY <1>5, <1>12, <2>1, <3>1
    <3>3. getIndexForVariationOrRollout(new, new.fallthrough, u) = RolledChoice(new, r, u)
      BY <1>1, <3>2, RolloutServes
    <3> QED
      BY <3>1, <3>3 DEF RolledChoice, Choice
  <2>4. i = 1
    BY <2>0, <2>2, <1>8 DEF Ramps
  <2>5. j = 1
    BY <2>4, <1>7, <1>8, <1>10, FirstShareGrows DEF Ramps
  <2> QED
    BY <2>3, <2>5, <1>9
<1> QED
  BY <1>11, <1>12

(* What a feature of a well-formed world follows.                          *)
LEMMA FollowsSchema ==
    ASSUME NEW w \in WellFormed, NEW k, NEW n
    PROVE  /\ k \in FlagKeys /\ n \in DOMAIN History[w][k] /\ History[w][k][n] # Absent
                => FlagOK(History[w][k][n])
           /\ k \in SegmentKeys /\ n \in DOMAIN History[w][k] /\ History[w][k][n] # Absent
                => SegmentOK(History[w][k][n])
<1> DEFINE H == History[w][k]
<1>1. n \in DOMAIN H => H[n] \in Range(H)
  BY Zenon DEF Range
<1> QED
  BY <1>1, WellFormedAssumption, Zenon

(* A growing share keeps its users: a step that raises a rollout's first   *)
(* share takes its variation from no one.                                  *)
THEOREM RampsKeepTheirUsers == Spec => StaysInRamp
<1> DEFINE Index(flag) == getIndexForVariationOrRollout(flag, flag.fallthrough, user).index
           First(flag) == flag.fallthrough.rollout.variations[1].variation
           Stays(k) ==
               world \in WellFormed /\ Ramps(Feature(k), Versions(k)[version'[k]])
                 /\ Index(Feature(k)) = First(Feature(k))
               => Index(Versions(k)[version'[k]]) = First(Feature(k))
<1>1. ASSUME StoryInv, StoryInv', [Next]_vars, NEW k \in FlagKeys PROVE Stays(k)
  <2> SUFFICES ASSUME world \in WellFormed, Ramps(Feature(k), Versions(k)[version'[k]]),
                      Index(Feature(k)) = First(Feature(k))
               PROVE  Index(Versions(k)[version'[k]]) = First(Feature(k))
    OBVIOUS
  <2>1. k \in Keys /\ world' = world
    BY <1>1, OnlyWritesChange DEF Keys
  <2>2. version[k] \in DOMAIN Versions(k) /\ version'[k] \in DOMAIN Versions(k)
    BY <1>1, <2>1 DEF StoryInv, VersionsOK, Versions
  <2>3. Feature(k) # Absent /\ Versions(k)[version'[k]] # Absent
    BY DEF Ramps
  <2>4. FlagOK(Feature(k)) /\ FlagOK(Versions(k)[version'[k]])
    BY <1>1, <2>2, <2>3, FollowsSchema DEF Feature, Versions
  <2> QED
    BY <2>4, RampKeeps, Zenon
<1>2. StoryInv /\ StoryInv' /\ [Next]_vars => \A k \in FlagKeys : Stays(k)
  BY <1>1
<1>3. Spec => [][\A k \in FlagKeys : Stays(k)]_vars
  BY <1>2, StoryHolds, PTL DEF Spec
<1> QED
  BY <1>3, Zenon DEF StaysInRamp

-----------------------------------------------------------------------------
(* Clauses and segments match when they hold.                              *)

Verdict(holds) == IF holds THEN "MATCH" ELSE "MISS"

(* A verdict is a match or a miss, and no error.                           *)
LEMMA VerdictIs ==
    ASSUME NEW holds \in BOOLEAN
    PROVE  /\ Verdict(holds) \in {"MATCH", "MISS"} /\ ~isEvalError(Verdict(holds))
           /\ Verdict(holds) = "MATCH" <=> holds
BY DEF Verdict, isEvalError

(* The first number of a set, or 0.                                        *)
FirstOrZero(I) == IF I # {} THEN Min(I) ELSE 0

(* It is 0 when there is none, and else the least of them.                 *)
LEMMA FirstOrZeroIs ==
    ASSUME NEW I \in SUBSET (Nat \ {0})
    PROVE  /\ FirstOrZero(I) = 0 <=> I = {}
           /\ I # {} => FirstOrZero(I) \in I /\ \A n \in I : FirstOrZero(I) <= n
<1>1. I \in SUBSET Nat
  OBVIOUS
<1>2. I # {} => Min(I) \in I /\ \A n \in I : Min(I) <= n
  BY <1>1, FirstOne
<1>3. I # {} => FirstOrZero(I) = Min(I)
  BY DEF FirstOrZero
<1>4. I = {} => FirstOrZero(I) = 0
  BY DEF FirstOrZero
<1> QED
  BY <1>2, <1>3, <1>4

AnyValue(clause, v) == \E w \in Range(clause.values) : lookupOperation(clause.op, v, w)

(* A value matches a clause when it matches one of the clause's values.    *)
LEMMA MatchAnyMeans ==
    ASSUME NEW clause, NEW v
    PROVE  matchAny(clause.op, v, clause.values) = Verdict(AnyValue(clause, v))
<1>1. AnyValue(clause, v)
        <=> \E i \in DOMAIN clause.values : lookupOperation(clause.op, v, clause.values[i])
  BY Zenon DEF AnyValue, Range
<1> QED
  BY <1>1, Zenon DEF matchAny, Verdict

(* LDi_clauseMatchesUserNoSegments over the elements of an array.          *)
ArrayStatus(clause, seq) == FirstOther(seq, LAMBDA e : ElementMatches(clause, e), "MISS")

AnyElement(clause, seq) == \E e \in Range(seq) : AnyValue(clause, e)

(* An array matches when one of its elements does.                         *)
LEMMA ArrayMeans ==
    ASSUME NEW clause, NEW seq, IsSequence(seq),
           \A e \in Range(seq) : e[1] \notin {"array", "object"}
    PROVE  ArrayStatus(clause, seq) = Verdict(AnyElement(clause, seq))
<1> DEFINE I == {i \in 1..Len(seq) : ElementMatches(clause, seq[i]) # "MISS"}
           some == AnyElement(clause, seq)
           n == FirstOrZero(I)
<1>1. Len(seq) \in Nat /\ DOMAIN seq = 1..Len(seq)
  BY DEF IsSequence
<1>2. ArrayStatus(clause, seq) = IF n = 0 THEN "MISS" ELSE ElementMatches(clause, seq[n])
  BY Zenon DEF ArrayStatus, FirstOther, SelectInSeq, FirstOrZero
<1>3. ASSUME NEW i \in 1..Len(seq)
      PROVE  /\ ElementMatches(clause, seq[i]) = Verdict(AnyValue(clause, seq[i]))
             /\ seq[i] \in Range(seq)
  <2>1. seq[i] \in Range(seq)
    BY <1>1, <1>3, Zenon DEF Range
  <2>2. ~(seq[i][1] \in {"object", "array"})
    BY <2>1
  <2> QED
    BY <2>1, <2>2, MatchAnyMeans, Zenon DEF ElementMatches
<1>4. I = {i \in 1..Len(seq) : AnyValue(clause, seq[i])}
  <2>1. ASSUME NEW i \in 1..Len(seq)
        PROVE  ElementMatches(clause, seq[i]) # "MISS" <=> AnyValue(clause, seq[i])
    BY <1>3 DEF Verdict
  <2> QED
    BY <2>1, Zenon
<1>5. some <=> I # {}
  <2>1. some <=> \E i \in 1..Len(seq) : AnyValue(clause, seq[i])
    BY <1>1, Zenon DEF AnyElement, Range
  <2> QED
    BY <1>4, <2>1
<1>6. (n = 0 <=> I = {}) /\ (I # {} => n \in I)
  <2>1. I \in SUBSET (Nat \ {0})
    BY <1>1
  <2> HIDE DEF I
  <2> QED
    BY <2>1, FirstOrZeroIs
<1>7. CASE some
  <2>1. n # 0 /\ n \in 1..Len(seq) /\ AnyValue(clause, seq[n])
    BY <1>4, <1>5, <1>6, <1>7, Zenon
  <2>2. ElementMatches(clause, seq[n]) = "MATCH"
    BY <1>3, <2>1 DEF Verdict
  <2> QED
    BY <1>2, <1>7, <2>1, <2>2, Zenon DEF Verdict
<1>8. CASE ~some
  BY <1>2, <1>5, <1>6, <1>8, Zenon DEF Verdict
<1> QED
  BY <1>7, <1>8

(* maybeNegate turns the verdict of a clause round when it is negated.     *)
LEMMA NegateMeans ==
    ASSUME NEW clause, clause.negate \in BOOLEAN \cup {Absent}, NEW holds \in BOOLEAN
    PROVE  maybeNegate(clause, Verdict(holds)) = Verdict((clause.negate = TRUE) # holds)
<1>1. ~isEvalError(Verdict(holds)) /\ (Verdict(holds) = "MATCH" <=> holds)
  BY VerdictIs
<1>2. Bad \notin BOOLEAN /\ Absent \notin BOOLEAN /\ Absent # Bad
  BY AbsentIsNotBad
<1>3. CASE clause.negate = Absent
  <2>1. maybeNegate(clause, Verdict(holds)) = Verdict(holds)
    BY <1>3, Zenon DEF maybeNegate
  <2>2. ~(clause.negate = TRUE)
    BY <1>2, <1>3
  <2> QED
    BY <2>1, <2>2 DEF Verdict
<1>4. CASE clause.negate \in BOOLEAN
  <2>1. clause.negate # Absent /\ clause.negate # Bad
    BY <1>2, <1>4
  <2>2. maybeNegate(clause, Verdict(holds))
          = IF (Verdict(holds) = "MATCH") = clause.negate THEN "MISS" ELSE "MATCH"
    BY <1>1, <2>1, Zenon DEF maybeNegate
  <2>3. CASE clause.negate = TRUE
    BY <1>1, <2>2, <2>3 DEF Verdict
  <2>4. CASE clause.negate = FALSE
    BY <1>1, <2>2, <2>4 DEF Verdict
  <2> QED
    BY <1>4, <2>3, <2>4
<1> QED
  BY <1>3, <1>4

Seen(u) == Plain(u) /\ u.lost = {}

(* LDi_clauseMatchesUserNoSegments matches when the clause holds.          *)
LEMMA ClauseMeans ==
    ASSUME NEW c, ClauseOK(c), NEW u, Seen(u)
    PROVE  clauseMatchesUserNoSegments(c, u) = Verdict(Holds(c, u))
<1> DEFINE v == valueOfAttribute(u, c.attribute)
           any == \E e \in Elements(v), w \in Range(c.values) : lookupOperation(c.op, e, w)
           found == IF v[1] = "array"
                    THEN FirstOther(v[2], LAMBDA e : ElementMatches(c, e), "MISS")
                    ELSE matchAny(c.op, v, c.values)
<1>1. ~(Bad \in {c.attribute, c.op, c.values}) /\ c.negate \in BOOLEAN \cup {Absent}
  BY Zenon DEF ClauseOK, ListOf
<1>2. clauseMatchesUserNoSegments(c, u)
        = IF c.op \notin Operators \/ v = Absent THEN "MISS" ELSE maybeNegate(c, found)
  BY <1>1, Zenon DEF clauseMatchesUserNoSegments
<1>3. Holds(c, u) <=> c.op \in Operators /\ v # Absent /\ ((c.negate = TRUE) # any)
  BY Zenon DEF Holds
<1>4. CASE c.op \notin Operators \/ v = Absent
  <2>1. ~Holds(c, u)
    BY <1>3, <1>4, Zenon
  <2> QED
    BY <1>2, <1>4, <2>1, Zenon DEF Verdict
<1>5. CASE c.op \in Operators /\ v # Absent
  <2>1. found = Verdict(any)
    <3>1. CASE v[1] = "array"
      <4>1. c.attribute \in DOMAIN u.attributes /\ v = u.attributes[c.attribute]
        <5> DEFINE t == <<"text", u.key>>
                   t2 == <<"text", u.secondary>>
        <5>1. t[1] # "array" /\ t2[1] # "array"
          OBVIOUS
        <5>2. c.attribute \in AttributeNames(u)
          BY <1>5, Zenon DEF valueOfAttribute
        <5>3. v = CASE c.attribute = "key" -> t
                    [] c.attribute = "secondary" -> IF u.secondary = Absent THEN Absent ELSE t2
                    [] OTHER -> u.attributes[c.attribute]
          BY <1>5, Zenon DEF valueOfAttribute
        <5>4. c.attribute # "key"
          BY <3>1, <5>1, <5>3
        <5>5. c.attribute # "secondary"
          BY <3>1, <1>5, <5>1, <5>3
        <5> QED
          BY <5>2, <5>3, <5>4, <5>5 DEF AttributeNames
      <4>2. IsSequence(v[2]) /\ \A e \in Range(v[2]) : e[1] \notin {"array", "object"}
        BY <3>1, <4>1, Zenon DEF Seen, Plain
      <4>3. Elements(v) = Range(v[2])
        BY <3>1, Zenon DEF Elements, Range
      <4>4. any <=> AnyElement(c, v[2])
        BY <4>3, Zenon DEF AnyElement, AnyValue
      <4>5. ArrayStatus(c, v[2]) = Verdict(AnyElement(c, v[2]))
        BY <4>2, ArrayMeans
      <4> QED
        BY <3>1, <4>4, <4>5, Zenon DEF Verdict, ArrayStatus
    <3>2. CASE v[1] # "array"
      <4>1. Elements(v) = {v}
        BY <3>2, Zenon DEF Elements
      <4>2. any <=> AnyValue(c, v)
        BY <4>1, Zenon DEF AnyValue
      <4>3. matchAny(c.op, v, c.values) = Verdict(AnyValue(c, v))
        BY MatchAnyMeans
      <4> QED
        BY <3>2, <4>2, <4>3, Zenon DEF Verdict
    <3> QED
      BY <3>1, <3>2
  <2>2. any \in BOOLEAN
    OBVIOUS
  <2> HIDE DEF any, found, v
  <2>3. maybeNegate(c, Verdict(any)) = Verdict((c.negate = TRUE) # any)
    BY <1>1, <2>2, NegateMeans, Zenon
  <2> QED
    BY <1>2, <1>3, <1>5, <2>1, <2>3, Zenon DEF Verdict
<1> QED
  BY <1>4, <1>5

(* The loop over the clauses of a segment's rule.                          *)
ClausesStatus(r, u) == FirstOther(r.clauses, LAMBDA c : clauseMatchesUserNoSegments(c, u), "MATCH")

AllHold(r, u) == \A c \in Range(r.clauses) : Holds(c, u)

(* The clauses of a segment's rule match when each of them holds.          *)
LEMMA ClausesMean ==
    ASSUME NEW r, SegmentRuleOK(r), NEW u, Seen(u)
    PROVE  ClausesStatus(r, u) = Verdict(AllHold(r, u))
<1> DEFINE seq == r.clauses
           I == {i \in 1..Len(seq) : clauseMatchesUserNoSegments(seq[i], u) # "MATCH"}
           n == FirstOrZero(I)
<1>1. IsSequence(seq) /\ \A c \in Range(seq) : ClauseOK(c)
  BY Zenon DEF SegmentRuleOK, ListOf
<1>2. Len(seq) \in Nat /\ DOMAIN seq = 1..Len(seq)
  BY <1>1 DEF IsSequence
<1>3. ClausesStatus(r, u)
        = IF n = 0 THEN "MATCH" ELSE clauseMatchesUserNoSegments(seq[n], u)
  BY Zenon DEF ClausesStatus, FirstOther, SelectInSeq, FirstOrZero
<1>4. ASSUME NEW i \in 1..Len(seq)
      PROVE  clauseMatchesUserNoSegments(seq[i], u) = Verdict(Holds(seq[i], u))
  <2>1. seq[i] \in Range(seq)
    BY <1>2, <1>4, Zenon DEF Range
  <2> QED
    BY <1>1, <2>1, ClauseMeans
<1>5. I = {i \in 1..Len(seq) : ~Holds(seq[i], u)}
  <2>1. ASSUME NEW i \in 1..Len(seq)
        PROVE  clauseMatchesUserNoSegments(seq[i], u) # "MATCH" <=> ~Holds(seq[i], u)
    BY <1>4 DEF Verdict
  <2> QED
    BY <2>1, Zenon
<1>6. AllHold(r, u) <=> I = {}
  <2>1. AllHold(r, u) <=> \A i \in 1..Len(seq) : Holds(seq[i], u)
    BY <1>2, Zenon DEF AllHold, Range
  <2> QED
    BY <1>5, <2>1
<1>7. (n = 0 <=> I = {}) /\ (I # {} => n \in I)
  <2>1. I \in SUBSET (Nat \ {0})
    BY <1>2
  <2> HIDE DEF I
  <2> QED
    BY <2>1, FirstOrZeroIs
<1>8. CASE AllHold(r, u)
  BY <1>3, <1>6, <1>7, <1>8, Zenon DEF Verdict
<1>9. CASE ~AllHold(r, u)
  <2>1. n # 0 /\ n \in 1..Len(seq) /\ ~Holds(seq[n], u)
    BY <1>5, <1>6, <1>7, <1>9, Zenon
  <2>2. clauseMatchesUserNoSegments(seq[n], u) = "MISS"
    BY <1>4, <2>1 DEF Verdict
  <2> QED
    BY <1>3, <1>9, <2>1, <2>2, Zenon DEF Verdict
<1> QED
  BY <1>8, <1>9

(* LDi_segmentRuleMatchUser.                                               *)
SegmentRuleHolds(r, key, u, salt) ==
    /\ AllHold(r, u)
    /\ \/ r.weight = Absent
       \/ bucketUser(u, key, getBucketAttribute(r), salt, Absent) < r.weight

(* LDi_segmentRuleMatchUser matches whom the rule takes in.                *)
LEMMA SegmentRuleMeans ==
    ASSUME NEW r, SegmentRuleOK(r), NEW u, Seen(u), NEW key, NEW salt
    PROVE  segmentRuleMatchUser(r, key, u, salt) = Verdict(SegmentRuleHolds(r, key, u, salt))
<1> DEFINE bucket == bucketUser(u, key, getBucketAttribute(r), salt, Absent)
<1>1. r.clauses # Bad /\ ~(Bad \in {r.weight, r.bucketBy})
  BY Zenon DEF SegmentRuleOK, ListOf
<1>2. ClausesStatus(r, u) = Verdict(AllHold(r, u))
  BY ClausesMean
<1>3. segmentRuleMatchUser(r, key, u, salt)
        = IF ClausesStatus(r, u) # "MATCH" THEN ClausesStatus(r, u)
          ELSE IF r.weight = Absent THEN "MATCH"
          ELSE IF bucket < r.weight THEN "MATCH" ELSE "MISS"
  BY <1>1, Zenon DEF segmentRuleMatchUser, ClausesStatus
<1>4. SegmentRuleHolds(r, key, u, salt) <=> AllHold(r, u) /\ (r.weight = Absent \/ bucket < r.weight)
  BY Zenon DEF SegmentRuleHolds
<1> HIDE DEF bucket
<1>5. CASE AllHold(r, u)
  <2>1. ClausesStatus(r, u) = "MATCH"
    BY <1>2, <1>5 DEF Verdict
  <2> QED
    BY <1>3, <1>4, <1>5, <2>1, Zenon DEF Verdict
<1>6. CASE ~AllHold(r, u)
  <2>1. ClausesStatus(r, u) = "MISS" /\ ClausesStatus(r, u) # "MATCH"
    BY <1>2, <1>6 DEF Verdict
  <2> QED
    BY <1>3, <1>4, <1>6, <2>1, Zenon DEF Verdict
<1> QED
  BY <1>5, <1>6

(* The loop over the rules of a segment.                                   *)
RulesStatus(segment, u) ==
    FirstOther(segment.rules,
        LAMBDA r : segmentRuleMatchUser(r, segment.key, u, segment.salt), "MISS")

SomeRule(segment, u) ==
    \E r \in Range(segment.rules) : SegmentRuleHolds(r, segment.key, u, segment.salt)

(* The rules of a segment match when one of them takes the user in.        *)
LEMMA SegmentRulesMean ==
    ASSUME NEW segment, SegmentOK(segment), NEW u, Seen(u)
    PROVE  RulesStatus(segment, u) = Verdict(SomeRule(segment, u))
<1> DEFINE seq == segment.rules
           Status(r) == segmentRuleMatchUser(r, segment.key, u, segment.salt)
           Good(r) == SegmentRuleHolds(r, segment.key, u, segment.salt)
           I == {i \in 1..Len(seq) : Status(seq[i]) # "MISS"}
           n == FirstOrZero(I)
<1>1. IsSequence(seq) /\ \A r \in Range(seq) : SegmentRuleOK(r)
  BY Zenon DEF SegmentOK, ListOf
<1>2. Len(seq) \in Nat /\ DOMAIN seq = 1..Len(seq)
  BY <1>1 DEF IsSequence
<1>3. RulesStatus(segment, u) = IF n = 0 THEN "MISS" ELSE Status(seq[n])
  BY Zenon DEF RulesStatus, FirstOther, SelectInSeq, FirstOrZero
<1>4. ASSUME NEW i \in 1..Len(seq) PROVE Status(seq[i]) = Verdict(Good(seq[i]))
  <2>1. seq[i] \in Range(seq)
    BY <1>2, <1>4, Zenon DEF Range
  <2> QED
    BY <1>1, <2>1, SegmentRuleMeans
<1>5. SomeRule(segment, u) <=> \E i \in 1..Len(seq) : Good(seq[i])
  BY <1>2, Zenon DEF SomeRule, Range
<1> HIDE DEF Status, Good
<1>6. I = {i \in 1..Len(seq) : Good(seq[i])}
  <2>1. ASSUME NEW i \in 1..Len(seq) PROVE Status(seq[i]) # "MISS" <=> Good(seq[i])
    BY <1>4 DEF Verdict
  <2> QED
    BY <2>1, Zenon
<1>7. SomeRule(segment, u) <=> I # {}
  BY <1>5, <1>6
<1>8. (n = 0 <=> I = {}) /\ (I # {} => n \in I)
  <2>1. I \in SUBSET (Nat \ {0})
    BY <1>2
  <2> HIDE DEF I
  <2> QED
    BY <2>1, FirstOrZeroIs
<1>9. CASE SomeRule(segment, u)
  <2>1. n # 0 /\ n \in 1..Len(seq) /\ Good(seq[n])
    BY <1>6, <1>7, <1>8, <1>9, Zenon
  <2>2. Status(seq[n]) = "MATCH"
    BY <1>4, <2>1 DEF Verdict
  <2> QED
    BY <1>3, <1>9, <2>1, <2>2, Zenon DEF Verdict
<1>10. CASE ~SomeRule(segment, u)
  BY <1>3, <1>7, <1>8, <1>10, Zenon DEF Verdict
<1> QED
  BY <1>9, <1>10

(* LDi_segmentMatchesUser matches who is in the segment.                   *)
LEMMA SegmentMeans ==
    ASSUME NEW segment, SegmentOK(segment), NEW u, Seen(u)
    PROVE  segmentMatchesUser(segment, u) = Verdict(InSegment(segment, u))
<1>1. Bad \notin {segment.included, segment.excluded, segment.rules, segment.key, segment.salt}
  BY Zenon DEF SegmentOK, ListOf
<1>2. segmentMatchesUser(segment, u)
        = IF InList(segment.included, u) THEN "MATCH"
          ELSE IF InList(segment.excluded, u) THEN "MISS"
          ELSE RulesStatus(segment, u)
  <2>1. /\ ~(segment.included = Bad) /\ ~(segment.excluded = Bad)
        /\ ~(Bad \in {segment.rules, segment.key, segment.salt})
    BY <1>1, Zenon
  <2> QED
    BY <2>1, Zenon DEF segmentMatchesUser, RulesStatus
<1>3. InSegment(segment, u) <=> \/ InList(segment.included, u)
                                \/ ~InList(segment.excluded, u) /\ SomeRule(segment, u)
  BY Zenon DEF InSegment, SomeRule, SegmentRuleHolds, AllHold
<1>4. RulesStatus(segment, u) = Verdict(SomeRule(segment, u))
  BY SegmentRulesMean
<1> QED
  BY <1>2, <1>3, <1>4, Zenon DEF Verdict

(* getIndexForVariationOrRollout gives the variation in whose share the    *)
(* user is.                                                                *)
LEMMA ShareServed ==
    ASSUME NEW s, NEW flag, FlagOK(flag), NEW serve, ServeOK(flag, serve)
    PROVE  /\ getIndexForVariationOrRollout(flag, serve, s.user)
                = Choice(Share(s, flag, serve).index, Share(s, flag, serve).inExperiment)
           /\ VariationOK(flag, Share(s, flag, serve).index)
<1> DEFINE r == serve.rollout
           W == r.variations
           bucket == bucketUser(s.user, flag.key, getBucketAttribute(r), flag.salt, r.seed)
           w == W[Min({i \in DOMAIN W : InShare(W, i, bucket)})]
           exp == r.kind = "experiment" /\ w.untracked # TRUE
<1>1. CASE serve.variation # Absent
  <2>1. Share(s, flag, serve) = [index |-> serve.variation, inExperiment |-> FALSE]
    BY <1>1, Zenon DEF Share
  <2>2. Share(s, flag, serve).index = serve.variation /\ Share(s, flag, serve).inExperiment = FALSE
    BY <2>1
  <2>3. VariationOK(flag, serve.variation) /\ serve.variation # Bad /\ ~(Bad \in {flag.key, flag.salt})
    BY <1>1, Zenon DEF ServeOK, VariationOK, FlagOK
  <2>4. getIndexForVariationOrRollout(flag, serve, s.user) = Choice(serve.variation, FALSE)
    BY <1>1, <2>3, Zenon DEF getIndexForVariationOrRollout, variationIndexForUser
  <2> QED
    BY <2>2, <2>3, <2>4
<1>2. CASE serve.variation = Absent
  <2>1. RolloutOK(flag, r)
    BY <1>2 DEF ServeOK
  <2>2. Readable(W) /\ bucket \in Nat
    BY <2>1, SharesAreReadable, BucketIsANumber
  <2> HIDE DEF bucket
  <2>3. /\ weightedVariation(W, bucket) \in 1..Len(W)
        /\ weightedVariation(W, bucket) = Min({i \in DOMAIN W : InShare(W, i, bucket)})
    BY <2>2, LoopFindsShare
  <2>4. w = W[weightedVariation(W, bucket)]
    BY <2>3, Zenon
  <2>5. Rolled(flag, r, s.user) = w
    BY <2>4, Zenon DEF Rolled, bucket
  <2>6. Share(s, flag, serve) = [index |-> w.variation, inExperiment |-> exp]
    BY <1>2, Zenon DEF Share, bucket
  <2> HIDE DEF w
  <2>7. ShareOK(flag, w)
    <3>1. W[weightedVariation(W, bucket)] \in Range(W)
      BY <2>2, <2>3, ReadableShape, Zenon DEF Range
    <3> QED
      BY <2>1, <2>4, <3>1, Zenon DEF RolloutOK, ListOf
  <2>8. ~Malformed(w) /\ VariationOK(flag, w.variation)
    BY <2>7, Zenon DEF ShareOK
  <2>9. getIndexForVariationOrRollout(flag, serve, s.user) = RolledChoice(flag, r, s.user)
    BY <1>2, <2>5, <2>8, RolloutServes
  <2>10. RolledChoice(flag, r, s.user) = Choice(w.variation, exp)
    BY <2>5, Zenon DEF RolledChoice
  <2>11. exp \in BOOLEAN
    OBVIOUS
  <2> HIDE DEF exp
  <2>12. Share(s, flag, serve).index = w.variation /\ Share(s, flag, serve).inExperiment = exp
    BY <2>6
  <2> QED
    BY <2>8, <2>9, <2>10, <2>12, Zenon
<1> QED
  BY <1>1, <1>2

-----------------------------------------------------------------------------
(* The reference is well defined.                                          *)

(* The events of a walk through the prerequisites, one after the other.    *)
IsWalk(f, s, k, below) ==
    f = [i \in 0..Len(FeatureIn(s, k).prerequisites) |->
            IF i = 0 THEN <<>>
            ELSE MoreEvents(s, f[i - 1], FeatureIn(s, k).prerequisites[i],
                            below[FeatureIn(s, k).prerequisites[i].key], k)]

(* The recursive definition of the events has a solution.                  *)
LEMMA WalkExists ==
    ASSUME NEW s, NEW k, NEW below, Len(FeatureIn(s, k).prerequisites) \in Nat
    PROVE  \E f : IsWalk(f, s, k, below)
<1> DEFINE P == FeatureIn(s, k).prerequisites
           More(evs, i) == MoreEvents(s, evs, P[i], below[P[i].key], k)
           Is(f, m) == f = [i \in 0..m |-> IF i = 0 THEN <<>> ELSE More(f[i - 1], i)]
           S == {m \in Nat : \E f : Is(f, m)}
<1> HIDE DEF More
<1>1. 0 \in S
  <2> DEFINE g == [i \in 0..0 |-> <<>>]
  <2>1. Is(g, 0)
    OBVIOUS
  <2> QED
    BY <2>1
<1>2. ASSUME NEW m \in Nat, m \in S PROVE m + 1 \in S
  <2>1. PICK f : Is(f, m)
    BY <1>2
  <2> DEFINE g == [i \in 0..(m + 1) |-> IF i = m + 1 THEN More(f[m], m + 1) ELSE f[i]]
             h == [i \in 0..(m + 1) |-> IF i = 0 THEN <<>> ELSE More(g[i - 1], i)]
  <2>2. \A i \in 0..m : f[i] = IF i = 0 THEN <<>> ELSE More(f[i - 1], i)
    BY <2>1
  <2>3. ASSUME NEW i \in 0..(m + 1) PROVE g[i] = h[i]
    <3>1. CASE i = 0
      BY <3>1, <2>2
    <3>2. CASE i \in 1..m
      <4>1. i - 1 \in 0..m /\ i - 1 # m + 1 /\ i - 1 \in 0..(m + 1)
        BY <3>2
      <4>2. g[i - 1] = f[i - 1] /\ g[i] = f[i] /\ i # 0 /\ i \in 0..m
        BY <3>2, <4>1
      <4>3. f[i] = More(f[i - 1], i)
        BY <4>2, <2>2
      <4> QED
        BY <4>2, <4>3
    <3>3. CASE i = m + 1
      <4>1. i - 1 = m /\ i # 0 /\ m \in 0..(m + 1) /\ m # m + 1
        BY <3>3
      <4> QED
        BY <3>3, <4>1
    <3> QED
      BY <3>1, <3>2, <3>3
  <2>4. g = h
    BY <2>3
  <2>5. Is(g, m + 1)
    BY <2>4
  <2> HIDE DEF g
  <2> QED
    BY <2>5
<1>3. Len(P) \in S
  BY <1>1, <1>2, NumberInduction
<1> QED
  BY <1>3 DEF IsWalk, More

(* Each prerequisite adds its events to those of the ones before it.       *)
LEMMA EventsGrow ==
    ASSUME NEW s, NEW k, NEW below, Len(FeatureIn(s, k).prerequisites) \in Nat
    PROVE  /\ EventsUpTo(s, k, below, 0) = <<>>
           /\ \A n \in 1..Len(FeatureIn(s, k).prerequisites) :
                EventsUpTo(s, k, below, n)
                  = MoreEvents(s, EventsUpTo(s, k, below, n - 1),
                               FeatureIn(s, k).prerequisites[n],
                               below[FeatureIn(s, k).prerequisites[n].key], k)
<1> DEFINE P == FeatureIn(s, k).prerequisites
           evs == CHOOSE f : IsWalk(f, s, k, below)
<1>1. IsWalk(evs, s, k, below)
  BY WalkExists, Zenon
<1>2. \A n : EventsUpTo(s, k, below, n) = evs[n]
  BY Zenon DEF EventsUpTo, IsWalk
<1> HIDE DEF evs
<1>3. evs[0] = <<>>
  BY <1>1 DEF IsWalk
<1>4. ASSUME NEW n \in 1..Len(P)
      PROVE  evs[n] = MoreEvents(s, evs[n - 1], P[n], below[P[n].key], k)
  BY <1>1, <1>4 DEF IsWalk
<1> QED
  BY <1>2, <1>3, <1>4

(* A flag's meaning depends on what its prerequisites mean, and on nothing *)
(* else below it.                                                          *)
LEMMA MeaningSame ==
    ASSUME NEW s, NEW k, NEW b, NEW c,
           FeatureIn(s, k) # Absent =>
               /\ IsSequence(FeatureIn(s, k).prerequisites)
               /\ \A i \in DOMAIN FeatureIn(s, k).prerequisites :
                    b[FeatureIn(s, k).prerequisites[i].key]
                      = c[FeatureIn(s, k).prerequisites[i].key]
    PROVE  Meaning(s, k, b) = Meaning(s, k, c)
<1> DEFINE P == FeatureIn(s, k).prerequisites
<1>1. CASE FeatureIn(s, k) = Absent
  BY <1>1, Zenon DEF Meaning
<1>2. CASE FeatureIn(s, k) # Absent
  <2>1. Len(P) \in Nat /\ DOMAIN P = 1..Len(P) /\ \A i \in DOMAIN P : b[P[i].key] = c[P[i].key]
    BY <1>2 DEF IsSequence
  <2>2. Failed(s, k, b) = Failed(s, k, c)
    BY <2>1 DEF Failed
  <2>3. \A n \in 0..Len(P) : EventsUpTo(s, k, b, n) = EventsUpTo(s, k, c, n)
    <3> DEFINE S == {n \in Nat : n <= Len(P) => EventsUpTo(s, k, b, n) = EventsUpTo(s, k, c, n)}
    <3>1. 0 \in S
      BY <2>1, EventsGrow
    <3>2. ASSUME NEW n \in Nat, n \in S PROVE n + 1 \in S
      <4> SUFFICES ASSUME n + 1 <= Len(P)
                   PROVE  EventsUpTo(s, k, b, n + 1) = EventsUpTo(s, k, c, n + 1)
        OBVIOUS
      <4>1. n + 1 \in 1..Len(P) /\ (n + 1) - 1 = n /\ n <= Len(P)
        BY <2>1
      <4>2. EventsUpTo(s, k, b, n) = EventsUpTo(s, k, c, n)
        BY <3>2, <4>1
      <4>3. b[P[n + 1].key] = c[P[n + 1].key]
        BY <2>1, <4>1
      <4>4. /\ EventsUpTo(s, k, b, n + 1)
                 = MoreEvents(s, EventsUpTo(s, k, b, n), P[n + 1], b[P[n + 1].key], k)
            /\ EventsUpTo(s, k, c, n + 1)
                 = MoreEvents(s, EventsUpTo(s, k, c, n), P[n + 1], c[P[n + 1].key], k)
        BY <2>1, <4>1, EventsGrow
      <4> QED
        BY <4>2, <4>3, <4>4
    <3>3. \A n \in Nat : n \in S
      BY <3>1, <3>2, NumberInduction
    <3> QED
      BY <3>3, <2>1
  <2> DEFINE seen == IF Failed(s, k, b) = {} THEN Len(P) ELSE Min(Failed(s, k, b))
  <2>4. seen \in 0..Len(P)
    <3>1. Failed(s, k, b) \in SUBSET (1..Len(P))
      BY <2>1 DEF Failed
    <3> HIDE DEF P
    <3>2. Failed(s, k, b) # {} => Min(Failed(s, k, b)) \in Failed(s, k, b)
      BY <3>1, FirstOne
    <3> QED
      BY <2>1, <3>1, <3>2
  <2>5. EventsUpTo(s, k, b, seen) = EventsUpTo(s, k, c, seen)
    BY <2>3, <2>4
  <2> QED
    BY <1>2, <2>2, <2>5, Zenon DEF Meaning
<1> QED
  BY <1>1, <1>2

(* A snapshot of a well-formed store for a user, whose prerequisites have  *)
(* no cycle.                                                               *)
PrerequisitesIn(s, k) == FeatureIn(s, k).prerequisites

RanksIn(s) ==
    {rank \in [FlagKeys -> 1..Cardinality(FlagKeys)] :
        \A k \in FlagKeys : FeatureIn(s, k) # Absent =>
            \A i \in DOMAIN PrerequisitesIn(s, k) :
                rank[PrerequisitesIn(s, k)[i].key] < rank[k]}

SnapshotOK(s) ==
    /\ Seen(s.user) /\ RanksIn(s) # {}
    /\ \A k \in FlagKeys : FeatureIn(s, k) # Absent => FlagOK(FeatureIn(s, k))
    /\ \A k \in SegmentKeys : FeatureIn(s, k) # Absent => SegmentOK(FeatureIn(s, k))

(* The prerequisites of a well-formed flag are a list of flag keys.        *)
LEMMA PrerequisitesShape ==
    ASSUME NEW s, SnapshotOK(s), NEW k \in FlagKeys, FeatureIn(s, k) # Absent
    PROVE  /\ FlagOK(FeatureIn(s, k))
           /\ PrerequisitesIn(s, k) \notin {Absent, Bad} /\ IsSequence(PrerequisitesIn(s, k))
           /\ Len(PrerequisitesIn(s, k)) \in Nat
           /\ DOMAIN PrerequisitesIn(s, k) = 1..Len(PrerequisitesIn(s, k))
           /\ \A i \in DOMAIN PrerequisitesIn(s, k) :
                /\ PrerequisitesIn(s, k)[i].key \in FlagKeys
                /\ Bad \notin {PrerequisitesIn(s, k)[i].key, PrerequisitesIn(s, k)[i].variation}
<1> DEFINE P == PrerequisitesIn(s, k)
<1>1. FlagOK(FeatureIn(s, k))
  BY DEF SnapshotOK
<1>2. /\ P \notin {Absent, Bad} /\ IsSequence(P)
      /\ \A p \in Range(P) : p.key # Bad /\ p.key \in FlagKeys /\ p.variation # Bad
  BY <1>1, Zenon DEF FlagOK, ListOf, PrerequisitesIn
<1>3. Len(P) \in Nat /\ DOMAIN P = 1..Len(P)
  BY <1>2 DEF IsSequence
<1>4. \A i \in DOMAIN P : P[i] \in Range(P)
  BY Zenon DEF Range
<1> HIDE DEF P
<1>5. \A i \in DOMAIN P : P[i].key \in FlagKeys /\ Bad \notin {P[i].key, P[i].variation}
  BY <1>2, <1>4, Zenon
<1> QED
  BY <1>1, <1>2, <1>3, <1>5 DEF P

(* The outcomes by depth.                                                  *)
NoneFound == [k \in FlagKeys |-> NotFound]
OneDeeper(s, below) == [k \in FlagKeys |-> Meaning(s, k, below)]

IsReference(f, s, n) ==
    f = [d \in 0..n |-> IF d = 0 THEN NoneFound ELSE OneDeeper(s, f[d - 1])]

(* The recursive definition of the reference has a solution.               *)
LEMMA ReferenceExists ==
    ASSUME NEW s, NEW n \in Nat
    PROVE  \E f : IsReference(f, s, n)
<1> DEFINE S == {m \in Nat : \E f : IsReference(f, s, m)}
<1>1. 0 \in S
  <2> DEFINE g == [i \in 0..0 |-> NoneFound]
  <2>1. IsReference(g, s, 0)
    BY DEF IsReference
  <2> QED
    BY <2>1
<1>2. ASSUME NEW m \in Nat, m \in S PROVE m + 1 \in S
  <2>1. PICK f : IsReference(f, s, m)
    BY <1>2
  <2> DEFINE g == [i \in 0..(m + 1) |-> IF i = m + 1 THEN OneDeeper(s, f[m]) ELSE f[i]]
             h == [i \in 0..(m + 1) |-> IF i = 0 THEN NoneFound ELSE OneDeeper(s, g[i - 1])]
  <2>2. \A i \in 0..m : f[i] = IF i = 0 THEN NoneFound ELSE OneDeeper(s, f[i - 1])
    BY <2>1 DEF IsReference
  <2>3. ASSUME NEW i \in 0..(m + 1) PROVE g[i] = h[i]
    <3>1. CASE i = 0
      BY <3>1, <2>2
    <3>2. CASE i \in 1..m
      <4>1. i - 1 \in 0..m /\ i - 1 # m + 1 /\ i - 1 \in 0..(m + 1)
        BY <3>2
      <4>2. g[i - 1] = f[i - 1] /\ g[i] = f[i] /\ i # 0 /\ i \in 0..m
        BY <3>2, <4>1
      <4>3. f[i] = OneDeeper(s, f[i - 1])
        BY <4>2, <2>2
      <4> QED
        BY <4>2, <4>3
    <3>3. CASE i = m + 1
      <4>1. i - 1 = m /\ i # 0 /\ m \in 0..(m + 1) /\ m # m + 1
        BY <3>3
      <4> QED
        BY <3>3, <4>1
    <3> QED
      BY <3>1, <3>2, <3>3
  <2>4. g = h
    BY <2>3
  <2>5. IsReference(g, s, m + 1)
    BY <2>4 DEF IsReference
  <2> QED
    BY <2>5
<1>3. n \in S
  BY <1>1, <1>2, NumberInduction
<1> QED
  BY <1>3

(* Every flag means what its prerequisites make of it: the reference is a  *)
(* fixed point, whatever the depth at which it is cut off.                 *)
LEMMA ReferenceUnfolds ==
    ASSUME NEW s, SnapshotOK(s), NEW key \in FlagKeys
    PROVE  Reference(s)[key] = Meaning(s, key, Reference(s))
<1> DEFINE N == Cardinality(FlagKeys)
           at == CHOOSE f : IsReference(f, s, N)
<1>1. N \in Nat
  BY EvaluateAssumption, FS_CardinalityType
<1>2. IsReference(at, s, N)
  BY <1>1, ReferenceExists, Zenon
<1>3. Reference(s) = at[N]
  BY Zenon DEF Reference, IsReference, NoneFound, OneDeeper
<1> HIDE DEF at, N
<1>4. PICK rank \in [FlagKeys -> 1..N] :
        \A k \in FlagKeys : FeatureIn(s, k) # Absent =>
            \A i \in DOMAIN PrerequisitesIn(s, k) :
                rank[PrerequisitesIn(s, k)[i].key] < rank[k]
  BY DEF SnapshotOK, RanksIn, N
<1>5. \A d \in 1..N, k \in FlagKeys : at[d][k] = Meaning(s, k, at[d - 1])
  <2> SUFFICES ASSUME NEW d \in 1..N, NEW k \in FlagKeys
               PROVE  at[d][k] = Meaning(s, k, at[d - 1])
    OBVIOUS
  <2>1. d \in 0..N /\ d # 0
    BY <1>1
  <2>2. at[d] = OneDeeper(s, at[d - 1])
    BY <1>2, <2>1 DEF IsReference
  <2> QED
    BY <2>2 DEF OneDeeper
<1> DEFINE Settled(r) == \A k \in FlagKeys : rank[k] <= r => \A d, e \in r..N : at[d][k] = at[e][k]
           S == {r \in Nat : Settled(r)}
<1>6. 0 \in S
  BY <1>1, <1>4
<1>7. ASSUME NEW r \in Nat, r \in S,
             NEW k \in FlagKeys, rank[k] <= r + 1, NEW d \in r..N, NEW e \in r..N
      PROVE  Meaning(s, k, at[d]) = Meaning(s, k, at[e])
  <2> DEFINE P == PrerequisitesIn(s, k)
  <2>1. FeatureIn(s, k) # Absent =>
          IsSequence(P) /\ \A i \in DOMAIN P : at[d][P[i].key] = at[e][P[i].key]
    <3> SUFFICES ASSUME FeatureIn(s, k) # Absent
                 PROVE  IsSequence(P) /\ \A i \in DOMAIN P : at[d][P[i].key] = at[e][P[i].key]
      OBVIOUS
    <3>1. IsSequence(P) /\ \A i \in DOMAIN P : P[i].key \in FlagKeys
      BY PrerequisitesShape
    <3>2. \A i \in DOMAIN P : rank[P[i].key] < rank[k]
      BY <1>4
    <3> HIDE DEF P
    <3>3. ASSUME NEW i \in DOMAIN P PROVE at[d][P[i].key] = at[e][P[i].key]
      <4>1. P[i].key \in FlagKeys /\ rank[P[i].key] < rank[k]
        BY <3>1, <3>2
      <4>2. rank[P[i].key] \in Int /\ rank[k] \in Int
        BY <1>1, <1>4, <4>1
      <4>3. rank[P[i].key] <= r
        BY <1>7, <4>1, <4>2
      <4> QED
        BY <1>7, <4>1, <4>3
    <3> QED
      BY <3>1, <3>3
  <2> QED
    BY <2>1, MeaningSame DEF PrerequisitesIn
<1>8. ASSUME NEW r \in Nat, r \in S PROVE r + 1 \in S
  <2> SUFFICES ASSUME NEW k \in FlagKeys, rank[k] <= r + 1,
                      NEW d \in (r + 1)..N, NEW e \in (r + 1)..N
               PROVE  at[d][k] = at[e][k]
    OBVIOUS
  <2>1. d - 1 \in r..N /\ e - 1 \in r..N /\ d \in 1..N /\ e \in 1..N
    BY <1>1
  <2>2. Meaning(s, k, at[d - 1]) = Meaning(s, k, at[e - 1])
    BY <1>7, <1>8, <2>1
  <2> QED
    BY <1>5, <2>1, <2>2
<1>9. \A r \in Nat : r \in S
  BY <1>6, <1>8, NumberInduction
<1>10. N \in 1..N /\ N - 1 \in Nat /\ N \in (N - 1)..N /\ N - 1 \in (N - 1)..N
       /\ rank[key] <= (N - 1) + 1
  BY <1>1, <1>4
<1>11. Meaning(s, key, at[N - 1]) = Meaning(s, key, at[N])
  BY <1>7, <1>9, <1>10
<1> QED
  BY <1>3, <1>5, <1>10, <1>11

-----------------------------------------------------------------------------
(* What a flag means, by the way it is decided.                            *)

MeantOK(s, M) == SnapshotOK(s) /\ \A k \in FlagKeys : M[k] = Meaning(s, k, M)

AllPassed(s, k, M) == FeatureIn(s, k).on = TRUE /\ Failed(s, k, M) = {}
AllEvents(s, k, M) == EventsUpTo(s, k, M, Len(PrerequisitesIn(s, k)))

(* A flag that is off.                                                     *)
LEMMA MeantOff ==
    ASSUME NEW s, NEW M, MeantOK(s, M), NEW k \in FlagKeys, FeatureIn(s, k) # Absent,
           FeatureIn(s, k).on = FALSE
    PROVE  M[k] = As(FeatureIn(s, k), "OFF", Absent, FeatureIn(s, k).offVariation, <<>>)
<1>1. M[k] = Meaning(s, k, M)
  BY DEF MeantOK
<1> QED
  BY <1>1, Zenon DEF Meaning, Outcome

FailsFirst(s, k, M, n) ==
    n \in Failed(s, k, M) /\ n \in Nat /\ \A j \in 1..(n - 1) : j \notin Failed(s, k, M)

(* A flag with a failed prerequisite: the first one counts.                *)
LEMMA MeantFailed ==
    ASSUME NEW s, NEW M, MeantOK(s, M), NEW k \in FlagKeys, FeatureIn(s, k) # Absent,
           FeatureIn(s, k).on = TRUE, NEW n, FailsFirst(s, k, M, n)
    PROVE  M[k] = As(FeatureIn(s, k), "PREREQUISITE_FAILED", PrerequisitesIn(s, k)[n].key,
                     FeatureIn(s, k).offVariation, EventsUpTo(s, k, M, n))
<1>1. M[k] = Meaning(s, k, M)
  BY DEF MeantOK
<1>2. Failed(s, k, M) \in SUBSET (Nat \ {0})
  BY PrerequisitesShape DEF MeantOK, Failed, PrerequisitesIn
<1>3. ASSUME NEW j \in Failed(s, k, M) PROVE n <= j
  <2>1. j \in Nat /\ j # 0 /\ n \in Nat
    BY <1>2, <1>3 DEF FailsFirst
  <2>2. j \notin 1..(n - 1)
    BY <1>3 DEF FailsFirst
  <2> QED
    BY <2>1, <2>2
<1>4. Min(Failed(s, k, M)) = n /\ Failed(s, k, M) # {}
  BY <1>2, <1>3, FirstIs DEF FailsFirst
<1> QED
  BY <1>1, <1>4, Zenon DEF Meaning, Outcome, PrerequisitesIn

(* A flag with a target that names the user.                               *)
LEMMA MeantTarget ==
    ASSUME NEW s, NEW M, MeantOK(s, M), NEW k \in FlagKeys, FeatureIn(s, k) # Absent,
           AllPassed(s, k, M), Targets(s, FeatureIn(s, k)) # {}
    PROVE  M[k] = As(FeatureIn(s, k), "TARGET_MATCH", Absent,
                     FeatureIn(s, k).targets[Min(Targets(s, FeatureIn(s, k)))].variation,
                     AllEvents(s, k, M))
<1>1. M[k] = Meaning(s, k, M)
  BY DEF MeantOK
<1> QED
  BY <1>1, Zenon DEF Meaning, Outcome, AllPassed, AllEvents, PrerequisitesIn

(* A flag with a rule that matches: the first one counts.                  *)
LEMMA MeantRule ==
    ASSUME NEW s, NEW M, MeantOK(s, M), NEW k \in FlagKeys, FeatureIn(s, k) # Absent,
           AllPassed(s, k, M), Targets(s, FeatureIn(s, k)) = {},
           Rules(s, FeatureIn(s, k)) # {}, NEW n, n = Min(Rules(s, FeatureIn(s, k)))
    PROVE  M[k] = As(FeatureIn(s, k), "RULE_MATCH",
                     [ruleIndex |-> n - 1, id |-> FeatureIn(s, k).rules[n].id,
                      inExperiment |->
                        Share(s, FeatureIn(s, k), FeatureIn(s, k).rules[n].serve).inExperiment],
                     Share(s, FeatureIn(s, k), FeatureIn(s, k).rules[n].serve).index,
                     AllEvents(s, k, M))
<1>1. M[k] = Meaning(s, k, M)
  BY DEF MeantOK
<1> QED
  BY <1>1, Zenon DEF Meaning, Outcome, AllPassed, AllEvents, PrerequisitesIn

(* A flag that falls through.                                              *)
LEMMA MeantFallthrough ==
    ASSUME NEW s, NEW M, MeantOK(s, M), NEW k \in FlagKeys, FeatureIn(s, k) # Absent,
           AllPassed(s, k, M), Targets(s, FeatureIn(s, k)) = {},
           Rules(s, FeatureIn(s, k)) = {}
    PROVE  M[k] = As(FeatureIn(s, k), "FALLTHROUGH",
                     [inExperiment |->
                        Share(s, FeatureIn(s, k), FeatureIn(s, k).fallthrough).inExperiment],
                     Share(s, FeatureIn(s, k), FeatureIn(s, k).fallthrough).index,
                     AllEvents(s, k, M))
<1>1. M[k] = Meaning(s, k, M)
  BY DEF MeantOK
<1> QED
  BY <1>1, Zenon DEF Meaning, Outcome, AllPassed, AllEvents, PrerequisitesIn

(* A flag that is not in the store.                                        *)
LEMMA MeantNotFound ==
    ASSUME NEW s, NEW M, MeantOK(s, M), NEW k \in FlagKeys, FeatureIn(s, k) = Absent
    PROVE  M[k].found = FALSE
<1>1. M[k] = NotFound
  BY Zenon DEF MeantOK, Meaning
<1> QED
  BY <1>1 DEF NotFound

(* A flag that is there has an outcome, and it is no error.                *)
LEMMA MeantFound ==
    ASSUME NEW s, NEW M, MeantOK(s, M), NEW k \in FlagKeys, FeatureIn(s, k) # Absent
    PROVE  M[k].found = TRUE /\ M[k].details.reason \in Reasons
<1> DEFINE flag == FeatureIn(s, k)
<1>0. M[k] = Meaning(s, k, M)
  BY DEF MeantOK
<1>1. \A reason \in Reasons : \A extra, index, evs :
        /\ As(flag, reason, extra, index, evs).found = TRUE
        /\ As(flag, reason, extra, index, evs).details.reason \in Reasons
  BY DEF As
<1>2. \E reason \in Reasons : \E extra, index, evs : M[k] = As(flag, reason, extra, index, evs)
  <2> DEFINE One == \E reason \in Reasons : \E extra, index, evs :
                        M[k] = As(flag, reason, extra, index, evs)
             evs == EventsUpTo(s, k, M, IF Failed(s, k, M) = {} THEN Len(flag.prerequisites)
                                        ELSE Min(Failed(s, k, M)))
  <2>1. M[k] = Outcome(s, flag, Failed(s, k, M), evs)
    BY <1>0, Zenon DEF Meaning
  <2> HIDE DEF evs
  <2>2. ASSUME NEW reason \in Reasons, NEW extra, NEW index, NEW e,
               M[k] = As(flag, reason, extra, index, e)
        PROVE  One
    BY <2>2, Zenon
  <2>3. "OFF" \in Reasons /\ "PREREQUISITE_FAILED" \in Reasons /\ "TARGET_MATCH" \in Reasons
        /\ "RULE_MATCH" \in Reasons /\ "FALLTHROUGH" \in Reasons
    BY DEF Reasons
  <2> HIDE DEF One
  <2> QED
    BY <2>1, <2>2, <2>3, Zenon DEF Outcome
<1> QED
  BY <1>1, <1>2

-----------------------------------------------------------------------------
(* Frames of an undisturbed evaluation.                                    *)

Sound(f, s, M) ==
    /\ MeantOK(s, M)
    /\ DOMAIN f = FrameFields /\ (f.at # "returned" => f.value = Absent)
    /\ f.key \in FlagKeys /\ FeatureIn(s, f.key) # Absent /\ FlagOf(f) = FeatureIn(s, f.key)
    /\ QuietFrame(f, s, M)

SoundFlag(f, s, M) ==
    /\ MeantOK(s, M) /\ SnapshotOK(s) /\ FlagIn(s, f) = FeatureIn(s, f.key)
    /\ f.key \in FlagKeys /\ FlagOf(f) = FeatureIn(s, f.key) /\ FeatureIn(s, f.key) # Absent
    /\ FlagOK(FeatureIn(s, f.key))

(* The flag of a sound frame is the one in the store.                      *)
LEMMA SoundIs ==
    ASSUME NEW f, NEW s, NEW M, Sound(f, s, M)
    PROVE  SoundFlag(f, s, M)
BY PrerequisitesShape DEF Sound, SoundFlag, MeantOK, FlagIn

(* Details, field by field.                                                *)
DetailsOf(reason, extra, has, index) ==
    [reason |-> reason, extra |-> extra, hasVariation |-> has, variationIndex |-> index]

(* Details are given a reason.                                             *)
LEMMA BecauseOf ==
    ASSUME NEW reason, NEW extra, NEW has, NEW index, NEW reason2, NEW extra2
    PROVE  Because(DetailsOf(reason, extra, has, index), reason2, extra2)
             = DetailsOf(reason2, extra2, has, index)
<1>1. Because(DetailsOf(reason, extra, has, index), reason2, extra2)
        = [[DetailsOf(reason, extra, has, index) EXCEPT !.reason = reason2] EXCEPT !.extra = extra2]
  BY Zenon DEF Because
<1>2. [DetailsOf(reason, extra, has, index) EXCEPT !.reason = reason2]
        = DetailsOf(reason2, extra, has, index)
  BY DEF DetailsOf
<1>3. [DetailsOf(reason2, extra, has, index) EXCEPT !.extra = extra2]
        = DetailsOf(reason2, extra2, has, index)
  BY DEF DetailsOf
<1> QED
  BY <1>1, <1>2, <1>3, Zenon

(* A frame that has returned, for a reason, with a variation of its flag.  *)
ServedShape(g, f, flag, reason, extra, index, status) ==
    /\ DOMAIN g = FrameFields /\ g.at = "returned" /\ g.status = status
    /\ g.details = IF index = Absent THEN DetailsOf(reason, extra, FALSE, 0)
                   ELSE DetailsOf(reason, extra, TRUE, index)
    /\ g.value = IF index = Absent THEN Absent ELSE flag.variations[index + 1]
    /\ \A x \in FrameFields \ {"details", "value", "at", "status"} : g[x] = f[x]

(* LDi_addValue of a variation the flag has.                               *)
LEMMA ServedIs ==
    ASSUME NEW f, NEW s, NEW M, Sound(f, s, M), f.at # "returned",
           NEW reason, NEW extra, NEW index, NEW status,
           index = Absent \/ VariationOK(FeatureIn(s, f.key), index)
    PROVE  ServedShape(Served([f EXCEPT !.details = Because(@, reason, extra)], index, TRUE, status),
                       f, FeatureIn(s, f.key), reason, extra, index, status)
<1> DEFINE no == FALSE
           yes == TRUE
           flag == FeatureIn(s, f.key)
           d == DetailsOf(reason, extra, no, 0)
           e == [f EXCEPT !.details = d]
           a == addValue(e, index, TRUE)
           g == Returned(a, status)
<1> HIDE DEF no, yes
<1>1. f.details = NoDetails /\ DOMAIN f = FrameFields /\ f.value = Absent
  BY DEF Sound, QuietFrame
<1>2. Because(f.details, reason, extra) = d
  <2>1. f.details = DetailsOf("UNKNOWN", Absent, no, 0)
    BY <1>1, Zenon DEF NoDetails, DetailsOf, no
  <2> QED
    BY <2>1, BecauseOf
<1>3. [f EXCEPT !.details = Because(@, reason, extra)] = e
  BY <1>2, Zenon
<1>4. /\ DOMAIN e = FrameFields /\ e.details = d /\ e.value = Absent
      /\ \A x \in FrameFields \ {"details"} : e[x] = f[x]
  BY <1>1 DEF FrameFields
<1>5. FlagOf(e) = flag /\ flag.variations # Bad
  BY <1>4, SoundIs DEF FrameFields, FlagOf, SoundFlag, FlagOK
<1>6. /\ DOMAIN a = FrameFields
      /\ \A x \in FrameFields \ {"details", "value"} : a[x] = f[x]
      /\ a.details = IF index = Absent THEN DetailsOf(reason, extra, no, 0)
                     ELSE DetailsOf(reason, extra, yes, index)
      /\ a.value = IF index = Absent THEN Absent ELSE flag.variations[index + 1]
  <2> HIDE DEF e
  <2>1. CASE index = Absent
    <3>1. a = [e EXCEPT !.value = Absent, !.details.hasVariation = no]
      BY <2>1, Zenon DEF addValue, no
    <3>2. a.details = [d EXCEPT !.hasVariation = no]
      BY <3>1, <1>4 DEF FrameFields
    <3>3. [d EXCEPT !.hasVariation = no] = d
      BY DEF DetailsOf
    <3>4. a.details = d
      BY <3>2, <3>3, Zenon
    <3> QED
      BY <2>1, <3>1, <3>4, <1>4 DEF FrameFields
  <2>2. CASE index # Absent
    <3>1. VariationOK(flag, index)
      BY <2>2
    <3>2. index # Bad /\ index + 1 \in DOMAIN flag.variations
      BY <3>1, Zenon DEF VariationOK
    <3>3. a = [e EXCEPT !.details.hasVariation = yes, !.details.variationIndex = index,
                        !.value = flag.variations[index + 1]]
      BY <2>2, <3>2, <1>5, Zenon DEF addValue, yes
    <3>4. a.details = [[d EXCEPT !.hasVariation = yes] EXCEPT !.variationIndex = index]
      BY <3>3, <1>4 DEF FrameFields
    <3>5. [d EXCEPT !.hasVariation = yes] = DetailsOf(reason, extra, yes, 0)
      BY DEF DetailsOf
    <3>6. [DetailsOf(reason, extra, yes, 0) EXCEPT !.variationIndex = index]
            = DetailsOf(reason, extra, yes, index)
      BY DEF DetailsOf
    <3>7. a.details = DetailsOf(reason, extra, yes, index)
      BY <3>4, <3>5, <3>6, Zenon
    <3> QED
      BY <2>2, <3>3, <3>7, <1>4 DEF FrameFields
  <2> QED
    BY <2>1, <2>2
<1> HIDE DEF a, e
<1>7. ~(index # Absent /\ a.value = Absent)
  BY <1>6 DEF VariationOK
<1>8. Served(e, index, TRUE, status) = g
  BY <1>7, Zenon DEF Served, a
<1>9. /\ DOMAIN g = FrameFields
      /\ g.at = "returned" /\ g.status = status /\ g.details = a.details /\ g.value = a.value
      /\ \A x \in FrameFields \ {"details", "value", "at", "status"} : g[x] = f[x]
  BY <1>6 DEF Returned, FrameFields
<1> HIDE DEF g
<1>10. ServedShape(g, f, flag, reason, extra, index, status)
  BY <1>6, <1>9, Zenon DEF ServedShape, yes, no
<1> QED
  BY <1>3, <1>8, <1>10, Zenon

(* Such a frame holds the flag's meaning when that is how it is decided.   *)
LEMMA ShapeMeans ==
    ASSUME NEW f, NEW s, NEW M, Sound(f, s, M),
           NEW g, NEW reason, NEW extra, NEW index, NEW status,
           ServedShape(g, f, FeatureIn(s, f.key), reason, extra, index, status),
           status = IF reason \in {"OFF", "PREREQUISITE_FAILED"} THEN "MISS" ELSE "MATCH",
           M[f.key] = As(FeatureIn(s, f.key), reason, extra, index, f.events)
    PROVE  QuietFrame(g, s, M)
<1> DEFINE o == [found |-> TRUE, details |-> g.details, value |-> g.value, events |-> f.events]
<1>1. /\ g.at = "returned" /\ g.status = status /\ g.key = f.key /\ g.version = f.version
      /\ g.i = f.i /\ g.rule = f.rule /\ g.clause = f.clause /\ g.segment = f.segment
      /\ g.events = f.events
  BY DEF ServedShape, FrameFields
<1>2. M[f.key] = o
  <2>1. CASE index = Absent
    <3>1. (index # Absent) = FALSE
      BY <2>1
    <3> QED
      BY <2>1, <3>1, Zenon DEF As, DetailsOf, ServedShape
  <2>2. CASE index # Absent
    <3>1. (index # Absent) = TRUE
      BY <2>2
    <3> QED
      BY <2>2, <3>1, Zenon DEF As, DetailsOf, ServedShape
  <2> QED
    BY <2>1, <2>2
<1>3. g.details.reason = reason
  <2> DEFINE no == FALSE
             yes == TRUE
  <2> HIDE DEF no, yes
  <2>1. /\ DetailsOf(reason, extra, no, 0).reason = reason
        /\ DetailsOf(reason, extra, yes, index).reason = reason
    BY DEF DetailsOf
  <2> QED
    BY <2>1, Zenon DEF ServedShape, no, yes
<1>4. ReturnedMeaning(g, M)
  BY <1>1, <1>2, <1>3 DEF ReturnedMeaning
<1> QED
  BY <1>1, <1>4 DEF QuietFrame, Progress, Sound

(* LDi_addValue ends a frame with the flag's meaning.                      *)
LEMMA ServedMeans ==
    ASSUME NEW f, NEW s, NEW M, Sound(f, s, M), f.at # "returned",
           NEW reason, NEW extra, NEW index, NEW status,
           index = Absent \/ VariationOK(FeatureIn(s, f.key), index),
           status = IF reason \in {"OFF", "PREREQUISITE_FAILED"} THEN "MISS" ELSE "MATCH",
           M[f.key] = As(FeatureIn(s, f.key), reason, extra, index, f.events)
    PROVE  QuietFrame(Served([f EXCEPT !.details = Because(@, reason, extra)], index, TRUE, status),
                      s, M)
BY ServedIs, ShapeMeans, Zenon

(* A frame that moves on to another part of the function.                  *)
Moved(g, f, place) ==
    /\ g.at = place /\ g.key = f.key /\ g.version = f.version /\ g.i = f.i
    /\ g.rule = f.rule /\ g.clause = f.clause /\ g.segment = f.segment
    /\ g.details = f.details /\ g.events = f.events

(* Setting the place changes nothing else.                                 *)
LEMMA MovedIs ==
    ASSUME NEW f, DOMAIN f = FrameFields, NEW place
    PROVE  Moved([f EXCEPT !.at = place], f, place)
BY DEF Moved, FrameFields

(* A frame may move on when it has got as far as the place says.           *)
LEMMA MovedQuiet ==
    ASSUME NEW f, NEW s, NEW M, Sound(f, s, M), f.at # "returned", NEW place,
           place \in {"on", "prerequisites", "failed", "targets", "rules"} =>
               f.clause = 1 /\ f.segment = 1,
           place # "returned", Progress([f EXCEPT !.at = place], s, M)
    PROVE  QuietFrame([f EXCEPT !.at = place], s, M)
<1> DEFINE g == [f EXCEPT !.at = place]
<1>1. Moved(g, f, place)
  BY MovedIs DEF Sound
<1> HIDE DEF g
<1> QED
  BY <1>1 DEF Moved, Sound, QuietFrame, g

(* evaluateOn.                                                             *)
LEMMA OnQuiet ==
    ASSUME NEW f, NEW s, NEW M, Sound(f, s, M), f.at = "on", FlagOf(f).on # FALSE
    PROVE  /\ FlagOf(f).on # Bad
           /\ QuietFrame([f EXCEPT !.at = "prerequisites"], s, M)
<1> DEFINE g == [f EXCEPT !.at = "prerequisites"]
<1>1. SoundFlag(f, s, M)
  BY SoundIs
<1>2. FeatureIn(s, f.key).on = TRUE /\ FlagOf(f) = FeatureIn(s, f.key)
  BY <1>1 DEF SoundFlag, FlagOK
<1>3. Moved(g, f, "prerequisites")
  BY MovedIs DEF Sound
<1>4. f.i = 1 /\ f.events = <<>> /\ f.rule = 1 /\ f.clause = 1 /\ f.segment = 1
  BY DEF Sound, QuietFrame, Progress
<1>5. Len(PrerequisitesIn(s, f.key)) \in Nat
  BY <1>1, PrerequisitesShape DEF SoundFlag
<1>6. EventsUpTo(s, f.key, M, 0) = <<>>
  BY <1>5, EventsGrow DEF PrerequisitesIn
<1> HIDE DEF g
<1>7. PassedUpTo(g, s, M, 0)
  BY <1>2, <1>3, <1>4, <1>5, <1>6 DEF PassedUpTo, Moved, FlagIn, PrerequisitesIn
<1>8. Progress(g, s, M)
  BY <1>3, <1>4, <1>7 DEF Progress, Moved
<1>9. QuietFrame(g, s, M)
  BY <1>4, <1>8, MovedQuiet DEF g
<1> QED
  BY <1>2, <1>9, AbsentIsNotBad DEF g

(* evaluateOff.                                                            *)
LEMMA OffQuiet ==
    ASSUME NEW f, NEW s, NEW M, Sound(f, s, M), f.at = "on", FlagOf(f).on = FALSE
    PROVE  QuietFrame(Served([f EXCEPT !.details = Because(@, "OFF", Absent)],
                             FlagOf(f).offVariation, TRUE, "MISS"), s, M)
<1> DEFINE flag == FeatureIn(s, f.key)
           index == flag.offVariation
<1>1. SoundFlag(f, s, M)
  BY SoundIs
<1>2. FlagOf(f) = flag /\ (index = Absent \/ VariationOK(flag, index))
  BY <1>1, Zenon DEF SoundFlag, FlagOK
<1>3. f.events = <<>>
  BY DEF Sound, QuietFrame, Progress
<1>4. M[f.key] = As(flag, "OFF", Absent, index, <<>>)
  BY <1>1, <1>2, MeantOff DEF SoundFlag
<1>5. "MISS" = IF "OFF" \in {"OFF", "PREREQUISITE_FAILED"} THEN "MISS" ELSE "MATCH"
  OBVIOUS
<1>6. QuietFrame(Served([f EXCEPT !.details = Because(@, "OFF", Absent)], index, TRUE, "MISS"), s, M)
  BY <1>2, <1>3, <1>4, <1>5, ServedMeans
<1> QED
  BY <1>2, <1>6

(* The prerequisites of a well-formed flag can be read.                    *)
LEMMA PrerequisitesReadable ==
    ASSUME NEW f, NEW s, NEW M, Sound(f, s, M)
    PROVE  /\ ~MalformedPrerequisite(f) /\ Prerequisites(f) = PrerequisitesIn(s, f.key)
           /\ MorePrerequisites(f) <=> f.i <= Len(PrerequisitesIn(s, f.key))
<1> DEFINE P == PrerequisitesIn(s, f.key)
<1>1. SoundFlag(f, s, M)
  BY SoundIs
<1>2. Prerequisites(f) = P
  BY <1>1 DEF SoundFlag, Prerequisites, PrerequisitesIn
<1>3. /\ P \notin {Absent, Bad} /\ Len(P) \in Nat /\ DOMAIN P = 1..Len(P)
      /\ \A i \in DOMAIN P : Bad \notin {P[i].key, P[i].variation}
  BY <1>1, PrerequisitesShape DEF SoundFlag
<1>4. f.i \in Nat \ {0}
  BY DEF Sound, QuietFrame
<1> HIDE DEF P
<1> QED
  BY <1>2, <1>3, <1>4 DEF MalformedPrerequisite, MorePrerequisites, Prerequisite, P

(* checkPrerequisitesEnds.                                                 *)
LEMMA EndsQuiet ==
    ASSUME NEW f, NEW s, NEW M, Sound(f, s, M), f.at = "prerequisites", ~MorePrerequisites(f)
    PROVE  QuietFrame([f EXCEPT !.at = "targets"], s, M)
<1> DEFINE g == [f EXCEPT !.at = "targets"]
           P == PrerequisitesIn(s, f.key)
<1>1. SoundFlag(f, s, M)
  BY SoundIs
<1>2. ~(f.i <= Len(P)) /\ Len(P) \in Nat
  BY <1>1, PrerequisitesReadable, PrerequisitesShape DEF SoundFlag
<1>3. PassedUpTo(f, s, M, f.i - 1) /\ f.rule = 1 /\ f.clause = 1 /\ f.segment = 1 /\ f.i \in Nat \ {0}
  BY DEF Sound, QuietFrame, Progress
<1>4. f.i - 1 = Len(P)
  BY <1>2, <1>3 DEF PassedUpTo, FlagIn, PrerequisitesIn
<1>5. Moved(g, f, "targets")
  BY MovedIs DEF Sound
<1> HIDE DEF g
<1>6. PassedAll(g, s, M)
  BY <1>3, <1>4, <1>5 DEF PassedAll, PassedUpTo, Moved, FlagIn, PrerequisitesIn
<1>7. Progress(g, s, M)
  BY <1>3, <1>5, <1>6 DEF Progress, Moved
<1> QED
  BY <1>3, <1>7, MovedQuiet DEF g

(* readPrerequisite of one that is not in the store.                       *)
LEMMA MissingQuiet ==
    ASSUME NEW f, NEW s, NEW M, Sound(f, s, M), f.at = "prerequisites", MorePrerequisites(f),
           FeatureIn(s, Prerequisite(f).key) = Absent
    PROVE  QuietFrame([f EXCEPT !.at = "failed"], s, M)
<1> DEFINE g == [f EXCEPT !.at = "failed"]
           P == PrerequisitesIn(s, f.key)
<1>1. SoundFlag(f, s, M)
  BY SoundIs
<1>2. PassedUpTo(f, s, M, f.i - 1) /\ f.rule = 1 /\ f.clause = 1 /\ f.segment = 1 /\ f.i \in Nat \ {0}
  BY DEF Sound, QuietFrame, Progress
<1>3. /\ Len(P) \in Nat /\ DOMAIN P = 1..Len(P) /\ f.i \in 1..Len(P) /\ Prerequisite(f) = P[f.i]
      /\ P[f.i].key \in FlagKeys
  BY <1>1, <1>2, PrerequisitesReadable, PrerequisitesShape DEF SoundFlag, Prerequisite
<1>4. M[P[f.i].key].found = FALSE
  BY <1>1, <1>3, MeantNotFound DEF SoundFlag
<1>5. f.i \in Failed(s, f.key, M)
  BY <1>3, <1>4 DEF Failed, Passes, PrerequisitesIn
<1>6. EventsUpTo(s, f.key, M, f.i) = EventsUpTo(s, f.key, M, f.i - 1)
  <2>1. EventsUpTo(s, f.key, M, f.i)
          = MoreEvents(s, EventsUpTo(s, f.key, M, f.i - 1), P[f.i], M[P[f.i].key], f.key)
    BY <1>3, EventsGrow DEF PrerequisitesIn
  <2> QED
    BY <1>4, <2>1 DEF MoreEvents
<1>7. Moved(g, f, "failed")
  BY MovedIs DEF Sound
<1> HIDE DEF g
<1>8. FailedAt(g, s, M)
  BY <1>2, <1>5, <1>6, <1>7 DEF PassedUpTo, FailedAt, Moved, FlagIn
<1>9. Progress(g, s, M)
  BY <1>7, <1>8 DEF Progress, Moved
<1> QED
  BY <1>2, <1>9, MovedQuiet DEF g

(* readPrerequisite of one that is.                                        *)
LEMMA NewFrameQuiet ==
    ASSUME NEW s, NEW M, s = Snapshot, NEW k \in FlagKeys
    PROVE  QuietFrame(NewFrame(k), s, M)
<1> DEFINE f == NewFrame(k)
<1>1. /\ f.version = version[k] /\ f.key = k /\ f.at = "on" /\ f.i = 1 /\ f.rule = 1 /\ f.clause = 1
      /\ f.segment = 1 /\ f.details = NoDetails /\ f.events = <<>>
  BY DEF NewFrame
<1>2. s.version = version
  BY DEF Snapshot
<1> HIDE DEF f
<1> QED
  BY <1>1, <1>2 DEF QuietFrame, Progress, f

(* prerequisiteReturns.                                                    *)
LEMMA AfterQuiet ==
    ASSUME NEW c, NEW f, NEW s, NEW M, Sound(c, s, M), Sound(f, s, M),
           c.at = "prerequisites", f.at = "returned", WaitsFor(c, f), NEW event,
           event = newFeatureRequestEvent(f.key, FlagOf(f), f.version, f.details, f.value, c.key)
    PROVE  ~isEvalError(f.status) /\ QuietFrame(afterPrerequisite(c, f, event), s, M)
<1> DEFINE P == PrerequisitesIn(s, c.key)
           o == M[f.key]
           passed == [c EXCEPT !.events = (@ \o f.events) \o <<event>>]
           g == afterPrerequisite(c, f, event)
           fails == \/ f.status = "MISS" \/ ~FlagOf(f).on
                    \/ ~f.details.hasVariation
                    \/ f.details.variationIndex # Prerequisite(c).variation
<1>1. SoundFlag(c, s, M) /\ SoundFlag(f, s, M)
  BY SoundIs
<1>2. /\ PassedUpTo(c, s, M, c.i - 1) /\ c.rule = 1 /\ c.clause = 1 /\ c.segment = 1
      /\ c.i \in Nat \ {0} /\ c.version = s.version[c.key] /\ c.details = NoDetails
      /\ DOMAIN c = FrameFields
  BY DEF Sound, QuietFrame, Progress
<1>3. /\ Len(P) \in Nat /\ DOMAIN P = 1..Len(P) /\ c.i \in 1..Len(P) /\ Prerequisite(c) = P[c.i]
      /\ P[c.i].key = f.key
  BY <1>1, <1>2, PrerequisitesReadable, PrerequisitesShape
     DEF SoundFlag, Prerequisite, WaitsFor, ReadablePrerequisite
<1>4. ReturnedMeaning(f, M) /\ f.version = s.version[f.key]
  BY DEF Sound, QuietFrame, Progress
<1>5. /\ o.found = TRUE /\ o.details = f.details /\ o.value = f.value /\ o.events = f.events
  BY <1>4 DEF ReturnedMeaning
<1>6. f.status = IF f.details.reason \in {"OFF", "PREREQUISITE_FAILED"} THEN "MISS" ELSE "MATCH"
  BY <1>4 DEF ReturnedMeaning
<1>7. event = newFeatureRequestEvent(P[c.i].key, FeatureIn(s, P[c.i].key), s.version[P[c.i].key],
                                     o.details, o.value, c.key)
  BY <1>1, <1>3, <1>4, <1>5 DEF SoundFlag
<1>8. EventsUpTo(s, c.key, M, c.i)
        = (EventsUpTo(s, c.key, M, c.i - 1) \o f.events) \o <<event>>
  <2>0. EventsUpTo(s, c.key, M, c.i)
          = MoreEvents(s, EventsUpTo(s, c.key, M, c.i - 1), P[c.i], M[P[c.i].key], c.key)
    BY <1>3, EventsGrow DEF PrerequisitesIn
  <2>1. EventsUpTo(s, c.key, M, c.i)
          = MoreEvents(s, EventsUpTo(s, c.key, M, c.i - 1), P[c.i], o, c.key)
    BY <1>3, <2>0, Zenon
  <2> HIDE DEF o, P
  <2> QED
    BY <1>5, <1>7, <2>1 DEF MoreEvents
<1>9. FlagOf(f).on = TRUE \/ f.details.reason = "OFF"
  <2> SUFFICES ASSUME FlagOf(f).on # TRUE PROVE f.details.reason = "OFF"
    OBVIOUS
  <2>1. FeatureIn(s, f.key).on = FALSE
    BY <1>1 DEF SoundFlag, FlagOK
  <2>2. o = As(FeatureIn(s, f.key), "OFF", Absent, FeatureIn(s, f.key).offVariation, <<>>)
    BY <1>1, <2>1, MeantOff DEF SoundFlag
  <2>3. o.details.reason = "OFF"
    BY <2>2 DEF As
  <2> QED
    BY <1>5, <2>3
<1>10. fails <=> ~Passes(P[c.i], o)
  <2>1. Passes(P[c.i], o) <=> /\ f.details.reason \notin {"OFF", "PREREQUISITE_FAILED"}
                              /\ f.details.hasVariation
                              /\ f.details.variationIndex = P[c.i].variation
    <3> HIDE DEF o, P
    <3> QED
      BY <1>5 DEF Passes
  <2>2. f.status = "MISS" <=> f.details.reason \in {"OFF", "PREREQUISITE_FAILED"}
    BY <1>6
  <2>3. ~FlagOf(f).on => f.details.reason = "OFF"
    BY <1>9
  <2> HIDE DEF o, P
  <2> QED
    BY <1>3, <2>1, <2>2, <2>3
<1>11. c.i \in Failed(s, c.key, M) <=> fails
  BY <1>3, <1>10 DEF Failed, PrerequisitesIn
<1> HIDE DEF o, P
<1>12. /\ DOMAIN passed = FrameFields /\ passed.events = (c.events \o f.events) \o <<event>>
       /\ \A x \in FrameFields \ {"events"} : passed[x] = c[x]
  BY <1>2 DEF FrameFields
<1>13. passed.events = EventsUpTo(s, c.key, M, c.i)
  BY <1>2, <1>8, <1>12 DEF PassedUpTo
<1>14. CASE fails
  <2>1. g = [passed EXCEPT !.at = "failed"]
    BY <1>14, Zenon DEF afterPrerequisite
  <2> HIDE DEF g, passed, fails
  <2>2. /\ g.at = "failed" /\ g.key = c.key /\ g.version = c.version /\ g.i = c.i /\ g.rule = c.rule
        /\ g.clause = c.clause /\ g.segment = c.segment /\ g.details = c.details
        /\ g.events = EventsUpTo(s, c.key, M, c.i)
    BY <2>1, <1>12, <1>13 DEF FrameFields
  <2>3. FailedAt(g, s, M)
    BY <1>2, <1>11, <1>14, <2>2 DEF FailedAt, PassedUpTo, FlagIn
  <2>4. QuietFrame(g, s, M)
    BY <1>2, <2>2, <2>3 DEF QuietFrame, Progress
  <2> QED
    BY <1>6, <2>4 DEF g, isEvalError
<1>15. CASE ~fails
  <2>1. g = [passed EXCEPT !.i = @ + 1]
    BY <1>15, Zenon DEF afterPrerequisite
  <2> HIDE DEF g, passed, fails
  <2>2. /\ g.at = "prerequisites" /\ g.key = c.key /\ g.version = c.version /\ g.i = c.i + 1
        /\ g.rule = c.rule /\ g.clause = c.clause /\ g.segment = c.segment /\ g.details = c.details
        /\ g.events = EventsUpTo(s, c.key, M, c.i)
    BY <2>1, <1>12, <1>13 DEF FrameFields
  <2>3. PassedUpTo(g, s, M, c.i)
    <3>1. \A j \in 1..c.i : j \in 1..(c.i - 1) \/ j = c.i
      BY <1>2
    <3> QED
      BY <1>2, <1>3, <1>11, <1>15, <2>2, <3>1 DEF PassedUpTo, FlagIn, P, PrerequisitesIn
  <2>4. g.i - 1 = c.i /\ g.i \in Nat \ {0}
    BY <1>2, <2>2
  <2>5. QuietFrame(g, s, M)
    BY <1>2, <2>2, <2>3, <2>4 DEF QuietFrame, Progress
  <2> QED
    BY <1>6, <2>5 DEF g, isEvalError
<1> QED
  BY <1>14, <1>15

(* prerequisiteFailed.                                                     *)
LEMMA FailedQuiet ==
    ASSUME NEW f, NEW s, NEW M, Sound(f, s, M), f.at = "failed"
    PROVE  QuietFrame(Served([f EXCEPT !.details = Because(@, "PREREQUISITE_FAILED",
                                                           Prerequisite(f).key)],
                             FlagOf(f).offVariation, TRUE, "MISS"), s, M)
<1> DEFINE flag == FeatureIn(s, f.key)
           index == flag.offVariation
           key == PrerequisitesIn(s, f.key)[f.i].key
<1>1. SoundFlag(f, s, M)
  BY SoundIs
<1>2. FlagOf(f) = flag /\ (index = Absent \/ VariationOK(flag, index))
  BY <1>1, Zenon DEF SoundFlag, FlagOK
<1>3. FailedAt(f, s, M) /\ f.i \in Nat
  BY DEF Sound, QuietFrame, Progress
<1>4. Prerequisite(f).key = key
  BY PrerequisitesReadable DEF Prerequisite
<1>5. M[f.key] = As(flag, "PREREQUISITE_FAILED", key, index, f.events)
  <2>1. flag.on = TRUE /\ f.events = EventsUpTo(s, f.key, M, f.i) /\ f.i \in Failed(s, f.key, M)
    BY <1>1, <1>3 DEF FailedAt, SoundFlag
  <2>2. FailsFirst(s, f.key, M, f.i)
    BY <1>3 DEF FailedAt, FailsFirst
  <2>3. MeantOK(s, M) /\ f.key \in FlagKeys /\ flag # Absent
    BY <1>1 DEF SoundFlag
  <2>4. M[f.key] = As(flag, "PREREQUISITE_FAILED", key, index, EventsUpTo(s, f.key, M, f.i))
    <3>1. ASSUME NEW k \in FlagKeys, FeatureIn(s, k) # Absent, FeatureIn(s, k).on = TRUE,
                 NEW n, FailsFirst(s, k, M, n)
          PROVE  M[k] = As(FeatureIn(s, k), "PREREQUISITE_FAILED", PrerequisitesIn(s, k)[n].key,
                           FeatureIn(s, k).offVariation, EventsUpTo(s, k, M, n))
      BY <2>3, <3>1, MeantFailed
    <3> QED
      BY <2>1, <2>2, <2>3, <3>1, Zenon
  <2> QED
    BY <2>1, <2>4
<1>6. "MISS" = IF "PREREQUISITE_FAILED" \in {"OFF", "PREREQUISITE_FAILED"} THEN "MISS" ELSE "MATCH"
  OBVIOUS
<1> HIDE DEF key, flag
<1>7. QuietFrame(Served([f EXCEPT !.details = Because(@, "PREREQUISITE_FAILED", key)],
                        index, TRUE, "MISS"), s, M)
  BY <1>2, <1>5, <1>6, ServedMeans DEF flag
<1> QED
  BY <1>2, <1>4, <1>7, Zenon

(* A list that follows the schema, entry by entry.                         *)
Listed(list) ==
    list \notin {Absent, Bad} /\ Len(list) \in Nat /\ DOMAIN list = 1..Len(list)

(* A sequence that is there is such a list.                                *)
LEMMA ListedIs ==
    ASSUME NEW list, list \notin {Absent, Bad}, IsSequence(list)
    PROVE  Listed(list) /\ \A i \in 1..Len(list) : list[i] \in Range(list)
<1>1. Listed(list)
  BY DEF IsSequence, Listed
<1> QED
  BY <1>1, Zenon DEF Listed, Range

FlagLists(flag) ==
    /\ Listed(flag.targets) /\ \A i \in 1..Len(flag.targets) : TargetOK(flag, flag.targets[i])
    /\ Listed(flag.rules) /\ \A i \in 1..Len(flag.rules) : RuleOK(flag, flag.rules[i])

(* The targets and rules of a well-formed flag.                            *)
LEMMA FlagListsAre ==
    ASSUME NEW flag, FlagOK(flag)
    PROVE  FlagLists(flag)
<1>1. /\ flag.targets \notin {Absent, Bad} /\ IsSequence(flag.targets)
      /\ \A t \in Range(flag.targets) : TargetOK(flag, t)
  BY Zenon DEF FlagOK, ListOf
<1>2. /\ flag.rules \notin {Absent, Bad} /\ IsSequence(flag.rules)
      /\ \A r \in Range(flag.rules) : RuleOK(flag, r)
  BY Zenon DEF FlagOK, ListOf
<1>3. /\ Listed(flag.targets) /\ \A i \in 1..Len(flag.targets) : flag.targets[i] \in Range(flag.targets)
      /\ Listed(flag.rules) /\ \A i \in 1..Len(flag.rules) : flag.rules[i] \in Range(flag.rules)
  BY <1>1, <1>2, ListedIs
<1> QED
  BY <1>1, <1>2, <1>3, Zenon DEF FlagLists

RuleLists(rule) ==
    Listed(rule.clauses) /\ \A i \in 1..Len(rule.clauses) : ClauseOK(rule.clauses[i])

(* The clauses of a well-formed rule.                                      *)
LEMMA RuleListsAre ==
    ASSUME NEW flag, NEW rule, RuleOK(flag, rule)
    PROVE  RuleLists(rule)
<1>1. /\ rule.clauses \notin {Absent, Bad} /\ IsSequence(rule.clauses)
      /\ \A c \in Range(rule.clauses) : ClauseOK(c)
  BY Zenon DEF RuleOK, ListOf
<1>2. Listed(rule.clauses) /\ \A i \in 1..Len(rule.clauses) : rule.clauses[i] \in Range(rule.clauses)
  BY <1>1, ListedIs
<1> QED
  BY <1>1, <1>2, Zenon DEF RuleLists

ClauseLists(c) ==
    /\ Listed(c.values)
    /\ \A i \in 1..Len(c.values) :
         IsSegmentMatch(c) /\ c.values[i][1] = "text" => c.values[i][2] \in SegmentKeys

(* The values of a well-formed clause.                                     *)
LEMMA ClauseListsAre ==
    ASSUME NEW c, ClauseOK(c)
    PROVE  ClauseLists(c)
<1>1. /\ c.values \notin {Absent, Bad} /\ IsSequence(c.values)
      /\ \A w \in Range(c.values) : c.op = "segmentMatch" /\ w[1] = "text" => w[2] \in SegmentKeys
  BY Zenon DEF ClauseOK, ListOf
<1>2. Listed(c.values) /\ \A i \in 1..Len(c.values) : c.values[i] \in Range(c.values)
  BY <1>1, ListedIs
<1> QED
  BY <1>1, <1>2, Zenon DEF ClauseLists, IsSegmentMatch

(* A frame past its prerequisites.                                         *)
LEMMA PassedAllIs ==
    ASSUME NEW f, NEW s, NEW M, Sound(f, s, M),
           f.at \in {"targets", "rules", "clauses", "fallthrough"}
    PROVE  /\ AllPassed(s, f.key, M) /\ f.events = AllEvents(s, f.key, M)
           /\ f.at # "targets" => Targets(s, FeatureIn(s, f.key)) = {}
<1> DEFINE P == PrerequisitesIn(s, f.key)
<1>1. SoundFlag(f, s, M)
  BY SoundIs
<1>2. PassedAll(f, s, M)
  BY DEF Sound, QuietFrame, Progress
<1>3. DOMAIN P = 1..Len(P)
  BY <1>1, PrerequisitesShape DEF SoundFlag
<1>4. \A j \in 1..Len(P) : j \notin Failed(s, f.key, M)
  BY <1>2 DEF PassedAll, PassedUpTo, FlagIn, PrerequisitesIn
<1>5. Failed(s, f.key, M) = {}
  <2>1. Failed(s, f.key, M) \subseteq DOMAIN P
    BY DEF Failed, PrerequisitesIn
  <2> HIDE DEF P
  <2> QED
    BY <1>3, <1>4, <2>1
<1> QED
  BY <1>2, <1>5 DEF PassedAll, PassedUpTo, FlagIn, AllPassed, AllEvents, PrerequisitesIn

(* evaluateTargets.                                                        *)
LEMMA TargetHitIs ==
    ASSUME NEW s, NEW flag, FlagOK(flag), s.user = user
    PROVE  /\ Targets(s, flag) \in SUBSET (Nat \ {0})
           /\ Targets(s, flag) \in SUBSET (1..Len(flag.targets))
           /\ TargetHit(flag.targets) = FirstOrZero(Targets(s, flag))
<1> DEFINE T == flag.targets
<1>1. Listed(T) /\ \A i \in 1..Len(T) : TargetOK(flag, T[i])
  BY FlagListsAre DEF FlagLists
<1>2. TargetHit(T) = FirstOrZero({i \in 1..Len(T) :
                                     T[i].values = Bad \/ textInArray(T[i].values, user.key)})
  BY Zenon DEF TargetHit, SelectInSeq, FirstOrZero
<1>3. \A i \in 1..Len(T) : T[i].values # Bad
  BY <1>1, Zenon DEF TargetOK
<1>4. Targets(s, flag) = {i \in 1..Len(T) : T[i].values = Bad \/ textInArray(T[i].values, user.key)}
  BY <1>1, <1>3 DEF Targets, textInArray, Listed
<1>5. Targets(s, flag) \in SUBSET (1..Len(T)) /\ Len(T) \in Nat
  BY <1>1, <1>4 DEF Listed
<1> QED
  BY <1>2, <1>4, <1>5

(* No target names the user: on to the rules.                              *)
LEMMA NoTargetQuiet ==
    ASSUME NEW f, NEW s, NEW M, Sound(f, s, M), f.at = "targets",
           Targets(s, FeatureIn(s, f.key)) = {}
    PROVE  QuietFrame([f EXCEPT !.at = "rules"], s, M)
<1> DEFINE g == [f EXCEPT !.at = "rules"]
<1>1. /\ PassedAll(f, s, M) /\ f.rule = 1 /\ f.clause = 1 /\ f.segment = 1
  BY DEF Sound, QuietFrame, Progress
<1>2. Moved(g, f, "rules")
  BY MovedIs DEF Sound
<1> HIDE DEF g
<1>3. PassedAll(g, s, M) /\ MissedUpTo(g, s, g.rule - 1)
  BY <1>1, <1>2 DEF PassedAll, PassedUpTo, MissedUpTo, Moved, FlagIn
<1>4. Progress(g, s, M)
  BY <1>2, <1>3 DEF Progress, Moved
<1> QED
  BY <1>1, <1>4, MovedQuiet DEF g

(* The first target that names the user decides.                           *)
LEMMA TargetQuiet ==
    ASSUME NEW f, NEW s, NEW M, Sound(f, s, M), f.at = "targets", NEW n,
           Targets(s, FeatureIn(s, f.key)) # {}, n = Min(Targets(s, FeatureIn(s, f.key))),
           n \in 1..Len(FeatureIn(s, f.key).targets)
    PROVE  QuietFrame(Served([f EXCEPT !.details = Because(@, "TARGET_MATCH", Absent)],
                             FlagOf(f).targets[n].variation, TRUE, "MATCH"), s, M)
<1> DEFINE flag == FeatureIn(s, f.key)
           index == flag.targets[n].variation
<1>1. SoundFlag(f, s, M)
  BY SoundIs
<1>2. FlagOf(f) = flag /\ VariationOK(flag, index)
  BY <1>1, FlagListsAre, Zenon DEF SoundFlag, FlagLists, TargetOK
<1>3. AllPassed(s, f.key, M) /\ f.events = AllEvents(s, f.key, M)
  BY PassedAllIs
<1>4. M[f.key] = As(flag, "TARGET_MATCH", Absent, index, AllEvents(s, f.key, M))
  BY <1>1, <1>3, MeantTarget, Zenon DEF SoundFlag
<1>5. "MATCH" = IF "TARGET_MATCH" \in {"OFF", "PREREQUISITE_FAILED"} THEN "MISS" ELSE "MATCH"
  OBVIOUS
<1> HIDE DEF index, flag
<1>6. M[f.key] = As(flag, "TARGET_MATCH", Absent, index, f.events)
  BY <1>3, <1>4
<1>7. QuietFrame(Served([f EXCEPT !.details = Because(@, "TARGET_MATCH", Absent)],
                        index, TRUE, "MATCH"), s, M)
  BY <1>2, <1>5, <1>6, ServedMeans DEF flag
<1> QED
  BY <1>2, <1>7 DEF index, flag

(* evaluateRules.                                                          *)
LEMMA RulesReadable ==
    ASSUME NEW f, NEW s, NEW M, Sound(f, s, M)
    PROVE  /\ FlagOf(f).rules = FeatureIn(s, f.key).rules /\ FlagOf(f).rules # Bad
           /\ MoreRules(f) <=> f.rule <= Len(FeatureIn(s, f.key).rules)
           /\ MoreRules(f) => f.rule \in 1..Len(FeatureIn(s, f.key).rules)
<1>1. SoundFlag(f, s, M)
  BY SoundIs
<1>2. Listed(FeatureIn(s, f.key).rules)
  BY <1>1, FlagListsAre DEF SoundFlag, FlagLists
<1>3. f.rule \in Nat \ {0}
  BY DEF Sound, QuietFrame
<1> QED
  BY <1>1, <1>2, <1>3 DEF SoundFlag, MoreRules, Listed

(* No rule is left: on to the fallthrough.                                 *)
LEMMA NoRuleQuiet ==
    ASSUME NEW f, NEW s, NEW M, Sound(f, s, M), f.at = "rules", ~MoreRules(f)
    PROVE  QuietFrame([f EXCEPT !.at = "fallthrough"], s, M)
<1> DEFINE g == [f EXCEPT !.at = "fallthrough"]
           R == FeatureIn(s, f.key).rules
<1>1. /\ PassedAll(f, s, M) /\ MissedUpTo(f, s, f.rule - 1) /\ f.rule \in Nat \ {0}
  BY DEF Sound, QuietFrame, Progress
<1>2. ~(f.rule <= Len(R)) /\ Len(R) \in Nat /\ DOMAIN R = 1..Len(R)
  BY RulesReadable, SoundIs, FlagListsAre DEF SoundFlag, FlagLists, Listed
<1>3. Rules(s, FeatureIn(s, f.key)) = {}
  <2>1. Rules(s, FeatureIn(s, f.key)) \subseteq DOMAIN R
    BY DEF Rules
  <2>2. \A j \in 1..(f.rule - 1) : j \notin Rules(s, FeatureIn(s, f.key))
    BY <1>1 DEF MissedUpTo, FlagIn
  <2>3. \A j \in DOMAIN R : j \in 1..(f.rule - 1)
    <3> HIDE DEF R
    <3> QED
      BY <1>1, <1>2
  <2> QED
    BY <2>1, <2>2, <2>3, Zenon
<1>4. Moved(g, f, "fallthrough")
  BY MovedIs DEF Sound
<1> HIDE DEF g
<1>5. PassedAll(g, s, M) /\ Rules(s, FlagIn(s, g)) = {}
  BY <1>1, <1>3, <1>4 DEF PassedAll, PassedUpTo, Moved, FlagIn
<1>6. Progress(g, s, M)
  BY <1>4, <1>5 DEF Progress, Moved
<1> QED
  BY <1>6, MovedQuiet DEF g

(* A frame at a rule.                                                      *)
RuleIn(s, f) == FeatureIn(s, f.key).rules[f.rule]

(* The rule is one of the flag's, and well-formed.                         *)
LEMMA RuleReadable ==
    ASSUME NEW f, NEW s, NEW M, Sound(f, s, M), f.rule \in 1..Len(FeatureIn(s, f.key).rules)
    PROVE  /\ Rule(f) = RuleIn(s, f) /\ RuleOK(FeatureIn(s, f.key), Rule(f)) /\ RuleLists(Rule(f))
<1>1. SoundFlag(f, s, M)
  BY SoundIs
<1>2. Rule(f) = RuleIn(s, f)
  BY <1>1, Zenon DEF Rule, RuleIn, SoundFlag
<1>3. RuleOK(FeatureIn(s, f.key), RuleIn(s, f))
  BY <1>1, FlagListsAre DEF SoundFlag, FlagLists, RuleIn
<1> QED
  BY <1>2, <1>3, RuleListsAre

(* A rule is left: on to its clauses.                                      *)
LEMMA RuleQuiet ==
    ASSUME NEW f, NEW s, NEW M, Sound(f, s, M), f.at = "rules", MoreRules(f)
    PROVE  Rule(f).clauses # Bad /\ QuietFrame([f EXCEPT !.at = "clauses"], s, M)
<1> DEFINE g == [f EXCEPT !.at = "clauses"]
<1>1. /\ PassedAll(f, s, M) /\ MissedUpTo(f, s, f.rule - 1) /\ f.clause = 1 /\ f.segment = 1
  BY DEF Sound, QuietFrame, Progress
<1>2. f.rule \in 1..Len(FeatureIn(s, f.key).rules) /\ f.rule <= Len(FeatureIn(s, f.key).rules)
  BY RulesReadable
<1>3. Rule(f) = RuleIn(s, f) /\ RuleLists(RuleIn(s, f))
  BY <1>2, RuleReadable
<1>4. Moved(g, f, "clauses")
  BY MovedIs DEF Sound
<1> HIDE DEF g
<1>5. PassedAll(g, s, M) /\ MissedUpTo(g, s, g.rule - 1)
  BY <1>1, <1>4, PassedAllIs DEF PassedAll, PassedUpTo, MissedUpTo, Moved, FlagIn
<1>6. HeldUpTo(g, s)
  <2> DEFINE C == RuleIn(s, f).clauses
  <2>1. Len(C) \in Nat /\ DOMAIN C = 1..Len(C) /\ \A i \in 1..Len(C) : ClauseOK(C[i])
    BY <1>3 DEF RuleLists, Listed
  <2>2. 1 <= Len(C) => Len(C[1].values) \in Nat
    BY <2>1, ClauseListsAre DEF ClauseLists, Listed
  <2>3. /\ g.clause = 1 /\ g.segment = 1 /\ g.rule = f.rule /\ FlagIn(s, g).rules[g.rule].clauses = C
        /\ FlagIn(s, g) = FeatureIn(s, f.key)
    BY <1>1, <1>4 DEF Moved, FlagIn, RuleIn
  <2> HIDE DEF C
  <2> QED
    BY <1>2, <2>1, <2>2, <2>3 DEF HeldUpTo
<1>7. Progress(g, s, M)
  BY <1>4, <1>5, <1>6 DEF Progress, Moved
<1>8. QuietFrame(g, s, M)
  BY <1>1, <1>7, MovedQuiet DEF g
<1> QED
  BY <1>3, <1>8 DEF RuleLists, Listed, g

(* A frame at a clause.                                                    *)
ClauseReached(f, s, M) ==
    /\ f.rule \in 1..Len(FeatureIn(s, f.key).rules)
    /\ f.clause \in 1..Len(RuleIn(s, f).clauses)
    /\ Rule(f) = RuleIn(s, f) /\ Clause(f) = RuleIn(s, f).clauses[f.clause]
    /\ RuleLists(RuleIn(s, f)) /\ ClauseOK(Clause(f)) /\ ClauseLists(Clause(f))

(* The clause is one of the rule's, and well-formed.                       *)
LEMMA ClausesReadable ==
    ASSUME NEW f, NEW s, NEW M, Sound(f, s, M), f.at = "clauses"
    PROVE  /\ f.rule \in 1..Len(FeatureIn(s, f.key).rules)
           /\ Rule(f) = RuleIn(s, f) /\ RuleOK(FeatureIn(s, f.key), Rule(f))
           /\ MoreClauses(f) <=> f.clause <= Len(RuleIn(s, f).clauses)
           /\ MoreClauses(f) => ClauseReached(f, s, M)
<1>1. HeldUpTo(f, s) /\ f.rule \in Nat \ {0} /\ f.clause \in Nat \ {0}
  BY DEF Sound, QuietFrame, Progress
<1>2. Listed(FeatureIn(s, f.key).rules)
  BY SoundIs, FlagListsAre DEF SoundFlag, FlagLists
<1>3. f.rule \in 1..Len(FeatureIn(s, f.key).rules)
  BY <1>1, <1>2 DEF HeldUpTo, FlagIn, Listed
<1>4. Rule(f) = RuleIn(s, f) /\ RuleOK(FeatureIn(s, f.key), Rule(f)) /\ RuleLists(RuleIn(s, f))
  BY <1>3, RuleReadable
<1>5. MoreClauses(f) <=> f.clause <= Len(RuleIn(s, f).clauses)
  BY <1>4 DEF MoreClauses
<1>6. ASSUME MoreClauses(f) PROVE ClauseReached(f, s, M)
  <2>1. f.clause \in 1..Len(RuleIn(s, f).clauses)
    BY <1>1, <1>4, <1>5, <1>6 DEF RuleLists, Listed
  <2>2. Clause(f) = RuleIn(s, f).clauses[f.clause]
    BY <1>4 DEF Clause
  <2>3. ClauseOK(Clause(f))
    BY <1>4, <2>1, <2>2 DEF RuleLists
  <2> QED
    BY <1>3, <1>4, <2>1, <2>2, <2>3, ClauseListsAre DEF ClauseReached
<1> QED
  BY <1>3, <1>4, <1>5, <1>6

(* ruleMatchesUser, when a clause has been decided.                        *)
LEMMA ClauseQuiet ==
    ASSUME NEW f, NEW s, NEW M, Sound(f, s, M), f.at = "clauses", MoreClauses(f)
    PROVE  QuietFrame(ruleMatchesUser(f, Verdict(ClauseHolds(s, Clause(f)))), s, M)
<1> DEFINE C == RuleIn(s, f).clauses
           holds == ClauseHolds(s, Clause(f))
           g == ruleMatchesUser(f, Verdict(holds))
<1>1. /\ PassedAll(f, s, M) /\ MissedUpTo(f, s, f.rule - 1) /\ HeldUpTo(f, s)
      /\ f.rule \in Nat \ {0} /\ f.clause \in Nat \ {0} /\ f.i \in Nat \ {0}
      /\ f.version = s.version[f.key] /\ f.details = NoDetails
  BY DEF Sound, QuietFrame, Progress
<1>2. ClauseReached(f, s, M)
  BY ClausesReadable
<1>3. /\ f.rule \in 1..Len(FeatureIn(s, f.key).rules) /\ f.clause \in 1..Len(C)
      /\ Clause(f) = C[f.clause] /\ Len(C) \in Nat /\ DOMAIN C = 1..Len(C) /\ \A i \in 1..Len(C) : ClauseOK(C[i])
  BY <1>2 DEF ClauseReached, RuleLists, Listed
<1>4. Targets(s, FeatureIn(s, f.key)) = {}
  BY PassedAllIs
<1>5. DOMAIN f = FrameFields
  BY DEF Sound
<1>6. CASE holds
  <2>1. Verdict(holds) = "MATCH" /\ ~isEvalError("MATCH")
    BY <1>6 DEF Verdict, isEvalError
  <2>2. g = [f EXCEPT !.clause = @ + 1, !.segment = 1]
    BY <2>1, Zenon DEF ruleMatchesUser
  <2> HIDE DEF g, holds
  <2>3. /\ g.at = "clauses" /\ g.key = f.key /\ g.version = f.version /\ g.i = f.i
        /\ g.rule = f.rule /\ g.clause = f.clause + 1 /\ g.segment = 1
        /\ g.details = f.details /\ g.events = f.events
    BY <1>5, <2>2 DEF FrameFields
  <2>4. PassedAll(g, s, M) /\ MissedUpTo(g, s, g.rule - 1)
    BY <1>1, <1>4, <2>3 DEF PassedAll, PassedUpTo, MissedUpTo, FlagIn
  <2>5. HeldUpTo(g, s)
    <3>1. FlagIn(s, g).rules[g.rule].clauses = C /\ FlagIn(s, g) = FeatureIn(s, f.key)
          /\ FlagIn(s, f).rules[f.rule].clauses = C
      BY <2>3 DEF FlagIn, RuleIn
    <3>2. \A j \in 1..(f.clause - 1) : ClauseHolds(s, C[j])
      BY <1>1, <3>1 DEF HeldUpTo
    <3>3. ClauseHolds(s, C[f.clause])
      BY <1>3, <1>6 DEF holds
    <3> HIDE DEF C
    <3>4. ASSUME NEW j \in 1..(g.clause - 1) PROVE ClauseHolds(s, C[j])
      <4>1. j \in 1..(f.clause - 1) \/ j = f.clause
        BY <1>1, <2>3
      <4> QED
        BY <3>2, <3>3, <4>1
    <3>5. g.clause <= Len(C) => Len(C[g.clause].values) \in Nat
      <4> SUFFICES ASSUME g.clause <= Len(C) PROVE Len(C[g.clause].values) \in Nat
        OBVIOUS
      <4>1. g.clause \in 1..Len(C)
        BY <1>1, <1>3, <2>3
      <4>2. ClauseOK(C[g.clause])
        BY <1>3, <4>1
      <4> QED
        BY <4>2, ClauseListsAre DEF ClauseLists, Listed
    <3>6. g.rule <= Len(FlagIn(s, g).rules) /\ g.clause <= Len(C) + 1
      BY <1>1, <1>3, <2>3, <3>1
    <3> QED
      BY <2>3, <3>1, <3>4, <3>5, <3>6 DEF HeldUpTo
  <2>6. Progress(g, s, M)
    BY <2>3, <2>4, <2>5 DEF Progress
  <2>7. {g.i, g.rule, g.clause, g.segment} \subseteq Nat \ {0}
    BY <1>1, <2>3
  <2> QED
    BY <1>1, <2>3, <2>6, <2>7 DEF QuietFrame, g, holds
<1>7. CASE ~holds
  <2>1. Verdict(holds) = "MISS" /\ ~isEvalError("MISS")
    BY <1>7 DEF Verdict, isEvalError
  <2>2. g = [f EXCEPT !.at = "rules", !.rule = @ + 1, !.clause = 1, !.segment = 1]
    BY <2>1 DEF ruleMatchesUser
  <2> HIDE DEF g
  <2>3. /\ g.at = "rules" /\ g.key = f.key /\ g.version = f.version /\ g.i = f.i
        /\ g.rule = f.rule + 1 /\ g.clause = 1 /\ g.segment = 1
        /\ g.details = f.details /\ g.events = f.events
    BY <1>5, <2>2 DEF FrameFields
  <2>4. PassedAll(g, s, M)
    BY <1>1, <1>4, <2>3 DEF PassedAll, PassedUpTo, FlagIn
  <2>5. f.rule \notin Rules(s, FeatureIn(s, f.key))
    <3>1. C[f.clause] \in Range(C)
      BY <1>3, Zenon DEF Range
    <3>2. ~RuleHolds(s, FeatureIn(s, f.key).rules[f.rule])
      BY <1>3, <1>7, <3>1, Zenon DEF RuleHolds, RuleIn
    <3> QED
      BY <3>2, Zenon DEF Rules
  <2>6. MissedUpTo(g, s, g.rule - 1)
    <3>1. ASSUME NEW j \in 1..(g.rule - 1) PROVE j \notin Rules(s, FeatureIn(s, f.key))
      <4>1. j \in 1..(f.rule - 1) \/ j = f.rule
        BY <1>1, <2>3
      <4> QED
        BY <1>1, <2>5, <4>1 DEF MissedUpTo, FlagIn
    <3>2. g.rule = (g.rule - 1) + 1 /\ FlagIn(s, g) = FeatureIn(s, f.key)
      BY <1>1, <2>3 DEF FlagIn
    <3> QED
      BY <3>1, <3>2 DEF MissedUpTo
  <2>7. Progress(g, s, M)
    BY <2>3, <2>4, <2>6 DEF Progress
  <2>8. {g.i, g.rule, g.clause, g.segment} \subseteq Nat \ {0}
    BY <1>1, <2>3
  <2> QED
    BY <1>1, <2>3, <2>7, <2>8 DEF QuietFrame, g, holds
<1> QED
  BY <1>6, <1>7

(* A clause that names segments, when it has been decided.                 *)
SomeSegment(s, c) == \E w \in Range(c.values) : SegmentHolds(s, w)

(* It matches when the clause holds.                                       *)
LEMMA SegmentClauseMeans ==
    ASSUME NEW s, NEW c, ClauseOK(c), IsSegmentMatch(c), NEW some \in BOOLEAN,
           some <=> SomeSegment(s, c)
    PROVE  maybeNegate(c, Verdict(some)) = Verdict(ClauseHolds(s, c))
<1>1. c.negate \in BOOLEAN \cup {Absent}
  BY Zenon DEF ClauseOK
<1>2. maybeNegate(c, Verdict(some)) = Verdict((c.negate = TRUE) # some)
  BY <1>1, NegateMeans
<1>3. ClauseHolds(s, c) <=> ((c.negate = TRUE) # SomeSegment(s, c))
  BY Zenon DEF ClauseHolds, SomeSegment
<1>4. ((c.negate = TRUE) # some) <=> ((c.negate = TRUE) # SomeSegment(s, c))
  BY DEF SomeSegment
<1> QED
  BY <1>2, <1>3, <1>4, Zenon DEF Verdict

(* Where a frame is in the segments of a clause.                           *)
LEMMA SegmentsReadable ==
    ASSUME NEW f, NEW s, NEW M, Sound(f, s, M), f.at = "clauses", MoreClauses(f),
           IsSegmentMatch(Clause(f))
    PROVE  /\ Clause(f).values # Bad /\ Len(Clause(f).values) \in Nat
           /\ DOMAIN Clause(f).values = 1..Len(Clause(f).values)
           /\ MoreSegments(f) <=> f.segment <= Len(Clause(f).values)
           /\ f.segment \in Nat \ {0} /\ f.segment <= Len(Clause(f).values) + 1
           /\ \A j \in 1..(f.segment - 1) : ~SegmentHolds(s, Clause(f).values[j])
<1> DEFINE C == RuleIn(s, f).clauses
<1>1. HeldUpTo(f, s) /\ f.segment \in Nat \ {0}
  BY DEF Sound, QuietFrame, Progress
<1>2. ClauseReached(f, s, M)
  BY ClausesReadable
<1>3. Clause(f) = C[f.clause] /\ f.clause \in 1..Len(C) /\ Listed(Clause(f).values) /\ Len(C) \in Nat
  BY <1>2 DEF ClauseReached, ClauseLists, RuleLists, Listed
<1>4. /\ f.segment <= Len(C[f.clause].values) + 1
      /\ \A j \in 1..(f.segment - 1) : ~SegmentHolds(s, C[f.clause].values[j])
  <2>1. FlagIn(s, f).rules[f.rule].clauses = C
    BY DEF FlagIn, RuleIn
  <2>2. f.clause <= Len(C)
    BY <1>3
  <2> HIDE DEF C
  <2> QED
    BY <1>1, <1>3, <2>1, <2>2 DEF HeldUpTo
<1> QED
  BY <1>1, <1>3, <1>4 DEF MoreSegments, Listed

(* segmentsEnd.                                                            *)
LEMMA SegmentsEndQuiet ==
    ASSUME NEW f, NEW s, NEW M, Sound(f, s, M), f.at = "clauses", MoreClauses(f),
           IsSegmentMatch(Clause(f)), ~MoreSegments(f)
    PROVE  /\ Clause(f).values # Bad
           /\ QuietFrame(ruleMatchesUser(f, maybeNegate(Clause(f), "MISS")), s, M)
<1> DEFINE V == Clause(f).values
<1>1. /\ V # Bad /\ Len(V) \in Nat /\ DOMAIN V = 1..Len(V) /\ f.segment \in Nat \ {0}
      /\ ~(f.segment <= Len(V)) /\ \A j \in 1..(f.segment - 1) : ~SegmentHolds(s, V[j])
  BY SegmentsReadable
<1>2. \A j \in DOMAIN V : ~SegmentHolds(s, V[j])
  <2> HIDE DEF V
  <2>1. \A j \in DOMAIN V : j \in 1..(f.segment - 1)
    BY <1>1
  <2> QED
    BY <1>1, <2>1, Zenon
<1>3. ~SomeSegment(s, Clause(f))
  BY <1>2, Zenon DEF SomeSegment, Range
<1>4. ClauseOK(Clause(f))
  BY ClausesReadable DEF ClauseReached
<1>5. maybeNegate(Clause(f), Verdict(FALSE)) = Verdict(ClauseHolds(s, Clause(f)))
  BY <1>3, <1>4, SegmentClauseMeans
<1>6. Verdict(FALSE) = "MISS"
  BY Zenon DEF Verdict
<1>7. maybeNegate(Clause(f), "MISS") = Verdict(ClauseHolds(s, Clause(f)))
  BY <1>5, <1>6, Zenon
<1>8. QuietFrame(ruleMatchesUser(f, Verdict(ClauseHolds(s, Clause(f)))), s, M)
  BY ClauseQuiet
<1> QED
  BY <1>1, <1>7, <1>8, Zenon

(* The loop over the segments goes on.                                     *)
LEMMA NextSegmentQuiet ==
    ASSUME NEW f, NEW s, NEW M, Sound(f, s, M), f.at = "clauses", MoreClauses(f),
           IsSegmentMatch(Clause(f)), MoreSegments(f),
           ~SegmentHolds(s, Clause(f).values[f.segment])
    PROVE  QuietFrame([f EXCEPT !.segment = @ + 1], s, M)
<1> DEFINE V == Clause(f).values
           C == RuleIn(s, f).clauses
           g == [f EXCEPT !.segment = @ + 1]
<1>1. /\ Len(V) \in Nat /\ f.segment \in Nat \ {0}
      /\ f.segment <= Len(V) /\ \A j \in 1..(f.segment - 1) : ~SegmentHolds(s, V[j])
  BY SegmentsReadable
<1>2. /\ PassedAll(f, s, M) /\ MissedUpTo(f, s, f.rule - 1) /\ HeldUpTo(f, s)
      /\ f.rule \in Nat \ {0} /\ f.clause \in Nat \ {0} /\ f.i \in Nat \ {0}
      /\ f.version = s.version[f.key] /\ f.details = NoDetails
  BY DEF Sound, QuietFrame, Progress
<1>3. Clause(f) = C[f.clause]
  BY ClausesReadable DEF ClauseReached
<1>4. DOMAIN f = FrameFields
  BY DEF Sound
<1>5. /\ g.at = "clauses" /\ g.key = f.key /\ g.version = f.version /\ g.i = f.i
      /\ g.rule = f.rule /\ g.clause = f.clause /\ g.segment = f.segment + 1
      /\ g.details = f.details /\ g.events = f.events
  BY <1>4 DEF FrameFields
<1> HIDE DEF g
<1>6. PassedAll(g, s, M) /\ MissedUpTo(g, s, g.rule - 1)
  BY <1>2, <1>5 DEF PassedAll, PassedUpTo, MissedUpTo, FlagIn
<1>7. HeldUpTo(g, s)
  <2>1. /\ FlagIn(s, g).rules[g.rule].clauses = C /\ FlagIn(s, g) = FlagIn(s, f)
        /\ FlagIn(s, f).rules[f.rule].clauses = C
    BY <1>5 DEF FlagIn, RuleIn
  <2>2. ASSUME NEW j \in 1..(g.segment - 1) PROVE ~SegmentHolds(s, V[j])
    <3>1. j \in 1..(f.segment - 1) \/ j = f.segment
      BY <1>1, <1>5
    <3> QED
      BY <1>1, <3>1
  <2>3. g.segment <= Len(V) + 1
    BY <1>1, <1>5
  <2>4. C[g.clause].values = V
    BY <1>3, <1>5
  <2> HIDE DEF C, V
  <2> QED
    BY <1>2, <1>5, <2>1, <2>2, <2>3, <2>4 DEF HeldUpTo
<1>8. Progress(g, s, M)
  BY <1>5, <1>6, <1>7 DEF Progress
<1>9. {g.i, g.rule, g.clause, g.segment} \subseteq Nat \ {0}
  BY <1>1, <1>2, <1>5
<1> QED
  BY <1>2, <1>5, <1>8, <1>9 DEF QuietFrame, g

(* readSegment.                                                            *)
LEMMA SegmentQuiet ==
    ASSUME NEW f, NEW s, NEW M, Sound(f, s, M), f.at = "clauses", MoreClauses(f),
           IsSegmentMatch(Clause(f)), MoreSegments(f), NEW name,
           name = Clause(f).values[f.segment], NEW segment,
           segment = IF name[1] = "text" THEN FeatureIn(s, name[2]) ELSE Absent
    PROVE  QuietFrame(afterSegment(f, segment, s.user), s, M)
<1> DEFINE V == Clause(f).values
           next == [f EXCEPT !.segment = @ + 1]
           status == segmentMatchesUser(segment, s.user)
<1>1. ClauseOK(Clause(f)) /\ ClauseLists(Clause(f))
  BY ClausesReadable DEF ClauseReached
<1>2. f.segment \in 1..Len(V) /\ DOMAIN V = 1..Len(V)
  BY SegmentsReadable
<1>3. SnapshotOK(s)
  BY SoundIs DEF SoundFlag
<1>4. ~SegmentHolds(s, name) => QuietFrame(next, s, M)
  BY NextSegmentQuiet
<1>5. CASE segment = Absent
  <2>1. ~SegmentHolds(s, name)
    BY <1>5 DEF SegmentHolds
  <2>2. afterSegment(f, segment, s.user) = next
    BY <1>5, Zenon DEF afterSegment
  <2> QED
    BY <1>4, <2>1, <2>2, Zenon
<1>6. CASE segment # Absent
  <2>1. name[1] = "text" /\ segment = FeatureIn(s, name[2])
    BY <1>6
  <2>2. name[2] \in SegmentKeys
    BY <1>1, <1>2, <2>1 DEF ClauseLists
  <2>3. SegmentOK(segment) /\ Seen(s.user)
    BY <1>3, <1>6, <2>1, <2>2 DEF SnapshotOK
  <2>4. status = Verdict(InSegment(segment, s.user))
    BY <2>3, SegmentMeans
  <2>5. InSegment(segment, s.user) <=> SegmentHolds(s, name)
    BY <1>6, <2>1, Zenon DEF SegmentHolds
  <2>6. CASE SegmentHolds(s, name)
    <3>1. status = "MATCH" /\ ~isEvalError("MATCH") /\ Verdict(TRUE) = "MATCH"
      BY <2>4, <2>5, <2>6 DEF Verdict, isEvalError
    <3>2. afterSegment(f, segment, s.user) = ruleMatchesUser(f, maybeNegate(Clause(f), "MATCH"))
      BY <1>6, <3>1, Zenon DEF afterSegment
    <3>3. SomeSegment(s, Clause(f))
      BY <1>2, <2>6, Zenon DEF SomeSegment, Range
    <3>4. maybeNegate(Clause(f), Verdict(TRUE)) = Verdict(ClauseHolds(s, Clause(f)))
      BY <1>1, <3>3, SegmentClauseMeans
    <3>5. QuietFrame(ruleMatchesUser(f, Verdict(ClauseHolds(s, Clause(f)))), s, M)
      BY ClauseQuiet
    <3> QED
      BY <3>1, <3>2, <3>4, <3>5, Zenon
  <2>7. CASE ~SegmentHolds(s, name)
    <3>1. status = "MISS" /\ ~isEvalError("MISS") /\ "MISS" # "MATCH"
      BY <2>4, <2>5, <2>7 DEF Verdict, isEvalError
    <3>2. afterSegment(f, segment, s.user) = next
      BY <1>6, <3>1, Zenon DEF afterSegment
    <3> QED
      BY <1>4, <2>7, <3>2, Zenon
  <2> QED
    BY <2>6, <2>7
<1> QED
  BY <1>5, <1>6

(* clauseMatchesUser.                                                      *)
LEMMA NoSegmentsQuiet ==
    ASSUME NEW f, NEW s, NEW M, Sound(f, s, M), f.at = "clauses", MoreClauses(f),
           ~IsSegmentMatch(Clause(f))
    PROVE  QuietFrame(ruleMatchesUser(f, clauseMatchesUserNoSegments(Clause(f), s.user)), s, M)
<1>1. ClauseOK(Clause(f)) /\ Seen(s.user)
  BY ClausesReadable, SoundIs DEF ClauseReached, SoundFlag, SnapshotOK
<1>2. clauseMatchesUserNoSegments(Clause(f), s.user) = Verdict(Holds(Clause(f), s.user))
  BY <1>1, ClauseMeans
<1>3. Verdict(ClauseHolds(s, Clause(f))) = Verdict(Holds(Clause(f), s.user))
  <2>1. ClauseHolds(s, Clause(f)) <=> Holds(Clause(f), s.user)
    BY Zenon DEF ClauseHolds
  <2> QED
    BY <2>1, Zenon DEF Verdict
<1>4. QuietFrame(ruleMatchesUser(f, Verdict(ClauseHolds(s, Clause(f)))), s, M)
  BY ClauseQuiet
<1> QED
  BY <1>2, <1>3, <1>4, Zenon

(* ruleMatches: the variation of the rule, and its id.                     *)
IsChoice(choice, index, exp) ==
    choice.ok = TRUE /\ choice.index = index /\ choice.inExperiment = exp

(* The fields of a choice.                                                 *)
LEMMA ChoiceIs ==
    ASSUME NEW choice, NEW index, NEW exp, choice = Choice(index, exp)
    PROVE  IsChoice(choice, index, exp)
BY DEF Choice, IsChoice

(* The frame has the rule's variation, position and id.                    *)
LEMMA RuleServedIs ==
    ASSUME NEW f, NEW s, NEW M, Sound(f, s, M), f.at # "returned", Rule(f).id # Bad,
           NEW choice, choice.ok = TRUE, VariationOK(FeatureIn(s, f.key), choice.index)
    PROVE  ServedShape(ruleServed(f, choice, TRUE, TRUE), f, FeatureIn(s, f.key), "RULE_MATCH",
                       RuleDetails(f, Rule(f).id, choice.inExperiment), choice.index, "MATCH")
<1> DEFINE flag == FeatureIn(s, f.key)
           index == choice.index
           exp == choice.inExperiment
           id == Rule(f).id
           extra(i) == RuleDetails(f, i, exp)
           g == Served([f EXCEPT !.details = Because(@, "RULE_MATCH", extra(Absent))],
                       index, TRUE, "MATCH")
           yes == TRUE
<1>1. ServedShape(g, f, flag, "RULE_MATCH", extra(Absent), index, "MATCH")
  BY ServedIs
<1>2. index # Absent
  BY Zenon DEF VariationOK
<1> HIDE DEF yes
<1>3. /\ DOMAIN g = FrameFields /\ g.at = "returned" /\ g.status = "MATCH"
      /\ g.details = DetailsOf("RULE_MATCH", extra(Absent), yes, index)
      /\ g.value = flag.variations[index + 1]
      /\ \A x \in FrameFields \ {"details", "value", "at", "status"} : g[x] = f[x]
  BY <1>1, <1>2, Zenon DEF ServedShape, yes
<1>4. ruleServed(f, choice, TRUE, TRUE) = IF id = Absent THEN g ELSE [g EXCEPT !.details.extra.id = id]
  <2>1. g.status # "MEM"
    BY <1>3
  <2> QED
    BY <2>1, Zenon DEF ruleServed
<1>5. CASE id = Absent
  BY <1>1, <1>4, <1>5, Zenon
<1>6. CASE id # Absent
  <2> DEFINE h == [g EXCEPT !.details.extra.id = id]
  <2>1. [extra(Absent) EXCEPT !.id = id] = extra(id)
    BY DEF RuleDetails
  <2> HIDE DEF g, extra
  <2>2. h.details = [DetailsOf("RULE_MATCH", extra(Absent), yes, index) EXCEPT !.extra.id = id]
    BY <1>3 DEF FrameFields
  <2>3. DetailsOf("RULE_MATCH", extra(Absent), yes, index).extra = extra(Absent)
    BY DEF DetailsOf
  <2>4. [DetailsOf("RULE_MATCH", extra(Absent), yes, index) EXCEPT !.extra = extra(id)]
          = DetailsOf("RULE_MATCH", extra(id), yes, index)
    BY DEF DetailsOf
  <2>5. h.details = DetailsOf("RULE_MATCH", extra(id), yes, index)
    BY <2>1, <2>2, <2>3, <2>4, Zenon
  <2>6. /\ DOMAIN h = FrameFields /\ h.at = "returned" /\ h.status = "MATCH"
        /\ h.value = flag.variations[index + 1]
        /\ \A x \in FrameFields \ {"details", "value", "at", "status"} : h[x] = f[x]
    BY <1>3 DEF FrameFields
  <2> HIDE DEF h
  <2>7. ServedShape(h, f, flag, "RULE_MATCH", extra(id), index, "MATCH")
    BY <1>2, <2>5, <2>6, Zenon DEF ServedShape, yes
  <2> QED
    BY <1>4, <1>6, <2>7, Zenon DEF h, extra
<1> QED
  BY <1>5, <1>6

(* The first rule whose clauses all hold decides.                          *)
LEMMA RuleMatchQuiet ==
    ASSUME NEW f, NEW s, NEW M, Sound(f, s, M), f.at = "clauses", ~MoreClauses(f)
    PROVE  QuietFrame(ruleServed(f, getIndexForVariationOrRollout(FlagOf(f), Rule(f).serve, s.user),
                                 TRUE, TRUE), s, M)
<1> DEFINE flag == FeatureIn(s, f.key)
           share == Share(s, flag, Rule(f).serve)
           choice == getIndexForVariationOrRollout(FlagOf(f), Rule(f).serve, s.user)
           C == RuleIn(s, f).clauses
           extra == RuleDetails(f, Rule(f).id, choice.inExperiment)
           R == Rules(s, flag)
<1>1. SoundFlag(f, s, M)
  BY SoundIs
<1>2. /\ FlagOf(f) = flag /\ FlagOK(flag) /\ MeantOK(s, M) /\ f.key \in FlagKeys /\ flag # Absent
  BY <1>1 DEF SoundFlag
<1>3. /\ f.rule \in 1..Len(flag.rules) /\ Rule(f) = RuleIn(s, f) /\ RuleOK(flag, Rule(f))
      /\ ~(f.clause <= Len(C))
  BY ClausesReadable
<1>4. ServeOK(flag, Rule(f).serve) /\ Rule(f).id # Bad
  BY <1>3, Zenon DEF RuleOK
<1>5. choice = Choice(share.index, share.inExperiment) /\ VariationOK(flag, share.index)
  BY <1>2, <1>4, ShareServed
<1>6. /\ choice.ok = TRUE /\ choice.index = share.index /\ choice.inExperiment = share.inExperiment
  <2>1. IsChoice(choice, share.index, share.inExperiment)
    BY <1>5, ChoiceIs
  <2> QED
    BY <2>1, Zenon DEF IsChoice
<1>7. ServedShape(ruleServed(f, choice, TRUE, TRUE), f, flag, "RULE_MATCH", extra, choice.index, "MATCH")
  <2> HIDE DEF choice, share
  <2>1. VariationOK(flag, choice.index)
    BY <1>5, <1>6
  <2> QED
    BY <1>4, <1>6, <2>1, RuleServedIs
<1>8. f.rule \in R
  <2>1. HeldUpTo(f, s) /\ f.clause \in Nat \ {0}
    BY DEF Sound, QuietFrame, Progress
  <2>2. RuleLists(RuleIn(s, f))
    BY <1>3, RuleListsAre
  <2>3. DOMAIN C = 1..Len(C) /\ Len(C) \in Nat
    BY <2>2 DEF RuleLists, Listed
  <2>4. \A j \in 1..(f.clause - 1) : ClauseHolds(s, C[j])
    BY <2>1 DEF HeldUpTo, FlagIn, RuleIn
  <2>5. \A j \in DOMAIN C : ClauseHolds(s, C[j])
    <3> HIDE DEF C
    <3>1. \A j \in DOMAIN C : j \in 1..(f.clause - 1)
      BY <1>3, <2>1, <2>3
    <3> QED
      BY <2>4, <3>1, Zenon
  <2>6. RuleHolds(s, flag.rules[f.rule])
    BY <2>5, Zenon DEF RuleHolds, RuleIn, Range
  <2>7. f.rule \in DOMAIN flag.rules
    BY <1>2, <1>3, FlagListsAre DEF FlagLists, Listed
  <2> QED
    BY <2>6, <2>7, Zenon DEF Rules
<1>9. Min(R) = f.rule
  <2>1. MissedUpTo(f, s, f.rule - 1)
    BY DEF Sound, QuietFrame, Progress
  <2>2. \A j \in 1..(f.rule - 1) : j \notin R
    BY <2>1 DEF MissedUpTo, FlagIn
  <2>3. R \in SUBSET (1..Len(flag.rules)) /\ Len(flag.rules) \in Nat
    BY <1>2, FlagListsAre DEF FlagLists, Listed, Rules
  <2> HIDE DEF R
  <2>4. \A j \in R : f.rule <= j
    BY <1>3, <2>2, <2>3
  <2>5. R \in SUBSET Nat
    BY <2>3
  <2> QED
    BY <1>8, <2>4, <2>5, FirstIs
<1>10. /\ AllPassed(s, f.key, M) /\ f.events = AllEvents(s, f.key, M) /\ Targets(s, flag) = {}
  BY PassedAllIs
<1>11. M[f.key] = As(flag, "RULE_MATCH",
                     [ruleIndex |-> f.rule - 1, id |-> flag.rules[f.rule].id,
                      inExperiment |-> Share(s, flag, flag.rules[f.rule].serve).inExperiment],
                     Share(s, flag, flag.rules[f.rule].serve).index, AllEvents(s, f.key, M))
  <2>1. R # {} /\ f.rule = Min(R)
    BY <1>8, <1>9
  <2> QED
    BY <1>2, <1>10, <2>1, MeantRule, Zenon
<1>12. extra = [ruleIndex |-> f.rule - 1, id |-> Rule(f).id, inExperiment |-> share.inExperiment]
  BY <1>6, Zenon DEF RuleDetails
<1>13. M[f.key] = As(flag, "RULE_MATCH", extra, choice.index, f.events)
  <2>1. Rule(f) = flag.rules[f.rule]
    BY <1>3, Zenon DEF RuleIn
  <2> QED
    BY <1>6, <1>10, <1>11, <1>12, <2>1, Zenon
<1>14. "MATCH" = IF "RULE_MATCH" \in {"OFF", "PREREQUISITE_FAILED"} THEN "MISS" ELSE "MATCH"
  OBVIOUS
<1> HIDE DEF extra, choice
<1> QED
  BY <1>7, <1>13, <1>14, ShapeMeans, Zenon DEF choice

(* evaluateFallthrough.                                                    *)
LEMMA FallthroughQuiet ==
    ASSUME NEW f, NEW s, NEW M, Sound(f, s, M), f.at = "fallthrough",
           NEW choice, choice = getIndexForVariationOrRollout(FlagOf(f), FlagOf(f).fallthrough, s.user)
    PROVE  /\ choice.ok = TRUE
           /\ QuietFrame(Served([f EXCEPT !.details =
                                    Because(@, "FALLTHROUGH", [inExperiment |-> choice.inExperiment])],
                                choice.index, TRUE, "MATCH"), s, M)
<1> DEFINE flag == FeatureIn(s, f.key)
           share == Share(s, flag, flag.fallthrough)
           extra == [inExperiment |-> choice.inExperiment]
<1>1. SoundFlag(f, s, M)
  BY SoundIs
<1>2. /\ FlagOf(f) = flag /\ FlagOK(flag) /\ MeantOK(s, M) /\ f.key \in FlagKeys /\ flag # Absent
  BY <1>1 DEF SoundFlag
<1>3. ServeOK(flag, flag.fallthrough)
  BY <1>2, Zenon DEF FlagOK
<1>4. choice = Choice(share.index, share.inExperiment) /\ VariationOK(flag, share.index)
  BY <1>2, <1>3, ShareServed
<1>5. /\ choice.ok = TRUE /\ choice.index = share.index /\ choice.inExperiment = share.inExperiment
  <2>1. IsChoice(choice, share.index, share.inExperiment)
    BY <1>4, ChoiceIs
  <2> QED
    BY <2>1, Zenon DEF IsChoice
<1>6. /\ AllPassed(s, f.key, M) /\ f.events = AllEvents(s, f.key, M) /\ Targets(s, flag) = {}
  BY PassedAllIs
<1>7. Rules(s, flag) = {}
  BY DEF Sound, QuietFrame, Progress, FlagIn
<1>8. M[f.key] = As(flag, "FALLTHROUGH", [inExperiment |-> share.inExperiment], share.index,
                    AllEvents(s, f.key, M))
  BY <1>2, <1>6, <1>7, MeantFallthrough, Zenon
<1>9. M[f.key] = As(flag, "FALLTHROUGH", extra, choice.index, f.events)
  BY <1>5, <1>6, <1>8, Zenon
<1>10. "MATCH" = IF "FALLTHROUGH" \in {"OFF", "PREREQUISITE_FAILED"} THEN "MISS" ELSE "MATCH"
  OBVIOUS
<1>11. VariationOK(flag, choice.index)
  BY <1>4, <1>5, Zenon
<1> HIDE DEF extra
<1>12. QuietFrame(Served([f EXCEPT !.details = Because(@, "FALLTHROUGH", extra)],
                         choice.index, TRUE, "MATCH"), s, M)
  BY <1>9, <1>10, <1>11, ServedMeans
<1> QED
  BY <1>5, <1>12 DEF extra

-----------------------------------------------------------------------------
(* The frames of the stack, while nothing disturbs the call.               *)

(* The snapshot shows the features in the store.                           *)
LEMMA FeaturesOfSnapshot ==
    /\ \A k : FeatureIn(Snapshot, k) = Feature(k)
    /\ Snapshot.user = user /\ Snapshot.version = version
<1>1. Snapshot.world = world /\ Snapshot.user = user /\ Snapshot.version = version
  BY DEF Snapshot
<1> QED
  BY <1>1, Zenon DEF FeatureIn, Feature, Versions

(* A flag of a well-formed world and its prerequisites.                    *)
PrerequisiteKeys(flag) ==
    IF flag = Absent THEN {}
    ELSE IF flag.prerequisites \in {Absent, Bad} THEN {}
    ELSE {p.key : p \in Range(flag.prerequisites)} \ {Bad}

(* They are the keys of its prerequisites.                                 *)
LEMMA PrerequisiteKeysAre ==
    ASSUME NEW flag, flag # Absent, FlagOK(flag), NEW i \in DOMAIN flag.prerequisites
    PROVE  flag.prerequisites[i].key \in PrerequisiteKeys(flag)
<1> DEFINE P == flag.prerequisites
<1>1. P \notin {Absent, Bad} /\ \A p \in Range(P) : p.key # Bad
  BY Zenon DEF FlagOK, ListOf
<1>2. P[i] \in Range(P)
  BY Zenon DEF Range
<1>3. PrerequisiteKeys(flag) = {p.key : p \in Range(P)} \ {Bad}
  BY <1>1, Zenon DEF PrerequisiteKeys
<1> HIDE DEF P
<1> QED
  BY <1>1, <1>2, <1>3 DEF P

RanksOf(current) ==
    {rank \in [FlagKeys -> 1..Cardinality(FlagKeys)] :
        \A k \in FlagKeys : \A p \in PrerequisiteKeys(Versions(k)[current[k]]) : rank[p] < rank[k]}

(* Prerequisites are free of cycles when the flags can be ranked.          *)
LEMMA AcyclicRanks ==
    ASSUME NEW current
    PROVE  Acyclic(current) <=> RanksOf(current) # {}
BY Zenon DEF Acyclic, RanksOf, PrerequisiteKeys

(* In a well-formed world every flag has a meaning.                        *)
LEMMA QuietMeans ==
    ASSUME Inv, StoryInv, QuietInv, world \in WellFormed, Plain(user)
    PROVE  MeantOK(Snapshot, Meant)
<1> DEFINE s == Snapshot
<1>1. \A k : FeatureIn(s, k) = Feature(k)
  BY FeaturesOfSnapshot
<1>2. world \in WellFormed /\ Plain(user) /\ user \in Users
  BY DEF QuietInv
<1>3. Seen(s.user)
  BY <1>2, UsersAssumption, FeaturesOfSnapshot DEF Seen
<1>4. \A k \in Keys : version[k] \in DOMAIN Versions(k)
  BY DEF StoryInv, VersionsOK
<1>5. ASSUME NEW k \in FlagKeys, Feature(k) # Absent PROVE FlagOK(Feature(k))
  BY <1>2, <1>4, <1>5, FollowsSchema DEF Feature, Versions, Keys
<1>6. ASSUME NEW k \in SegmentKeys, Feature(k) # Absent PROVE SegmentOK(Feature(k))
  BY <1>2, <1>4, <1>6, FollowsSchema DEF Feature, Versions, Keys
<1>7. RanksIn(s) # {}
  <2>1. RanksOf(version) # {}
    BY AcyclicRanks DEF QuietInv
  <2>2. PICK rank \in [FlagKeys -> 1..Cardinality(FlagKeys)] :
          \A k \in FlagKeys : \A p \in PrerequisiteKeys(Feature(k)) : rank[p] < rank[k]
    BY <2>1 DEF RanksOf, Feature
  <2>3. ASSUME NEW k \in FlagKeys, FeatureIn(s, k) # Absent, NEW i \in DOMAIN PrerequisitesIn(s, k)
        PROVE  rank[PrerequisitesIn(s, k)[i].key] < rank[k]
    <3>1. FeatureIn(s, k) = Feature(k) /\ Feature(k) # Absent /\ FlagOK(Feature(k))
      BY <1>1, <1>5, <2>3
    <3>2. PrerequisitesIn(s, k) = Feature(k).prerequisites
      BY <3>1, Zenon DEF PrerequisitesIn
    <3>3. PrerequisitesIn(s, k)[i].key \in PrerequisiteKeys(Feature(k))
      BY <2>3, <3>1, <3>2, PrerequisiteKeysAre
    <3> QED
      BY <2>2, <3>3
  <2>4. rank \in RanksIn(s)
    BY <2>3 DEF RanksIn
  <2> QED
    BY <2>4
<1>8. SnapshotOK(s)
  BY <1>1, <1>3, <1>5, <1>6, <1>7 DEF SnapshotOK
<1>9. \A k \in FlagKeys : Reference(s)[k] = Meaning(s, k, Reference(s))
  BY <1>8, ReferenceUnfolds
<1> QED
  BY <1>8, <1>9, Zenon DEF MeantOK, Meant

(* Each frame of the stack is sound.                                       *)
LEMMA FramesSound ==
    ASSUME Inv, StoryInv, QuietInv, Quiet, NEW n \in 1..Len(stack)
    PROVE  Sound(stack[n], Snapshot, Meant)
<1> DEFINE f == stack[n]
<1>1. FrameOK(f) /\ DOMAIN stack = 1..Len(stack)
  BY DEF Inv, StackOK, IsSequence
<1>2. f \in Range(stack)
  BY <1>1 DEF Range
<1>3. Story(f) /\ QuietFrame(f, Snapshot, Meant)
  BY <1>2 DEF StoryInv, QuietInv
<1>4. f.key \in FlagKeys
  BY <1>3 DEF Story
<1>5. f.version = version[f.key]
  BY <1>3, FeaturesOfSnapshot DEF QuietFrame
<1>6. FlagOf(f) = FeatureIn(Snapshot, f.key)
  BY <1>5, FeaturesOfSnapshot DEF FlagOf, Feature
<1>7. DOMAIN f = FrameFields /\ (f.at # "returned" => f.value = Absent) /\ FlagOf(f) # Absent
  BY <1>1 DEF FrameOK
<1>8. MeantOK(Snapshot, Meant)
  BY QuietMeans DEF Quiet
<1> HIDE DEF f
<1> QED
  BY <1>3, <1>4, <1>6, <1>7, <1>8 DEF Sound, f

(* A step that writes nothing leaves the flags' meaning as it is.          *)
LEMMA MeaningStays ==
    ASSUME UNCHANGED <<world, user, version>>
    PROVE  /\ Snapshot' = Snapshot /\ Meant' = Meant
           /\ Acyclic(version) => Acyclic(version)'
           /\ (quiet' => quiet) => (Quiet' => Quiet)
<1>1. Snapshot' = Snapshot
  BY DEF Snapshot
<1>2. Meant' = Meant
  BY <1>1 DEF Meant
<1>3. Acyclic(version) => Acyclic(version)'
  BY DEF Acyclic, Versions
<1> QED
  BY <1>1, <1>2, <1>3 DEF Quiet

(* A step of LDi_evaluate keeps the invariant when it keeps it of each     *)
(* frame.                                                                  *)
LEMMA QuietGoesOn ==
    ASSUME QuietInv, pc = "evaluate", UNCHANGED <<store, outcome>>, quiet' => quiet,
           Quiet' => \A f \in Range(stack') : QuietFrame(f, Snapshot, Meant)
    PROVE  QuietInv'
<1>1. UNCHANGED <<world, user, version, pc, details>>
  BY DEF store, outcome
<1>2. Snapshot' = Snapshot /\ Meant' = Meant /\ Acyclic(version)'
  BY <1>1, MeaningStays DEF QuietInv
<1>3. \A f : QuietFrame(f, Snapshot, Meant) => QuietFrame(f, Snapshot', Meant')
  BY <1>2
<1>4. Quiet' => \A f \in Range(stack') : QuietFrame(f, Snapshot', Meant')
  BY <1>3
<1>5. QuietEvaluation'
  BY <1>1 DEF QuietEvaluation
<1> QED
  BY <1>1, <1>2, <1>4, <1>5 DEF QuietInv

(* A step within the innermost frame.                                      *)
LEMMA SetTopQuiet ==
    ASSUME Inv, StoryInv, QuietInv, pc = "evaluate", NEW g, SetTop(g),
           UNCHANGED <<store, outcome>>, quiet' => quiet,
           Quiet' => QuietFrame(g, Snapshot, Meant)
    PROVE  QuietInv'
<1>1. UNCHANGED <<world, user, version>>
  BY DEF store
<1>2. /\ DOMAIN stack' = 1..Len(stack)
      /\ \A n \in 1..Len(stack) : stack'[n] = IF n = Len(stack) THEN g ELSE stack[n]
  BY SetTopStack DEF IsSequence
<1>3. ASSUME Quiet', NEW f \in Range(stack') PROVE QuietFrame(f, Snapshot, Meant)
  <2>1. Quiet
    BY <1>1, <1>3, MeaningStays
  <2>2. PICK n \in 1..Len(stack) : f = stack'[n]
    BY <1>2 DEF Range
  <2>3. QuietFrame(stack[n], Snapshot, Meant)
    BY <2>1, FramesSound DEF Sound
  <2>4. f = g \/ f = stack[n]
    BY <1>2, <2>2
  <2> QED
    BY <1>3, <2>3, <2>4
<1> QED
  BY <1>3, QuietGoesOn

(* Nothing is lost of the user when no memory is lacking.                  *)
LEMMA SeeingNothingLost ==
    ASSUME user \in Users, NEW lost, lost = {}
    PROVE  Seeing(lost) = user
<1>1. user = [key |-> user.key, secondary |-> user.secondary,
              attributes |-> user.attributes, lost |-> {}]
  BY UsersAssumption
<1> QED
  BY <1>1 DEF Seeing

(* The parts of LDi_evaluate that change the innermost frame only.         *)
LEMMA LocalQuiet ==
    ASSUME Inv, StoryInv, QuietInv,
           \/ evaluateOn
           \/ \E memory \in BOOLEAN :
                evaluateOff(memory) \/ prerequisiteFailed(memory) \/ evaluateTargets(memory)
           \/ checkPrerequisitesEnds \/ readPrerequisiteFails \/ prerequisiteFailedNoMemory
           \/ evaluateRules \/ segmentsEnd \/ readSegmentFails
           \/ \E lost \in Lost : clauseMatchesUser(lost) \/ readSegment(lost)
           \/ \E lost \in Lost, memory \in BOOLEAN :
                \/ evaluateFallthrough(lost, memory)
                \/ \E idMemory \in BOOLEAN : ruleMatches(lost, memory, idMemory)
    PROVE  QuietInv'
<1> DEFINE s == Snapshot
           M == Meant
           f == Top
           Step == \E g : SetTop(g) /\ (Quiet' => QuietFrame(g, s, M))
<1>1. pc = "evaluate" /\ UNCHANGED <<store, outcome>> /\ (quiet' => quiet)
  <2>1. pc = "evaluate" /\ UNCHANGED <<store, outcome>>
    BY DEF At, Local, evaluateOn, evaluateOff, prerequisiteFailed, evaluateTargets,
           checkPrerequisitesEnds, readPrerequisiteFails, ReadsPrerequisite,
           prerequisiteFailedNoMemory, evaluateRules, segmentsEnd, SegmentClause,
           readSegmentFails, ReadsSegment, clauseMatchesUser, readSegment,
           evaluateFallthrough, ruleMatches
  <2>2. ASSUME NEW memory, Allocates(memory) PROVE quiet' => quiet
    BY <2>2, Zenon DEF Allocates
  <2>3. quiet' = quiet \/ quiet' = FALSE \/ \E memory : Allocates(memory)
    BY Zenon DEF evaluateOn, evaluateOff, prerequisiteFailed, evaluateTargets,
           checkPrerequisitesEnds, readPrerequisiteFails,
           prerequisiteFailedNoMemory, evaluateRules, segmentsEnd,
           readSegmentFails, clauseMatchesUser, readSegment, evaluateFallthrough, ruleMatches
  <2>4. quiet' => quiet
    <3>1. CASE quiet' = quiet \/ quiet' = FALSE
      BY <3>1
    <3>2. CASE \E memory : Allocates(memory)
      BY <2>2, <3>2
    <3> QED
      BY <2>3, <3>1, <3>2
  <2> QED
    BY <2>1, <2>4
<1> SUFFICES Step
  BY <1>1, SetTopQuiet
<1>2. Quiet' => Quiet /\ quiet'
  BY <1>1, MeaningStays DEF store, Quiet
<1>3. Len(stack) \in 1..Len(stack) /\ f = stack[Len(stack)]
  BY <1>1, TopIsAFrame
<1>4. Quiet' => Sound(f, s, M)
  BY <1>2, <1>3, FramesSound
<1>5. /\ s.user = user /\ user \in Users /\ \A k : FeatureIn(s, k) = Feature(k)
  BY FeaturesOfSnapshot DEF QuietInv
<1> HIDE DEF s, M, f
<1>6. CASE readPrerequisiteFails \/ prerequisiteFailedNoMemory \/ readSegmentFails
  <2>1. ~Quiet'
    BY <1>6 DEF readPrerequisiteFails, prerequisiteFailedNoMemory, readSegmentFails, Quiet
  <2> QED
    BY <1>6, <2>1 DEF readPrerequisiteFails, prerequisiteFailedNoMemory, readSegmentFails
<1>7. CASE evaluateOn
  <2>1. /\ f.at = "on" /\ FlagOf(f).on # FALSE
        /\ SetTop(IF FlagOf(f).on = Bad THEN Returned(f, "SCHEMA") ELSE [f EXCEPT !.at = "prerequisites"])
    BY <1>7 DEF evaluateOn, At, f
  <2>2. Quiet' => FlagOf(f).on # Bad /\ QuietFrame([f EXCEPT !.at = "prerequisites"], s, M)
    BY <1>4, <2>1, OnQuiet
  <2> QED
    BY <2>1, <2>2, Zenon
<1>8. ASSUME NEW memory \in BOOLEAN, evaluateOff(memory) PROVE Step
  <2> DEFINE g(m) == Served([f EXCEPT !.details = Because(@, "OFF", Absent)],
                            FlagOf(f).offVariation, m, "MISS")
  <2>1. /\ f.at = "on" /\ FlagOf(f).on = FALSE /\ SetTop(g(memory)) /\ (quiet' => memory = TRUE)
    BY <1>8 DEF evaluateOff, At, f, Allocates
  <2>2. Quiet' => QuietFrame(g(TRUE), s, M)
    BY <1>4, <2>1, OffQuiet
  <2> HIDE DEF g
  <2> QED
    BY <1>2, <2>1, <2>2, Zenon
<1>9. ASSUME NEW memory \in BOOLEAN, prerequisiteFailed(memory) PROVE Step
  <2> DEFINE g(m) == Served([f EXCEPT !.details = Because(@, "PREREQUISITE_FAILED", Prerequisite(f).key)],
                            FlagOf(f).offVariation, m, "MISS")
  <2>1. /\ f.at = "failed" /\ SetTop(g(memory)) /\ (quiet' => memory = TRUE)
    BY <1>9 DEF prerequisiteFailed, At, f, Allocates
  <2>2. Quiet' => QuietFrame(g(TRUE), s, M)
    BY <1>4, <2>1, FailedQuiet
  <2> HIDE DEF g
  <2> QED
    BY <1>2, <2>1, <2>2, Zenon
<1>10. CASE checkPrerequisitesEnds
  <2>1. /\ f.at = "prerequisites" /\ (MalformedPrerequisite(f) \/ ~MorePrerequisites(f))
        /\ SetTop(IF MalformedPrerequisite(f) THEN Returned(f, "SCHEMA") ELSE [f EXCEPT !.at = "targets"])
    BY <1>10 DEF checkPrerequisitesEnds, At, f
  <2>2. Quiet' => ~MalformedPrerequisite(f)
    BY <1>4, PrerequisitesReadable
  <2>3. Quiet' => QuietFrame([f EXCEPT !.at = "targets"], s, M)
    BY <1>4, <2>1, <2>2, EndsQuiet
  <2> QED
    BY <2>1, <2>2, <2>3, Zenon
<1>11. ASSUME NEW memory \in BOOLEAN, evaluateTargets(memory) PROVE Step
  <2> DEFINE T == FlagOf(f).targets
             hit == IF T = Absent THEN 0 ELSE TargetHit(T)
             g(m) == Served([f EXCEPT !.details = Because(@, "TARGET_MATCH", Absent)],
                            T[hit].variation, m, "MATCH")
             h == [f EXCEPT !.at = "rules"]
             I == Targets(s, FeatureIn(s, f.key))
  <2>1. /\ f.at = "targets" /\ (quiet' => memory = TRUE)
        /\ SetTop(IF T = Bad THEN Returned(f, "SCHEMA") ELSE IF hit = 0 THEN h
                  ELSE IF T[hit].values = Bad THEN Returned(f, "SCHEMA") ELSE g(memory))
    BY <1>11, Zenon DEF evaluateTargets, At, f, Allocates
  <2>2. ASSUME Quiet'
        PROVE  /\ T # Bad /\ (hit = 0 => QuietFrame(h, s, M))
               /\ hit # 0 => T[hit].values # Bad /\ QuietFrame(g(TRUE), s, M)
    <3>1. SoundFlag(f, s, M)
      BY <1>4, <2>2, SoundIs
    <3>2. FlagOf(f) = FeatureIn(s, f.key) /\ FlagOK(FeatureIn(s, f.key))
      BY <3>1 DEF SoundFlag
    <3>3. T = FeatureIn(s, f.key).targets /\ T # Bad /\ T # Absent
          /\ \A i \in 1..Len(T) : T[i].values # Bad
      BY <3>2, FlagListsAre DEF FlagLists, Listed, TargetOK
    <3>4. hit = FirstOrZero(I) /\ I \in SUBSET (Nat \ {0}) /\ I \in SUBSET (1..Len(T))
      BY <1>5, <3>2, <3>3, TargetHitIs
    <3>5. (hit = 0 <=> I = {}) /\ (I # {} => hit \in I)
      BY <3>4, FirstOrZeroIs
    <3>6. hit = 0 => QuietFrame(h, s, M)
      BY <1>4, <2>1, <2>2, <3>5, NoTargetQuiet
    <3>7. ASSUME hit # 0 PROVE T[hit].values # Bad /\ QuietFrame(g(TRUE), s, M)
      <4>1. I # {} /\ hit = Min(I) /\ hit \in 1..Len(FeatureIn(s, f.key).targets)
        BY <3>3, <3>4, <3>5, <3>7 DEF FirstOrZero
      <4> HIDE DEF hit
      <4>2. QuietFrame(g(TRUE), s, M)
        BY <1>4, <2>1, <2>2, <4>1, TargetQuiet
      <4> QED
        BY <3>3, <4>1, <4>2
    <3> QED
      BY <3>3, <3>6, <3>7
  <2> HIDE DEF g, h, T, hit
  <2> QED
    BY <1>2, <2>1, <2>2, Zenon
<1>12. CASE evaluateRules
  <2>1. /\ f.at = "rules"
        /\ SetTop(IF FlagOf(f).rules = Bad THEN Returned(f, "SCHEMA")
                  ELSE IF ~MoreRules(f) THEN [f EXCEPT !.at = "fallthrough"]
                  ELSE IF Rule(f).clauses = Bad THEN Returned(f, "SCHEMA")
                  ELSE [f EXCEPT !.at = "clauses"])
    BY <1>12, Zenon DEF evaluateRules, At, f
  <2>2. Quiet' => FlagOf(f).rules # Bad
    BY <1>4, RulesReadable
  <2>3. Quiet' /\ ~MoreRules(f) => QuietFrame([f EXCEPT !.at = "fallthrough"], s, M)
    BY <1>4, <2>1, NoRuleQuiet
  <2>4. Quiet' /\ MoreRules(f) => Rule(f).clauses # Bad /\ QuietFrame([f EXCEPT !.at = "clauses"], s, M)
    BY <1>4, <2>1, RuleQuiet
  <2> QED
    BY <2>1, <2>2, <2>3, <2>4, Zenon
<1>13. ASSUME NEW lost \in Lost, clauseMatchesUser(lost) PROVE Step
  <2> DEFINE g(u) == ruleMatchesUser(f, clauseMatchesUserNoSegments(Clause(f), u))
  <2>1. /\ f.at = "clauses" /\ MoreClauses(f) /\ ~IsSegmentMatch(Clause(f)) /\ SetTop(g(Seeing(lost)))
        /\ (quiet' => lost = {})
    BY <1>13 DEF clauseMatchesUser, At, f, Allocates
  <2>2. Quiet' => QuietFrame(g(s.user), s, M)
    BY <1>4, <2>1, NoSegmentsQuiet
  <2>3. Quiet' => Seeing(lost) = s.user
    BY <1>2, <1>5, <2>1, SeeingNothingLost
  <2> HIDE DEF g
  <2> QED
    BY <2>1, <2>2, <2>3, Zenon
<1>14. CASE segmentsEnd
  <2>1. /\ f.at = "clauses" /\ MoreClauses(f) /\ IsSegmentMatch(Clause(f)) /\ ~MoreSegments(f)
        /\ SetTop(ruleMatchesUser(f, IF Clause(f).values = Bad THEN "SCHEMA"
                                     ELSE maybeNegate(Clause(f), "MISS")))
    BY <1>14 DEF segmentsEnd, SegmentClause, At, f
  <2>2. Quiet' => /\ Clause(f).values # Bad
                  /\ QuietFrame(ruleMatchesUser(f, maybeNegate(Clause(f), "MISS")), s, M)
    BY <1>4, <2>1, SegmentsEndQuiet
  <2> QED
    BY <2>1, <2>2, Zenon
<1>15. ASSUME NEW lost \in Lost, readSegment(lost) PROVE Step
  <2> DEFINE name == Clause(f).values[f.segment]
             segment == IF name[1] = "text" THEN Feature(name[2]) ELSE Absent
             g(u) == afterSegment(f, segment, u)
  <2>1. /\ f.at = "clauses" /\ MoreClauses(f) /\ IsSegmentMatch(Clause(f)) /\ MoreSegments(f)
        /\ SetTop(g(Seeing(lost))) /\ (quiet' => lost = {})
    BY <1>15, Zenon DEF readSegment, ReadsSegment, SegmentClause, At, f, Allocates
  <2>2. segment = IF name[1] = "text" THEN FeatureIn(s, name[2]) ELSE Absent
    BY <1>5, Zenon
  <2>3. Quiet' => QuietFrame(g(s.user), s, M)
    <3> HIDE DEF segment
    <3> QED
      BY <1>4, <2>1, <2>2, SegmentQuiet
  <2>4. Quiet' => Seeing(lost) = s.user
    BY <1>2, <1>5, <2>1, SeeingNothingLost
  <2> HIDE DEF g
  <2> QED
    BY <2>1, <2>3, <2>4, Zenon
<1>16. ASSUME NEW lost \in Lost, NEW memory \in BOOLEAN, evaluateFallthrough(lost, memory)
       PROVE  Step
  <2> DEFINE choice(u) == getIndexForVariationOrRollout(FlagOf(f), FlagOf(f).fallthrough, u)
             e(u) == [f EXCEPT !.details = Because(@, "FALLTHROUGH",
                                                   [inExperiment |-> choice(u).inExperiment])]
             g(u, m) == Served(e(u), choice(u).index, m, "MATCH")
  <2>1. /\ f.at = "fallthrough" /\ (quiet' => lost = {} /\ memory = TRUE)
        /\ SetTop(IF choice(Seeing(lost)).ok THEN g(Seeing(lost), memory)
                  ELSE Returned(e(Seeing(lost)), "SCHEMA"))
    BY <1>16, Zenon DEF evaluateFallthrough, At, f, Allocates
  <2>2. Quiet' => choice(s.user).ok = TRUE /\ QuietFrame(g(s.user, TRUE), s, M)
    BY <1>4, <2>1, FallthroughQuiet
  <2>3. Quiet' => Seeing(lost) = s.user
    BY <1>2, <1>5, <2>1, SeeingNothingLost
  <2> HIDE DEF choice, e, g
  <2> QED
    BY <1>2, <2>1, <2>2, <2>3, Zenon
<1>17. ASSUME NEW lost \in Lost, NEW memory \in BOOLEAN, NEW idMemory \in BOOLEAN,
              ruleMatches(lost, memory, idMemory)
       PROVE  Step
  <2> DEFINE g(u, m, i) == ruleServed(f, getIndexForVariationOrRollout(FlagOf(f), Rule(f).serve, u), m, i)
  <2>1. /\ f.at = "clauses" /\ ~MoreClauses(f) /\ SetTop(g(Seeing(lost), memory, idMemory))
        /\ (quiet' => lost = {} /\ memory = TRUE /\ idMemory = TRUE)
    BY <1>17, Zenon DEF ruleMatches, At, f, Allocates
  <2>2. Quiet' => QuietFrame(g(s.user, TRUE, TRUE), s, M)
    BY <1>4, <2>1, RuleMatchQuiet
  <2>3. Quiet' => Seeing(lost) = s.user
    BY <1>2, <1>5, <2>1, SeeingNothingLost
  <2> HIDE DEF g
  <2> QED
    BY <1>2, <2>1, <2>2, <2>3, Zenon
<1> HIDE DEF Step
<1> QED
  BY <1>6, <1>7, <1>8, <1>9, <1>10, <1>11, <1>12, <1>13, <1>14, <1>15, <1>16, <1>17

(* readPrerequisite.                                                       *)
LEMMA ReadPrerequisiteQuiet ==
    ASSUME Inv, StoryInv, QuietInv, readPrerequisite
    PROVE  QuietInv'
<1> DEFINE s == Snapshot
           M == Meant
           f == Top
           p == Prerequisite(f).key
<1>1. /\ pc = "evaluate" /\ f.at = "prerequisites" /\ MorePrerequisites(f)
      /\ UNCHANGED <<store, outcome>> /\ quiet' = quiet /\ UNCHANGED <<world, user, version>>
  BY DEF readPrerequisite, ReadsPrerequisite, ReadablePrerequisite, At, store
<1>2. Quiet' => Quiet
  BY <1>1, MeaningStays
<1>3. Len(stack) \in 1..Len(stack) /\ f = stack[Len(stack)] /\ Len(stack) \in Nat
  BY <1>1, TopIsAFrame
<1>4. Quiet' => Sound(f, s, M)
  BY <1>2, <1>3, FramesSound
<1>5. \A k : FeatureIn(s, k) = Feature(k)
  BY FeaturesOfSnapshot
<1>6. CASE Feature(p) = Absent
  <2> DEFINE g == [f EXCEPT !.at = "failed"]
  <2>1. SetTop(g)
    BY <1>6 DEF readPrerequisite
  <2>2. Quiet' => QuietFrame(g, s, M)
    <3> HIDE DEF s, M, f
    <3> QED
      BY <1>1, <1>4, <1>5, <1>6, MissingQuiet
  <2> HIDE DEF g
  <2> QED
    BY <1>1, <2>1, <2>2, SetTopQuiet
<1>7. CASE Feature(p) # Absent
  <2>1. stack' = Append(stack, NewFrame(p))
    BY <1>7 DEF readPrerequisite
  <2>2. ASSUME Quiet' PROVE QuietFrame(NewFrame(p), s, M)
    <3>1. SoundFlag(f, s, M)
      BY <1>4, <2>2, SoundIs
    <3>2. /\ Prerequisites(f) = PrerequisitesIn(s, f.key) /\ f.i <= Len(PrerequisitesIn(s, f.key))
          /\ f.i \in Nat \ {0}
      BY <1>1, <1>4, <2>2, PrerequisitesReadable DEF Sound, QuietFrame
    <3>3. p \in FlagKeys
      <4>1. f.i \in DOMAIN PrerequisitesIn(s, f.key)
        BY <3>1, <3>2, PrerequisitesShape DEF SoundFlag
      <4> QED
        BY <3>1, <3>2, <4>1, PrerequisitesShape DEF SoundFlag, Prerequisite
    <3> HIDE DEF p
    <3> QED
      BY <3>3, NewFrameQuiet
  <2> HIDE DEF p
  <2>3. ASSUME Quiet', NEW g \in Range(stack') PROVE QuietFrame(g, s, M)
    <3>1. stack \in Seq(Range(stack))
      BY DEF Inv, StackOK, IsSequence
    <3>2. g = NewFrame(p) \/ \E n \in 1..Len(stack) : g = stack[n]
      BY <2>1, <3>1 DEF Range
    <3>3. \A n \in 1..Len(stack) : QuietFrame(stack[n], s, M)
      BY <1>2, <2>3, FramesSound DEF Sound
    <3> QED
      BY <2>2, <2>3, <3>2, <3>3
  <2> QED
    BY <1>1, <2>3, QuietGoesOn
<1> QED
  BY <1>6, <1>7

(* prerequisiteReturns.                                                    *)
LEMMA PrerequisiteReturnsQuiet ==
    ASSUME Inv, StoryInv, QuietInv, NEW memory \in BOOLEAN, prerequisiteReturns(memory)
    PROVE  QuietInv'
<1> DEFINE s == Snapshot
           M == Meant
           m == Len(stack) - 1
           caller == stack[m]
           event == newFeatureRequestEvent(Top.key, FlagOf(Top), Top.version, Top.details,
                                           Top.value, caller.key)
           g == IF isEvalError(Top.status) THEN Returned(caller, Top.status)
                ELSE IF ~memory THEN Returned(caller, "MEM")
                ELSE afterPrerequisite(caller, Top, event)
<1>1. /\ pc = "evaluate" /\ Top.at = "returned" /\ Len(stack) > 1
      /\ stack' = Append(Front(Front(stack)), g)
      /\ UNCHANGED <<store, outcome>> /\ UNCHANGED <<world, user, version>>
  BY DEF prerequisiteReturns, At, store
<1>2. (quiet' => quiet) /\ (quiet' => memory = TRUE)
  BY Zenon DEF prerequisiteReturns, Allocates
<1>3. /\ m \in Nat \ {0} /\ Len(stack) = m + 1 /\ m \in 1..Len(stack) /\ m \in 1..Len(stack) - 1
      /\ m + 1 \in 1..Len(stack) /\ Top = stack[m + 1]
  BY <1>1, TopIsAFrame
<1>4. caller.at = "prerequisites" /\ WaitsFor(caller, Top)
  BY <1>3 DEF Inv, StackOK, StoryInv
<1>5. Quiet' => Quiet /\ memory = TRUE
  BY <1>1, <1>2, MeaningStays DEF Quiet
<1>6. Quiet' => QuietFrame(g, s, M)
  <2> SUFFICES ASSUME Quiet' PROVE QuietFrame(g, s, M)
    OBVIOUS
  <2>1. Sound(caller, s, M) /\ Sound(Top, s, M)
    BY <1>3, <1>5, FramesSound
  <2> HIDE DEF caller, s, M
  <2>2. ~isEvalError(Top.status) /\ QuietFrame(afterPrerequisite(caller, Top, event), s, M)
    BY <1>1, <1>4, <2>1, AfterQuiet, Zenon
  <2> QED
    BY <1>5, <2>2, Zenon
<1> HIDE DEF g
<1>7. /\ Len(stack') = m /\ DOMAIN stack' = 1..m /\ stack'[m] = g
      /\ \A n \in 1..m - 1 : stack'[n] = stack[n]
  BY <1>1, Pops DEF IsSequence
<1>8. ASSUME Quiet', NEW h \in Range(stack') PROVE QuietFrame(h, s, M)
  <2> HIDE DEF m
  <2>1. PICK n \in 1..m : h = stack'[n]
    BY <1>7 DEF Range
  <2>2. n \in 1..Len(stack) /\ (n = m \/ n \in 1..m - 1)
    BY <1>3
  <2>3. QuietFrame(stack[n], s, M)
    BY <1>5, <1>8, <2>2, FramesSound DEF Sound
  <2>4. h = g \/ h = stack[n]
    BY <1>7, <2>1, <2>2
  <2> QED
    BY <1>6, <1>8, <2>3, <2>4
<1> QED
  BY <1>1, <1>2, <1>8, QuietGoesOn

(* The other steps of a call, given what they lead to.                     *)
LEMMA QuietStep ==
    ASSUME QuietInv, UNCHANGED <<world, user, version>>,
           DOMAIN details' = DetailsFields, pc' = "idle" => details' = NoDetails,
           Quiet' => /\ \A f \in Range(stack') : QuietFrame(f, Snapshot, Meant)
                     /\ pc' = "check" /\ details'.reason = "ERROR" => details'.extra = "FLAG_NOT_FOUND"
                     /\ QuietEvaluation'
    PROVE  QuietInv'
<1>1. Snapshot' = Snapshot /\ Meant' = Meant /\ Acyclic(version)'
  BY MeaningStays DEF QuietInv
<1>2. Quiet' => \A f \in Range(stack') : QuietFrame(f, Snapshot', Meant')
  BY <1>1
<1> QED
  BY <1>1, <1>2 DEF QuietInv

(* Errors, field by field.                                                 *)
LEMMA BecauseIs ==
    ASSUME NEW d, DOMAIN d = DetailsFields, NEW reason, NEW extra
    PROVE  /\ DOMAIN Because(d, reason, extra) = DetailsFields
           /\ Because(d, reason, extra).reason = reason
           /\ Because(d, reason, extra).extra = extra
BY DEF Because, DetailsFields

(* variation().                                                            *)
LEMMA VariationQuiet ==
    ASSUME Inv, StoryInv, QuietInv, variation
    PROVE  QuietInv'
<1> DEFINE no == FALSE
<1> HIDE DEF no
<1>1. /\ pc = "idle" /\ UNCHANGED <<world, user, version, flagKey>> /\ stack = <<>> /\ details = NoDetails
      /\ DOMAIN details = DetailsFields /\ flagKey \in FlagKeys
  BY DEF variation, store, Inv, StackOK, CountersOK, QuietInv
<1>2. Quiet' => MeantOK(Snapshot, Meant)
  BY <1>1, QuietMeans DEF Quiet
<1>3. Meant' = Meant
  BY <1>1, MeaningStays
<1>4. CASE Feature(flagKey) = Absent
  <2> DEFINE d == DetailsOf("ERROR", "FLAG_NOT_FOUND", no, 0)
  <2>1. pc' = "process" /\ details' = Error("FLAG_NOT_FOUND") /\ stack' = <<>>
    BY <1>1, <1>4 DEF variation
  <2>2. details = DetailsOf("UNKNOWN", Absent, no, 0)
    BY <1>1, Zenon DEF NoDetails, DetailsOf, no
  <2>3. details' = d
    <3>1. details' = Because(details, "ERROR", "FLAG_NOT_FOUND")
      BY <2>1 DEF Error
    <3>2. Because(DetailsOf("UNKNOWN", Absent, no, 0), "ERROR", "FLAG_NOT_FOUND") = d
      BY BecauseOf
    <3> QED
      BY <2>2, <3>1, <3>2, Zenon
  <2>4. Because(d, "ERROR", "FLAG_NOT_FOUND") = d
    BY BecauseOf
  <2>5. details' = Error("FLAG_NOT_FOUND")'
    BY <2>3, <2>4 DEF Error
  <2>6. Quiet' => Meant[flagKey].found = FALSE
    BY <1>1, <1>2, <1>4, MeantNotFound, FeaturesOfSnapshot
  <2>7. Quiet' => QuietEvaluation'
    BY <1>1, <1>3, <2>1, <2>5, <2>6 DEF QuietEvaluation
  <2>8. DOMAIN details' = DetailsFields
    BY <1>1, <2>1, BecauseIs DEF Error
  <2>9. \A f \in Range(stack') : QuietFrame(f, Snapshot, Meant)
    BY <2>1 DEF Range
  <2> QED
    BY <1>1, <2>1, <2>7, <2>8, <2>9, QuietStep
<1>5. CASE Feature(flagKey) # Absent
  <2>1. pc' = "evaluate" /\ details' = details /\ stack' = <<NewFrame(flagKey)>>
    BY <1>5 DEF variation
  <2>2. QuietFrame(NewFrame(flagKey), Snapshot, Meant)
    BY <1>1, NewFrameQuiet
  <2>3. \A f \in Range(stack') : f = NewFrame(flagKey)
    <3> DEFINE frame == NewFrame(flagKey)
    <3> HIDE DEF frame
    <3>1. stack' = <<frame>>
      BY <2>1 DEF frame
    <3>2. \A f \in Range(stack') : f = frame
      BY <3>1 DEF Range
    <3> QED
      BY <3>2 DEF frame
  <2>4. QuietEvaluation'
    BY <2>1 DEF QuietEvaluation
  <2> QED
    BY <1>1, <2>1, <2>2, <2>3, <2>4, QuietStep
<1> QED
  BY <1>4, <1>5

(* evaluated.                                                              *)
LEMMA EvaluatedQuiet ==
    ASSUME Inv, StoryInv, QuietInv, evaluated
    PROVE  QuietInv'
<1>1. /\ pc = "evaluate" /\ Top.at = "returned" /\ Len(stack) = 1
      /\ UNCHANGED <<world, user, version, flagKey>> /\ quiet' = quiet
  BY DEF evaluated, At, store
<1>2. Top = stack[1] /\ 1 \in 1..Len(stack) /\ FrameOK(Top) /\ Top.key = flagKey
  BY <1>1, TopIsAFrame DEF Inv, StackOK
<1>3. Quiet' => Quiet /\ Meant' = Meant
  BY <1>1, MeaningStays
<1>4. Quiet' => ReturnedMeaning(Top, Meant)
  BY <1>1, <1>2, <1>3, FramesSound DEF Sound, QuietFrame, Progress
<1>5. CASE Top.status \in {"MEM", "SCHEMA"}
  <2>1. ~Quiet'
    BY <1>4, <1>5 DEF ReturnedMeaning
  <2>2. /\ pc' = "returned"
        /\ details' = [Top.details EXCEPT !.reason = "ERROR",
                         !.extra = IF Top.status = "MEM" THEN "OOM" ELSE "MALFORMED_FLAG"]
    BY <1>5 DEF evaluated, Return
  <2>3. DOMAIN details' = DetailsFields
    BY <1>2, <2>2 DEF FrameOK
  <2> QED
    BY <1>1, <2>1, <2>2, <2>3, QuietStep
<1>6. CASE Top.status \notin {"MEM", "SCHEMA"}
  <2>1. /\ pc' = "process" /\ details' = Top.details /\ value' = Top.value /\ events' = Top.events
        /\ stack' = stack
    BY <1>6 DEF evaluated
  <2>2. DOMAIN details' = DetailsFields
    BY <1>2, <2>1 DEF FrameOK
  <2>3. ASSUME Quiet' PROVE QuietEvaluation'
    <3>1. Meant[flagKey] = [found |-> TRUE, details |-> Top.details, value |-> Top.value,
                            events |-> Top.events]
      BY <1>2, <1>4, <2>3 DEF ReturnedMeaning
    <3>2. /\ Meant[flagKey].found = TRUE /\ Meant[flagKey].details = Top.details
          /\ Meant[flagKey].value = Top.value /\ Meant[flagKey].events = Top.events
      BY <3>1
    <3> QED
      BY <1>1, <1>3, <2>1, <2>3, <3>2 DEF QuietEvaluation
  <2>4. Quiet' => \A f \in Range(stack') : QuietFrame(f, Snapshot, Meant)
    BY <1>3, <2>1 DEF QuietInv
  <2> QED
    BY <1>1, <2>1, <2>2, <2>3, <2>4, QuietStep
<1> QED
  BY <1>5, <1>6

(* processEvaluation.                                                      *)
LEMMA ProcessQuiet ==
    ASSUME Inv, StoryInv, QuietInv, NEW detailed \in BOOLEAN, processEvaluation(detailed)
    PROVE  QuietInv'
<1>1. /\ pc = "process" /\ pc' = "check" /\ UNCHANGED <<world, user, version, flagKey, details, stack>>
      /\ quiet' = quiet /\ flagKey \in FlagKeys /\ DOMAIN details = DetailsFields
  BY DEF processEvaluation, store, Inv, CountersOK, QuietInv
<1>2. Quiet' => Quiet
  BY <1>1, MeaningStays
<1>3. ASSUME Quiet' PROVE details.reason = "ERROR" => details.extra = "FLAG_NOT_FOUND"
  <2>1. MeantOK(Snapshot, Meant)
    BY <1>2, <1>3, QuietMeans DEF Quiet
  <2>2. IF ~Meant[flagKey].found THEN details = Error("FLAG_NOT_FOUND")
        ELSE details = Meant[flagKey].details
    BY <1>1, <1>2, <1>3 DEF QuietInv, QuietEvaluation
  <2>3. CASE FeatureIn(Snapshot, flagKey) = Absent
    <3>1. Meant[flagKey].found = FALSE
      BY <1>1, <2>1, <2>3, MeantNotFound
    <3>2. details = Because(details, "ERROR", "FLAG_NOT_FOUND")
      BY <2>2, <3>1 DEF Error
    <3>3. Because(details, "ERROR", "FLAG_NOT_FOUND").extra = "FLAG_NOT_FOUND"
      BY <1>1, BecauseIs
    <3> QED
      BY <3>2, <3>3, Zenon
  <2>4. CASE FeatureIn(Snapshot, flagKey) # Absent
    <3>1. Meant[flagKey].found = TRUE /\ Meant[flagKey].details.reason \in Reasons
      BY <1>1, <2>1, <2>4, MeantFound
    <3>2. details.reason \in Reasons
      BY <2>2, <3>1
    <3> QED
      BY <3>2 DEF Reasons
  <2> QED
    BY <2>3, <2>4
<1>4. Quiet' => \A f \in Range(stack') : QuietFrame(f, Snapshot, Meant)
  BY <1>1, <1>2 DEF QuietInv
<1>5. QuietEvaluation'
  BY <1>1 DEF QuietEvaluation
<1> QED
  BY <1>1, <1>3, <1>4, <1>5, QuietStep

(* checkType.                                                              *)
LEMMA CheckTypeQuiet ==
    ASSUME Inv, QuietInv, NEW types \in Accepted, checkType(types)
    PROVE  QuietInv'
<1>1. /\ pc = "check" /\ pc' = "returned" /\ UNCHANGED <<world, user, version>>
      /\ quiet' = quiet /\ stack' = <<>> /\ DOMAIN details = DetailsFields
      /\ details' = details \/ details' = Because(details, "ERROR", "WRONG_TYPE")
  BY DEF checkType, Return, Error, store, QuietInv
<1>2. Quiet' => Quiet
  BY <1>1, MeaningStays
<1>3. /\ DOMAIN details' = DetailsFields
      /\ details' # details => details'.extra = "WRONG_TYPE"
  BY <1>1, BecauseIs
<1>4. Quiet' => QuietEvaluation'
  BY <1>1, <1>2, <1>3 DEF QuietEvaluation, QuietInv
<1>5. \A f \in Range(stack') : QuietFrame(f, Snapshot, Meant)
  BY <1>1 DEF Range
<1> QED
  BY <1>1, <1>3, <1>4, <1>5, QuietStep

(* A write ends the quiet.                                                 *)
LEMMA WriteQuiet ==
    ASSUME QuietInv, NEW k \in Keys, write(k)
    PROVE  QuietInv'
<1>1. Acyclic(version)'
  BY DEF write, Acyclic, Versions
<1>2. UNCHANGED <<user, pc, details>> /\ ~Quiet'
  BY DEF write, outcome, Quiet
<1> QED
  BY <1>1, <1>2 DEF QuietInv

(* It holds before the first call.                                         *)
LEMMA InitQuiet == Init => QuietInv
<1> SUFFICES ASSUME Init PROVE QuietInv
  OBVIOUS
<1>1. user \in Users /\ Acyclic(version) /\ pc = "idle" /\ stack = <<>> /\ details = NoDetails
  BY DEF Init
<1>2. DOMAIN NoDetails = DetailsFields
  BY DEF NoDetails, DetailsFields
<1>3. \A f \in Range(stack) : QuietFrame(f, Snapshot, Meant)
  BY <1>1 DEF Range
<1>4. QuietEvaluation
  BY <1>1 DEF QuietEvaluation
<1> QED
  BY <1>1, <1>2, <1>3, <1>4 DEF QuietInv

(* Every step keeps it.                                                    *)
LEMMA NextQuiet == Inv /\ StoryInv /\ QuietInv /\ [Next]_vars => QuietInv'
<1> SUFFICES ASSUME Inv, StoryInv, QuietInv, [Next]_vars
             PROVE  QuietInv'
  OBVIOUS
<1>0. DOMAIN details = DetailsFields
  BY DEF QuietInv
<1>1. CASE UNCHANGED vars
  <2>1. UNCHANGED <<world, user, version, pc, flagKey, details, value, events, stack, quiet>>
    BY <1>1 DEF vars, store, outcome
  <2>2. Meant' = Meant /\ (Quiet' => Quiet)
    BY <2>1, MeaningStays
  <2>3. Quiet' => QuietEvaluation'
    BY <2>1, <2>2 DEF QuietInv, QuietEvaluation, Error
  <2> QED
    BY <1>0, <2>1, <2>2, <2>3, QuietStep DEF QuietInv
<1>2. ASSUME \/ \E kind \in {"OOM", "CLIENT_NOT_READY", "STORE_ERROR"} : variationFails(kind)
             \/ \E detailed \in BOOLEAN : processEvaluationFails(detailed)
      PROVE  QuietInv'
  <2>1. UNCHANGED <<world, user, version>> /\ pc' = "returned" /\ ~Quiet'
    BY <1>2 DEF variationFails, processEvaluationFails, Return, store, Quiet
  <2>2. details' = details \/ \E kind : details' = Because(details, "ERROR", kind)
    BY <1>2 DEF variationFails, processEvaluationFails, Error
  <2>3. DOMAIN details' = DetailsFields
    BY <1>0, <2>2, BecauseIs
  <2> QED
    BY <2>1, <2>3, QuietStep
<1>3. CASE detailsClear
  <2>1. /\ UNCHANGED <<world, user, version>> /\ pc' = "idle" /\ details' = NoDetails /\ stack' = <<>>
    BY <1>3 DEF detailsClear, store, Inv, StackOK
  <2>2. DOMAIN NoDetails = DetailsFields
    BY DEF NoDetails, DetailsFields
  <2>3. \A f \in Range(stack') : QuietFrame(f, Snapshot, Meant)
    BY <2>1 DEF Range
  <2>4. QuietEvaluation'
    BY <2>1 DEF QuietEvaluation
  <2> QED
    BY <2>1, <2>2, <2>3, <2>4, QuietStep
<1>4. CASE Evaluation
  BY <1>2, <1>4, LocalQuiet, ReadPrerequisiteQuiet, PrerequisiteReturnsQuiet, EvaluatedQuiet,
     ProcessQuiet, CheckTypeQuiet DEF Evaluation
<1>5. CASE Call
  BY <1>2, <1>3, <1>5, VariationQuiet DEF Call
<1> QED
  BY <1>1, <1>4, <1>5, WriteQuiet DEF Next

(* The frames of an undisturbed call follow what the flags mean.           *)
THEOREM QuietHolds == Spec => []QuietInv
<1> QED
  BY InitQuiet, NextQuiet, InvHolds, StoryHolds, PTL DEF Spec

(* An evaluation that nothing disturbs gives the flag's meaning:           *)
(* LDi_evaluate, with its loops and its recursion, computes the reference. *)
THEOREM QuietEvaluationsAreMeant == Spec => []QuietEvaluation
<1>1. QuietInv => QuietEvaluation
  BY DEF QuietInv, QuietEvaluation
<1> QED
  BY <1>1, QuietHolds, PTL

=============================================================================
