----------------------------- MODULE Targeting -----------------------------
(***************************************************************************)
(* How the SDK decides that a user matches (evaluate.c without the store,  *)
(* operator.c, LDi_valueOfAttribute of user.c): clauses, segments and      *)
(* rollouts, as operators.                                                 *)
(*                                                                         *)
(* JSON.  A value is a pair <<type, payload>>.  A field of a flag, rule or *)
(* segment is its content, Absent, or Bad.  Where the code asks LDi_notNull *)
(* a null counts as Absent; where it only asks whether the field is there, *)
(* a null has the wrong type and counts as Bad.  Bad stands for a missing  *)
(* field too where the code treats both as a schema error.  An array of    *)
(* texts is a set.                                                         *)
(***************************************************************************)
EXTENDS Integers, Sequences, FiniteSets, SequencesExt

CONSTANTS
    Absent, Bad,
    Scale,              \* 100000, the sum of the weights of a full rollout
    TextHolds(_, _, _), \* external: whether a text operator (strncmp, strcmp,
                        \* strstr, pcre) holds of two texts
    ParseDate(_),       \* external: timestamp_parse, Absent when it fails
    ParseSemVer(_),     \* external: semver_parse, Absent when it fails
    FormatNumber(_),    \* external: snprintf with %f
    Digest(_)           \* external: SHA1 of a text in 0..Scale, Absent when
                        \* the text does not fit its buffer

ASSUME ScaleIsPositive == Scale \in Nat \ {0}
ASSUME AbsentIsNotBad == Absent # Bad /\ {Absent, Bad} \cap BOOLEAN = {}

-----------------------------------------------------------------------------
(* Status of an evaluation.                                                *)

isEvalError(status) == status \in {"MEM", "SCHEMA", "STORE"}

maybeNegate(clause, status) ==
    IF isEvalError(status) \/ clause.negate = Absent THEN status
    ELSE IF clause.negate = Bad THEN "SCHEMA"
    ELSE IF (status = "MATCH") = clause.negate THEN "MISS" ELSE "MATCH"

\* A loop that goes on while a status is `go` and returns the first other.
FirstOther(seq, Status(_), go) ==
    LET i == SelectInSeq(seq, LAMBDA e : Status(e) # go)
    IN  IF i = 0 THEN go ELSE Status(seq[i])

textInArray(array, text) == text \in array

-----------------------------------------------------------------------------
(* operator.c: a user's value against a clause's value.                    *)

BothText(u, c) == u[1] = "text" /\ c[1] = "text"
BothNumber(u, c) == u[1] = "number" /\ c[1] = "number"

operatorInFn(u, c) == u = c
operatorStartsWithFn(u, c) == BothText(u, c) /\ TextHolds("startsWith", u[2], c[2])
operatorEndsWithFn(u, c) == BothText(u, c) /\ TextHolds("endsWith", u[2], c[2])
operatorMatchesFn(u, c) == BothText(u, c) /\ TextHolds("matches", u[2], c[2])
operatorContainsFn(u, c) == BothText(u, c) /\ TextHolds("contains", u[2], c[2])
operatorLessThanFn(u, c) == BothNumber(u, c) /\ u[2] < c[2]
operatorLessThanOrEqualFn(u, c) == BothNumber(u, c) /\ u[2] <= c[2]
operatorGreaterThanFn(u, c) == BothNumber(u, c) /\ u[2] > c[2]
operatorGreaterThanOrEqualFn(u, c) == BothNumber(u, c) /\ u[2] >= c[2]

\* A date is a number of milliseconds or a text to parse.
parseTime(json) ==
    CASE json[1] = "number" -> json[2]
      [] json[1] = "text"   -> ParseDate(json[2])
      [] OTHER              -> Absent

\* Both parsed values, or nothing when one does not parse.
Parsed(u, c, Parse(_)) ==
    IF Parse(u) = Absent \/ Parse(c) = Absent THEN {} ELSE {<<Parse(u), Parse(c)>>}

operatorBefore(u, c) == \E p \in Parsed(u, c, parseTime) : p[1] < p[2]
operatorAfter(u, c) == \E p \in Parsed(u, c, parseTime) : p[1] > p[2]

compareSemVer(u, c) ==
    IF BothText(u, c) THEN Parsed(u, c, LAMBDA v : ParseSemVer(v[2])) ELSE {}

operatorSemVerEqual(u, c) == \E p \in compareSemVer(u, c) : p[1] = p[2]
operatorSemVerLessThan(u, c) == \E p \in compareSemVer(u, c) : p[1] < p[2]
operatorSemVerGreaterThan(u, c) == \E p \in compareSemVer(u, c) : p[1] > p[2]

Operators ==
    {"in", "startsWith", "endsWith", "matches", "contains", "lessThan",
     "lessThanOrEqual", "greaterThan", "greaterThanOrEqual", "before", "after",
     "semVerEqual", "semVerLessThan", "semVerGreaterThan"}

lookupOperation(op, u, c) ==
    CASE op = "in"                 -> operatorInFn(u, c)
      [] op = "endsWith"           -> operatorEndsWithFn(u, c)
      [] op = "startsWith"         -> operatorStartsWithFn(u, c)
      [] op = "matches"            -> operatorMatchesFn(u, c)
      [] op = "contains"           -> operatorContainsFn(u, c)
      [] op = "lessThan"           -> operatorLessThanFn(u, c)
      [] op = "lessThanOrEqual"    -> operatorLessThanOrEqualFn(u, c)
      [] op = "greaterThan"        -> operatorGreaterThanFn(u, c)
      [] op = "greaterThanOrEqual" -> operatorGreaterThanOrEqualFn(u, c)
      [] op = "before"             -> operatorBefore(u, c)
      [] op = "after"              -> operatorAfter(u, c)
      [] op = "semVerEqual"        -> operatorSemVerEqual(u, c)
      [] op = "semVerLessThan"     -> operatorSemVerLessThan(u, c)
      [] op = "semVerGreaterThan"  -> operatorSemVerGreaterThan(u, c)

-----------------------------------------------------------------------------
(* Users.  A user has a key, perhaps a secondary key, and attributes, the  *)
(* other built-in ones and the custom ones under their names; lost are the *)
(* attributes for whose values there was no memory.                        *)

AttributeNames(user) == DOMAIN user.attributes \cup {"key", "secondary"}

\* Absent when the user lacks the attribute, or its copy cannot be made.
valueOfAttribute(user, attribute) ==
    IF attribute \notin AttributeNames(user) \ user.lost THEN Absent
    ELSE CASE attribute = "key"       -> <<"text", user.key>>
           [] attribute = "secondary" ->
                IF user.secondary = Absent THEN Absent
                                           ELSE <<"text", user.secondary>>
           [] OTHER                   -> user.attributes[attribute]

-----------------------------------------------------------------------------
(* Clauses.                                                                *)

matchAny(op, value, values) ==
    IF \E i \in DOMAIN values : lookupOperation(op, value, values[i])
    THEN "MATCH" ELSE "MISS"

\* An array attribute matches when one of its elements does.
ElementMatches(clause, element) ==
    IF element[1] \in {"object", "array"} THEN "SCHEMA"
    ELSE matchAny(clause.op, element, clause.values)

\* An unknown operator and a missing attribute miss, negated or not.  The
\* type of values is not looked at: Bad is a clause that has none.
clauseMatchesUserNoSegments(clause, user) ==
    IF Bad \in {clause.attribute, clause.op, clause.values} THEN "SCHEMA"
    ELSE LET value == valueOfAttribute(user, clause.attribute)
         IN  IF clause.op \notin Operators \/ value = Absent THEN "MISS"
             ELSE maybeNegate(clause,
                    IF value[1] = "array"
                    THEN FirstOther(value[2],
                             LAMBDA e : ElementMatches(clause, e), "MISS")
                    ELSE matchAny(clause.op, value, clause.values))

-----------------------------------------------------------------------------
(* Buckets.                                                                *)

getBucketAttribute(obj) == IF obj.bucketBy = Absent THEN "key" ELSE obj.bucketBy

\* Texts and numbers can be bucketed.
Bucketable(value) ==
    IF value = Absent THEN Absent
    ELSE CASE value[1] = "text"   -> value[2]
           [] value[1] = "number" -> FormatNumber(value[2])
           [] OTHER               -> Absent

\* What is hashed: a seed replaces the key and the salt.
Raw(user, segmentKey, bucketable, salt, seed) ==
    (IF seed = Absent THEN <<segmentKey, salt>> ELSE <<seed>>)
      \o <<bucketable>>
      \o (IF user.secondary = Absent THEN <<>> ELSE <<user.secondary>>)

\* 0 for whoever cannot be bucketed; Scale when the hash rounds to 1.
bucketUser(user, segmentKey, attribute, salt, seed) ==
    LET bucketable == Bucketable(valueOfAttribute(user, attribute))
        hash == Digest(Raw(user, segmentKey, bucketable, salt, seed))
    IN  IF bucketable = Absent \/ hash \notin 0..Scale THEN 0 ELSE hash

-----------------------------------------------------------------------------
(* Segments.                                                               *)

segmentRuleMatchUser(rule, segmentKey, user, salt) ==
    LET clauses == FirstOther(rule.clauses,
                       LAMBDA c : clauseMatchesUserNoSegments(c, user), "MATCH")
        bucket == bucketUser(user, segmentKey, getBucketAttribute(rule), salt,
                             Absent)
    IN  IF rule.clauses = Bad THEN "SCHEMA"
        ELSE IF clauses # "MATCH" THEN clauses
        ELSE IF rule.weight = Absent THEN "MATCH"
        ELSE IF Bad \in {rule.weight, rule.bucketBy} THEN "SCHEMA"
        ELSE IF bucket < rule.weight THEN "MATCH" ELSE "MISS"

InList(list, user) == list # Absent /\ textInArray(list, user.key)

\* Fault: excluded wins over included.
segmentExcludedFirst(segment, user) ==
    IF segment.excluded = Bad THEN "SCHEMA"
    ELSE IF InList(segment.excluded, user) THEN "MISS"
    ELSE IF segment.included = Bad THEN "SCHEMA"
    ELSE IF InList(segment.included, user) THEN "MATCH"
    ELSE IF Bad \in {segment.rules, segment.key, segment.salt} THEN "SCHEMA"
    ELSE FirstOther(segment.rules,
             LAMBDA r : segmentRuleMatchUser(r, segment.key, user,
                                             segment.salt), "MISS")

\* Included before excluded before rules.
segmentMatchesUser(segment, user) ==
    IF segment.included = Bad THEN "SCHEMA"
    ELSE IF InList(segment.included, user) THEN "MATCH"
    ELSE IF segment.excluded = Bad THEN "SCHEMA"
    ELSE IF InList(segment.excluded, user) THEN "MISS"
    ELSE IF Bad \in {segment.rules, segment.key, segment.salt} THEN "SCHEMA"
    ELSE FirstOther(segment.rules,
             LAMBDA r : segmentRuleMatchUser(r, segment.key, user,
                                             segment.salt), "MISS")

-----------------------------------------------------------------------------
(* Variations and rollouts.  A choice is [ok, index, inExperiment].        *)

NoChoice == [ok |-> FALSE, index |-> Absent, inExperiment |-> FALSE]

Choice(index, inExperiment) ==
    [ok |-> TRUE, index |-> index, inExperiment |-> inExperiment]

Malformed(w) == Bad \in {w.weight, w.variation, w.untracked}

\* The sum of the weights up to i, which the loop adds up.
WeightUpTo(weighted, i) ==
    LET sum[n \in 0..i] ==
            IF n = 0 THEN 0
            ELSE IF Malformed(weighted[n]) THEN sum[n - 1]
            ELSE sum[n - 1] + weighted[n].weight
    IN  sum[i]

\* The first entry the loop cannot read or whose share holds the bucket.
StopsAt(weighted, bucket) ==
    SelectInSeq([i \in DOMAIN weighted |-> i], LAMBDA i :
        Malformed(weighted[i]) \/ bucket < WeightUpTo(weighted, i))

\* Fault: who is beyond the last share gets the first variation.
weightedVariationWraps(weighted, bucket) ==
    IF StopsAt(weighted, bucket) = 0 THEN 1 ELSE StopsAt(weighted, bucket)

\* Who is beyond the last share gets the last variation.
weightedVariation(weighted, bucket) ==
    IF StopsAt(weighted, bucket) = 0 THEN Len(weighted)
                                     ELSE StopsAt(weighted, bucket)

rolloutForUser(rollout, user, key, salt) ==
    LET bucket == bucketUser(user, key, getBucketAttribute(rollout), salt,
                             rollout.seed)
        w == rollout.variations[weightedVariation(rollout.variations, bucket)]
    IN  IF Bad \in {rollout.kind, rollout.variations, rollout.bucketBy, rollout.seed}
           \/ rollout.variations = <<>>
        THEN NoChoice
        ELSE IF Malformed(w) THEN NoChoice
        ELSE Choice(w.variation,
                    rollout.kind = "experiment" /\ w.untracked # TRUE)

variationIndexForUser(varOrRoll, user, key, salt) ==
    IF varOrRoll.variation = Bad THEN NoChoice
    ELSE IF varOrRoll.variation # Absent THEN Choice(varOrRoll.variation, FALSE)
    ELSE IF varOrRoll.rollout \in {Absent, Bad} THEN NoChoice
    ELSE rolloutForUser(varOrRoll.rollout, user, key, salt)

getIndexForVariationOrRollout(flag, varOrRoll, user) ==
    IF Bad \in {flag.key, flag.salt} THEN NoChoice
    ELSE variationIndexForUser(varOrRoll, user, flag.key, flag.salt)

=============================================================================
