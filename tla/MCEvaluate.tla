----------------------------- MODULE MCEvaluate -----------------------------
(***************************************************************************)
(* Flags, segments, users and the external operators for model checking    *)
(* Evaluate.  Scale is 10: a weight of 3 is a share of 30 percent.         *)
(***************************************************************************)
EXTENDS Evaluate

CONSTANTS A, B, C   \* flags
CONSTANTS S, T      \* segments

-----------------------------------------------------------------------------
(* External operators.  SHA1 is a sum of the lengths given to the texts.   *)

MCTextHolds(op, u, c) == <<op, u, c>> \in {<<"startsWith", "pro", "p">>,
                                           <<"contains", "pro", "r">>}
MCParseDate(t) == IF t = "day2" THEN 2 ELSE Absent
MCParseSemVer(t) == IF t = "v2" THEN 2 ELSE IF t = "v1" THEN 1 ELSE Absent
MCFormatNumber(n) == IF n = 1 THEN "1.0" ELSE "n"

Length(t) == CASE t = "u1" -> 1 [] t = "u2" -> 5 [] t = "pro" -> 3
               [] t = "second" -> 2 [] t = "1.0" -> 4 [] t = "seed" -> 2
               [] OTHER -> 0

MCDigest(raw) ==
    IF \E i \in DOMAIN raw : raw[i] = "long" THEN Absent
    ELSE SumFunctionOnSet([i \in DOMAIN raw |-> Length(raw[i])], DOMAIN raw) % 11

-----------------------------------------------------------------------------
(* Users: one known by a plan, one with a secondary key and a list.        *)

MCUsers ==
    { [key |-> "u1", secondary |-> Absent, lost |-> {},
       attributes |-> [plan |-> <<"text", "pro">>]],
      [key |-> "u2", secondary |-> "second", lost |-> {},
       attributes |-> [plan |-> <<"array", <<<<"number", 1>>, <<"text", "v2">>>>>>]] }

-----------------------------------------------------------------------------
(* Building flags and segments.                                            *)

Fixed(v) == [variation |-> v, rollout |-> Absent]

Rollout(kind, weights, bucketBy, seed) ==
    [variation |-> Absent,
     rollout |-> [kind |-> kind, bucketBy |-> bucketBy, seed |-> seed,
                  variations |-> FoldLeft(LAMBDA done, w : Append(done,
                      [variation |-> Len(done), weight |-> w,
                       untracked |-> IF Len(done) = 2 THEN TRUE ELSE Absent]),
                      <<>>, weights)]]

Flag ==
    [key |-> "flag", salt |-> "salt", on |-> TRUE, offVariation |-> 0,
     prerequisites |-> <<>>, targets |-> <<>>, rules |-> <<>>,
     fallthrough |-> Fixed(1), trackEvents |-> FALSE,
     trackEventsFallthrough |-> FALSE,
     variations |-> <<<<"bool", FALSE>>, <<"bool", TRUE>>, <<"text", "x">>>>]

Requires(k, v) == [key |-> k, variation |-> v]

ClauseOf(attribute, op, values) ==
    [attribute |-> attribute, op |-> op, values |-> values, negate |-> Absent]

RuleOf(clauses, serve) ==
    [clauses |-> clauses, serve |-> serve, id |-> Absent, trackEvents |-> FALSE]

InS == ClauseOf("", "segmentMatch", <<<<"number", 0>>, <<"text", T>>, <<"text", S>>>>)

NoSegment == [included |-> {}, excluded |-> {}, rules |-> <<>>, key |-> "seg",
              salt |-> "salt"]

SegmentRule(clauses, weight, bucketBy) ==
    [clauses |-> clauses, weight |-> weight, bucketBy |-> bucketBy]

NoFeature == A :> <<Absent>> @@ B :> <<Absent>> @@ C :> <<Absent>>
               @@ S :> <<Absent>> @@ T :> <<Absent>>

-----------------------------------------------------------------------------
(* Prerequisites turn round: B is one of A, then A is one of B.  C needs   *)
(* both.                                                                   *)

Turning ==
    A :> << [Flag EXCEPT !.prerequisites = <<Requires(B, 1)>>,
                         !.trackEventsFallthrough = TRUE],
            [Flag EXCEPT !.fallthrough = Fixed(2)] >>
    @@
    B :> << Flag,
            Absent,
            [Flag EXCEPT !.prerequisites = <<Requires(A, 2)>>, !.offVariation = Absent],
            [Flag EXCEPT !.on = FALSE, !.offVariation = 1] >>
    @@
    C :> << [Flag EXCEPT !.prerequisites = <<Requires(B, 1), Requires(A, 1)>>] >>
    @@ NoFeature

-----------------------------------------------------------------------------
(* Targets, rules and segments.                                            *)

NotPlan == [ClauseOf("plan", "in", <<<<"text", "v2">>, <<"number", 3>>>>)
              EXCEPT !.negate = TRUE]
Recent == ClauseOf("plan", "semVerGreaterThan", <<<<"text", "v1">>>>)
Early == ClauseOf("plan", "before", <<<<"text", "day2">>>>)

Targeted ==
    A :> << [Flag EXCEPT !.rules =
               << RuleOf(<<InS>>, Fixed(0)),
                  [RuleOf(<<NotPlan>>, Fixed(2)) EXCEPT !.id = "rule",
                                                        !.trackEvents = TRUE] >>],
            [Flag EXCEPT !.targets = << [values |-> {}, variation |-> 1],
                                        [values |-> {"u1"}, variation |-> 0] >>,
                         !.rules = << RuleOf(<<[InS EXCEPT !.negate = TRUE],
                                               ClauseOf("key", "endsWith", <<>>)>>,
                                             Fixed(0)) >>] >>
    @@
    B :> << [Flag EXCEPT !.prerequisites = <<Requires(A, 0)>>,
                         !.rules =
               << RuleOf(<<Recent, Early>>, Rollout(Absent, <<4, 6>>, "plan", Absent)),
                  RuleOf(<<ClauseOf("plan", "nonsense", <<>>)>>, Fixed(2)),
                  RuleOf(<<ClauseOf("plan", "startsWith", <<<<"text", "p">>>>)>>,
                         Fixed(0)) >>] >>
    @@
    S :> << [NoSegment EXCEPT !.included = {"u1"}, !.excluded = {"u1", "u2"}],
            [NoSegment EXCEPT !.excluded = Absent,
                              !.rules =
               << SegmentRule(<<ClauseOf("plan", "contains", <<<<"text", "r">>>>)>>,
                              5, Absent),
                  SegmentRule(<<>>, 7, "plan") >>],
            Absent >>
    @@ NoFeature

-----------------------------------------------------------------------------
(* Rollouts whose first share grows, one of them an experiment with a seed *)
(* and shares that do not add up.                                          *)

Growing ==
    A :> << [Flag EXCEPT !.fallthrough = Rollout("experiment", <<1, 2, 3>>, Absent, "seed")],
            [Flag EXCEPT !.fallthrough = Rollout("experiment", <<3, 2, 3>>, Absent, "seed")],
            [Flag EXCEPT !.fallthrough = Rollout("experiment", <<6, 2, 3>>, Absent, "seed")] >>
    @@
    B :> << [Flag EXCEPT !.fallthrough = Rollout("rollout", <<2, 8>>, Absent, Absent)],
            [Flag EXCEPT !.fallthrough = Rollout("rollout", <<8, 2>>, Absent, Absent)],
            [Flag EXCEPT !.fallthrough = Rollout("rollout", <<0, 0, 4>>, "plan", Absent)],
            [Flag EXCEPT !.fallthrough = Rollout("rollout", <<1, 0, 4>>, "plan", Absent)] >>
    @@
    C :> << [Flag EXCEPT !.prerequisites = <<Requires(A, 0), Requires(B, 0)>>,
                         !.fallthrough = Rollout(Absent, <<5, 5>>, "key", Absent),
                         !.trackEvents = TRUE],
            [Flag EXCEPT !.variations[2] = <<"null", Absent>>] >>
    @@ NoFeature

-----------------------------------------------------------------------------
(* Data that does not follow the schema.                                   *)

Broken ==
    A :> << [Flag EXCEPT !.on = Bad],
            [Flag EXCEPT !.prerequisites = Bad],
            [Flag EXCEPT !.prerequisites = <<Requires(B, 1), Requires(Bad, 0)>>],
            [Flag EXCEPT !.targets = Bad],
            [Flag EXCEPT !.targets = <<[values |-> Bad, variation |-> 0]>>],
            [Flag EXCEPT !.targets = <<[values |-> {"u1"}, variation |-> Bad]>>,
                         !.rules = Bad] >>
    @@
    B :> << [Flag EXCEPT !.rules = <<RuleOf(<<InS>>, Fixed(7))>>],
            [Flag EXCEPT !.rules = <<RuleOf(<<[InS EXCEPT !.values = Bad]>>, Fixed(0))>>],
            [Flag EXCEPT !.rules = <<RuleOf(<<[NotPlan EXCEPT !.negate = Bad]>>, Fixed(0))>>],
            [Flag EXCEPT !.rules = <<[RuleOf(<<>>, Fixed(0)) EXCEPT !.id = Bad]>>],
            [Flag EXCEPT !.rules = <<RuleOf(Bad, Fixed(0))>>],
            [Flag EXCEPT !.fallthrough = Fixed(Absent)] >>
    @@
    C :> << [Flag EXCEPT !.fallthrough = Rollout("rollout", <<1, Bad>>, Absent, Absent)],
            [Flag EXCEPT !.fallthrough = Rollout("rollout", <<>>, Absent, Absent)],
            [Flag EXCEPT !.fallthrough = Rollout("rollout", <<1, 2>>, Bad, Absent)],
            [Flag EXCEPT !.salt = Bad] >>
    @@
    S :> << [NoSegment EXCEPT !.included = {"u2"}, !.excluded = Bad],
            [NoSegment EXCEPT !.rules = <<SegmentRule(<<>>, Bad, Absent)>>],
            [NoSegment EXCEPT !.included = Bad] >>
    @@ NoFeature

-----------------------------------------------------------------------------

MCHistory == [turning |-> Turning, targeted |-> Targeted, growing |-> Growing,
              broken |-> Broken]
MCWellFormed == {"turning", "targeted", "growing"}

=============================================================================
