------------------------------- MODULE LeadScore -------------------------------
(***************************************************************************)
(* What detection (detection/engine.py) and scoring (scoring/engine.py)    *)
(* make of one revision of a message after another: a category, whether it *)
(* is a lead, and its total and band.                                      *)
(*                                                                         *)
(* A text is the set of rules whose pattern it matches.  Each pattern has  *)
(* 50 ms; a rule that does not answer counts as one that does not match,   *)
(* so the outcome depends on the load of the machine, and on the age of    *)
(* the message.                                                            *)
(***************************************************************************)
EXTENDS Integers, Sequences, FiniteSets, FiniteSetsExt

CONSTANTS Rule,       \* the catalogue, by priority: kind, target, dimension and weight
          Cap,        \* DIMENSION_CAPS of the dimensions that rules score
          HotMin, WarmMin, ColdMin, PenaltyCap,
          Quality,    \* what operators may have given the source
          Hours,      \* ages at which a revision is scored
          MaxLate,    \* bound: rules that time out in one analysis
          None

Rules      == DOMAIN Rule
Kinds      == {"hard_exclusion", "author_role", "service", "positive_intent", "signal"}
Categories == {"spam", "advertising", "vacancy", "direct_order", "contractor_search",
               "recommendation_request", "potential_need", "irrelevant"}
Roles      == {"provider_offer", "job_seeker", "vacancy", "client_request"}
Bands      == {"hot", "warm", "cold", "irrelevant"}

ASSUME LeadScoreAssumption ==
    /\ IsFiniteSet(Rules) /\ IsFiniteSet(DOMAIN Cap)
    /\ \A i \in Rules : Rule[i].kind \in Kinds /\ Rule[i].weight \in Int
    /\ \A i \in Rules : Rule[i].kind = "author_role" => Rule[i].target \in Roles
    /\ \A d \in DOMAIN Cap : Cap[d] \in Nat
    /\ {HotMin, WarmMin, ColdMin, PenaltyCap, MaxLate} \subseteq Nat
    /\ ColdMin <= WarmMin /\ WarmMin <= HotMin
    /\ Quality \subseteq Int /\ Hours \subseteq Int

VARIABLES text,       \* the rules the current revision matches
          late,       \* timed_out_rule_ids of its analysis
          detection,  \* the DetectionResult
          score       \* the ScoreResult

vars == <<text, late, detection, score>>

-------------------------------------------------------------------------------
(* Detection *)

HitsOf(kind, hits)    == {i \in hits : Rule[i].kind = kind}
TargetsOf(kind, hits) == {Rule[i].target : i \in HitsOf(kind, hits)}

\* The first of a precedence that is among the targets
FirstIn(precedence, targets, default) ==
    LET found == {n \in DOMAIN precedence : precedence[n] \in targets}
    IN  IF found = {} THEN default ELSE precedence[Min(found)]

HARD_EXCLUSION_PRECEDENCE == <<"spam", "advertising">>
ROLE_PRECEDENCE           == <<"provider_offer", "job_seeker", "vacancy", "client_request">>
POSITIVE_PRECEDENCE       == <<"direct_order", "contractor_search", "recommendation_request",
                               "vacancy", "potential_need">>

AuthorRole(hits) == FirstIn(ROLE_PRECEDENCE, TargetsOf("author_role", hits), "neutral")

Detection(category, excluded, lead) ==
    [category |-> category, hard_exclusion |-> excluded, is_lead |-> lead]

\* Seeded fault: the author's role is looked at before the exclusions, which then miss.
DetectedByRole(hits) ==
    LET intents  == TargetsOf("positive_intent", hits)
        services == TargetsOf("service", hits)
    IN  CASE AuthorRole(hits) \in {"provider_offer", "job_seeker"} ->
                 Detection("advertising", TRUE, FALSE)
          [] AuthorRole(hits) = "client_request" /\ intents # {} /\ services # {} ->
                 Detection(FirstIn(POSITIVE_PRECEDENCE, intents, "irrelevant"), FALSE, TRUE)
          [] OTHER -> Detection("irrelevant", FALSE, FALSE)

\* detect, of the rules that have answered
Detected(hits) ==
    LET exclusions == TargetsOf("hard_exclusion", hits)
        intents    == TargetsOf("positive_intent", hits)
        services   == TargetsOf("service", hits)
    IN  CASE exclusions # {} ->
                 Detection(FirstIn(HARD_EXCLUSION_PRECEDENCE, exclusions, "irrelevant"),
                           TRUE, FALSE)
          [] exclusions = {} /\ AuthorRole(hits) \in {"provider_offer", "job_seeker"} ->
                 Detection("advertising", TRUE, FALSE)
          [] exclusions = {} /\ AuthorRole(hits) = "vacancy" /\ intents # {} ->
                 Detection("vacancy", FALSE, services # {})
          [] /\ exclusions = {} /\ AuthorRole(hits) \in {"client_request", "neutral"}
             /\ intents # {} /\ services # {} ->
                 Detection(FirstIn(POSITIVE_PRECEDENCE, intents, "irrelevant"), FALSE, TRUE)
          [] OTHER -> Detection("irrelevant", FALSE, FALSE)

-------------------------------------------------------------------------------
(* Scoring *)

\* freshness_points
Freshness(age) ==
    5 - Cardinality({limit \in {1, 6, 24, 72, 14 * 24} : age > limit})

WeightOf(i) == Max({0, Rule[i].weight})

\* Seeded fault: a dimension that runs over its cap counts nothing.
DimensionDropped(d, hits) ==
    LET sum == MapThenSumSet(WeightOf, {i \in hits : Rule[i].dimension = d})
    IN  IF sum > Cap[d] THEN 0 ELSE sum

Dimension(d, hits) ==
    Min({Cap[d], MapThenSumSet(WeightOf, {i \in hits : Rule[i].dimension = d})})

PenaltyOf(i) == -Max({Rule[i].weight, -Rule[i].weight})

SoftPenalty(hits) ==
    Max({-PenaltyCap,
         MapThenSumSet(PenaltyOf, {i \in hits : Rule[i].dimension = "soft_penalty"})})

Positive(hits, age, quality) ==
    MapThenSumSet(LAMBDA d : Dimension(d, hits), DOMAIN Cap)
        + Freshness(age) + Max({0, Min({5, quality})})

\* Seeded fault: penalties may take a total below zero.
ClampedAbove(n) == Min({100, n})

Clamped(n) == Max({0, Min({100, n})})

\* band_for_total
Band(total) ==
    CASE total >= HotMin                      -> "hot"
      [] WarmMin <= total /\ total < HotMin   -> "warm"
      [] ColdMin <= total /\ total < WarmMin  -> "cold"
      [] OTHER                                -> "irrelevant"

\* score_detection: what is excluded or no lead is not scored.
Excluded(d) == d.hard_exclusion \/ d.category \in {"spam", "advertising", "vacancy"}

Scored(d, hits, age, quality) ==
    LET counts == d.is_lead /\ ~Excluded(d)
        total  == Clamped(Positive(hits, age, quality) + SoftPenalty(hits))
    IN  [total |-> IF counts THEN total ELSE 0,
         band |-> IF counts THEN Band(total) ELSE "irrelevant",
         hard_exclusion |-> Excluded(d), age |-> age, quality |-> quality]

-------------------------------------------------------------------------------
Init ==
    /\ text = {} /\ late = {}
    /\ detection = None /\ score = None

(* The patterns are tried one by one, on the text as it is capped and without quotes. *)
Detect(slow) ==
    /\ detection = None
    /\ late' = slow
    /\ detection' = Detected(text \ slow)
    /\ UNCHANGED <<text, score>>

Score(age, quality) ==
    /\ detection # None /\ score = None
    /\ score' = Scored(detection, text \ late, age, quality)
    /\ UNCHANGED <<text, late, detection>>

(* An edit: a phrase comes or goes. *)
Edit(i) ==
    /\ score # None
    /\ text' = IF i \in text THEN text \ {i} ELSE text \cup {i}
    /\ late' = {} /\ detection' = None /\ score' = None

Next ==
    \/ \E slow \in UNION {kSubset(n, Rules) : n \in 0 .. MaxLate} : Detect(slow)
    \/ \E age \in Hours, quality \in Quality : Score(age, quality)
    \/ \E i \in Rules : Edit(i)

Spec == Init /\ [][Next]_vars

-------------------------------------------------------------------------------
(* Properties *)

\* Every variable has its type; a total is between 0 and 100 and its band is one a lead
\* may have, whatever the weights of the rules (SCR-001).
TypeOK ==
    /\ text \subseteq Rules /\ late \subseteq Rules
    /\ detection \in [category : Categories, hard_exclusion : BOOLEAN, is_lead : BOOLEAN]
                         \cup {None}
    /\ score \in [total : 0 .. 100, band : Bands, hard_exclusion : BOOLEAN,
                  age : Hours, quality : Quality] \cup {None}

CreatesLead == score # None /\ score.band # "irrelevant"

\* Rules that make an author a provider, an employer or a spammer
Excluding(i) ==
    \/ Rule[i].kind = "hard_exclusion"
    \/ Rule[i].kind = "author_role" /\ Rule[i].target # "client_request"

\* A lead asks for a service: it matches an intent and a service that were found in
\* time, and every rule that it matches and that would exclude it has timed out
\* (DET-007, DET-009, DET-022).
LeadIsRequest ==
    CreatesLead =>
        /\ HitsOf("positive_intent", text \ late) # {} /\ HitsOf("service", text \ late) # {}
        /\ \A i \in text : Excluding(i) => i \in late

\* What a slow pattern costs: unless it is one that speaks against the message, the
\* message scores no more than it would have on an idle machine (DET-005).
SpeaksAgainst(i) ==
    \/ Excluding(i) \/ Rule[i].target = "vacancy" \/ Rule[i].dimension = "soft_penalty"

LateOnlyLowers ==
    (score # None /\ \A i \in late : ~SpeaksAgainst(i)) =>
        score.total <= Scored(Detected(text), text, score.age, score.quality).total

\* DET-022, as the PRD states it: a vacancy that names a supported service remains an
\* eligible lead.
EligibleIsScored == score # None /\ detection.is_lead => ~score.hard_exclusion
===============================================================================
