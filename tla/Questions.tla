------------------------------ MODULE Questions ------------------------------
(***************************************************************************)
(* The baseline interview: which of the open points of a baseline, of the  *)
(* telemetry and of the claims are asked, in which order, and how they are *)
(* phrased.  A question is told apart by its kind, its concern and, for a  *)
(* diagnostic, what the diagnostic is about.                               *)
(***************************************************************************)
EXTENDS Claims

\* Mutant: one question more.
OneMore == 5

DefaultQuestionLimit == 4

ConcernPriority ==
  [data_storage |-> 100, authentication |-> 95, authorization |-> 90,
   deployment |-> 85, api_contract |-> 80, state_ownership |-> 75,
   risk_hotspot |-> 70, testing |-> 60, observability |-> 55,
   background_job |-> 45, package_boundary |-> 35, application_shape |-> 30,
   entrypoint |-> 25, unknown |-> 0]

\* The prompt about a change does not read as one about the future, and that
\* question is never asked.
SignalConcern ==
  [repository |-> "application_shape", test |-> "testing", runtime |-> "observability",
   lifecycle |-> "risk_hotspot", memory |-> "risk_hotspot"]

(***************************************************************************)
(* Claims: a sure one answers the generic question about its concern, and  *)
(* may leave a residual one.                                               *)
(***************************************************************************)
\* What a claim says of itself counts too: every authentication claim names
\* a session, and one of deployment without a hosted runtime a release.
IsConcrete(claim) ==
  CASE claim.concern = "authorization" -> HasConcreteAuthorization(claim.words)
    [] claim.concern = "authentication" ->
         Mentions(claim.words, CodeAnchors \cup {"scripts/"})
    [] claim.concern = "deployment" ->
         LET hosted == Mentions(claim.words, {"cloudflare", "wrangler", "worker"})
         IN /\ hosted \/ Mentions(claim.words, {"appcast", "notarization", "signing"})
            /\ ~hosted \/ Mentions(claim.words, {"production", "staging", "local", "preview",
                                                 "release"})
            /\ Mentions(claim.words, {"wrangler.toml", ".github/workflows", "scripts/deploy",
                                      "docs/", "readme.md", "appcast.xml"})
    [] OTHER -> FALSE

Settles(claim) == claim.confidence = "high" \/ IsConcrete(claim)

SuppressedByClaim(concern, claims) ==
  \E i \in DOMAIN claims : claims[i].concern = concern /\ Settles(claims[i])

ClaimQuestions(claims) ==
  {[kind |-> "claim", concern |-> claims[i].concern, about |-> <<"residual">>,
    score |-> ConcernPriority[claims[i].concern] + 35
                + (IF claims[i].concern \in Security THEN 20 ELSE 0)
                + (IF claims[i].concern = "deployment" THEN 18 ELSE 0) - (i - 1)] :
     i \in {j \in DOMAIN claims : claims[j].residual /\ Settles(claims[j])}}

(***************************************************************************)
(* Facts that are of high impact and not certain.                          *)
(***************************************************************************)
ShouldAskAboutFact(fact) ==
  /\ ConcernPriority[fact.concern] >= 55
  /\ Inferred(fact) \/ fact.confidence # "high" \/ fact.freshness # "current"

ScoreFact(fact, concern, telemetry) ==
  LET confidence == [low |-> 30, medium |-> 20, high |-> 0]
      Related(signal) == \E s \in fact.sources :
        s.source = signal.source \/ (signal.family \notin {"lifecycle", "memory"} /\ s.category = signal.category)
  IN ConcernPriority[fact.concern] + confidence[fact.confidence]
       + (IF Inferred(fact) THEN 25 ELSE 0)
       + (IF fact.freshness = "stale" THEN 15 ELSE 0)
       + Cardinality(concern.thresholds) * 6
       + (IF \E i \in DOMAIN telemetry.signals : Related(telemetry.signals[i]) THEN 4 ELSE 0)

FactQuestions(baseline, telemetry, claims) ==
  UNION {{[kind |-> "fact", concern |-> c.concern, about |-> <<"fact">>,
           score |-> ScoreFact(f, c, telemetry)] :
            f \in {g \in c.facts : ShouldAskAboutFact(g)}} :
         c \in {d \in ToSet(baseline) : ~SuppressedByClaim(d.concern, claims)}}

(***************************************************************************)
(* Diagnostics above "info" or with conflict text, once there is a fact at *)
(* all.  The message of a diagnostic names its source; the text of an      *)
(* error, which it may quote as well, is not kept.                         *)
(***************************************************************************)
ConflictWords == {"conflict", "conflicting", "contradict", "contradiction"}

IsAsked(diagnostic) == diagnostic.severity # "info" \/ diagnostic.source \in ConflictWords

SignalQuestions(baseline, telemetry) ==
  IF Facts(baseline) = {} THEN {}
  ELSE {[kind |-> "signal", concern |-> SignalConcern[d.family], about |-> <<d.source, d.about>>,
         score |-> ConcernPriority[SignalConcern[d.family]]
                     + (IF d.severity = "warning" THEN 20 ELSE 5)] :
          d \in {e \in telemetry.diagnostics :
                   IsAsked(e) /\ e.family \in DOMAIN SignalConcern}}

\* rankKey compares priorities as text: "0" < "100" < "25" < ... < "95".
KeyRank(question) ==
  LET kind == [claim |-> 0, signal |-> 1, fact |-> 2]
      priority == ConcernPriority[question.concern]
  IN 3 * (IF priority = 100 THEN 1 ELSE priority) + kind[question.kind]

Best(S, Better(_, _)) == CHOOSE x \in S : ~\E y \in S : Better(y, x)

Before(p, q) == \/ p.score > q.score
                \/ p.score = q.score /\ KeyRank(p) < KeyRank(q)

LowSignalGreenfield(baseline, telemetry) ==
  /\ Facts(baseline) = {}
  /\ \A d \in telemetry.diagnostics : d.severity = "info"
  /\ \A i \in DOMAIN telemetry.signals : telemetry.signals[i].status # "present"

\* One question more, if a candidate is left.
AskNext(candidates, asked) ==
  LET left == candidates \ ToSet(asked)
  IN IF left = {} THEN asked ELSE Append(asked, Best(left, Before))

PlanQuestions(baseline, telemetry, claims, context) ==
  LET candidates == FactQuestions(baseline, telemetry, claims)
                      \cup SignalQuestions(baseline, telemetry) \cup ClaimQuestions(claims)
      asked[n \in 0..DefaultQuestionLimit] ==
        IF n = 0 THEN <<>> ELSE AskNext(candidates, asked[n - 1])
  IN IF context = "passive_baseline" \/ LowSignalGreenfield(baseline, telemetry) THEN <<>>
     ELSE asked[DefaultQuestionLimit]

(***************************************************************************)
(* How the questions are phrased: the style the current request calls for, *)
(* else the one the user's history does.                                   *)
(***************************************************************************)
StyleTerms == <<
  [of |-> "risk_compliance",  terms |-> {"gdpr", "privacy", "compliance", "audit",
                                         "retention", "deletion"}],
  [of |-> "technical_choice", terms |-> {"sql", "nosql", "database", "technical",
                                         "tradeoff", "architecture"}],
  [of |-> "business_outcome", terms |-> {"user outcome", "business", "customer",
                                         "workflow", "sharing", "search", "export"}] >>

QuestionStyle(event, history) ==
  FirstOf(StyleTerms, event.request \cup event.recentWords, history)

\* A residual question keeps its own words; history "none" gives no guidance.
PromptStyle(question, style) ==
  IF question.kind = "claim" \/ style \in {"none", "guided_default"} THEN "own" ELSE style
=============================================================================
