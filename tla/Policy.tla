------------------------------- MODULE Policy -------------------------------
(***************************************************************************)
(* From a baseline to one recommendation: which prior decisions are due,   *)
(* what the accepted debts have become, what the user is doing, and the    *)
(* action the policy selects.                                              *)
(*                                                                         *)
(* A decision record has its id, its concern, its kind, its advice status, *)
(* its revisit conditions and, for an accepted debt, the pressure and the  *)
(* support it was accepted at.                                             *)
(***************************************************************************)
EXTENDS Guidance

(***************************************************************************)
(* Revisit conditions against the evidence of today.                       *)
(***************************************************************************)
\* Tokens of at least four letters; of the long ones (six) any will do.
ConditionMatchesEvidence(condition, text) ==
  \/ condition.phrase \in text
  \/ condition.tokens # {} /\ condition.tokens \subseteq text
  \/ Mentions(text, condition.long)

\* Line by line, of signals of any status; what a lifecycle or a memory signal
\* says is no evidence.
CurrentEvidence(event, telemetry) ==
  {event.request, event.recentWords, event.repoWords} \cup ToSet(event.changed.files)
    \cup UNION {ToSet(telemetry.signals[i].lines) :
                  i \in {j \in DOMAIN telemetry.signals :
                           telemetry.signals[j].family \notin {"lifecycle", "memory"}}}

RecommendedActionFor(concern) ==
  CASE concern \in {"data_storage", "persistence"}       -> "Replace substrate"
    [] concern \in Security                              -> "Run review"
    [] concern = "api_contract"                          -> "Stop and decide"
    [] concern \in {"state_ownership", "package_boundary"} -> "Assign ownership"
    [] OTHER                                             -> "Record decision"

Alert(decision, condition, reopened) ==
  [decision |-> decision.id, concern |-> decision.concern, condition |-> condition,
   reopened |-> reopened, action |-> RecommendedActionFor(decision.concern)]

ConditionAlerts(decision, evidence) ==
  LET conditions == decision.revisitIf
      met == AtPlaces(conditions,
               {i \in DOMAIN conditions :
                  \E text \in evidence : ConditionMatchesEvidence(conditions[i], text)})
  IN IF decision.adviceStatus # "active" THEN <<>>
     ELSE [i \in DOMAIN met |-> Alert(decision, met[i].phrase, FALSE)]

\* The entries of a concern that are under-structured.
BehindOn(concern, baseline) ==
  AtPlaces(baseline, {i \in DOMAIN baseline : /\ baseline[i].concern = concern
                                             /\ baseline[i].adequacy.status = "under_structured"})

\* Mutant: a debt that was handled is settled for good.
HandledIsSettled(decision, baseline) ==
  IF \/ decision.kind # "accepted_debt" \/ decision.concern \notin Concerns
     \/ decision.adviceStatus # "active"
  THEN <<>>
  ELSE LET current == BehindOn(decision.concern, baseline)
       IN IF current = <<>> \/ ~Outgrown(decision, Head(current).adequacy) THEN <<>>
          ELSE << Alert(decision, "outgrown", FALSE) >>

\* The pressure and the support are compared one by one.
AdequacyAlerts(decision, baseline) ==
  LET current == BehindOn(decision.concern, baseline)
      now == Head(current).adequacy
      handled == decision.adviceStatus = "handled"
  IN IF \/ decision.kind # "accepted_debt" \/ decision.concern \notin Concerns
        \/ decision.adviceStatus = "superseded" \/ current = <<>>
     THEN <<>>
     ELSE (IF PressureRank[now.pressure] > PressureRank[decision.pressure]
           THEN << Alert(decision, "pressure increased", handled) >> ELSE <<>>)
            \o IF SupportRank[now.support] < SupportRank[decision.support]
               THEN << Alert(decision, "support weakened", handled) >> ELSE <<>>

\* A record and the memory signal of the same decision raise one alert.
CheckRevisit(event, records, telemetry, baseline) ==
  LET all == records \o event.priors
      decisions == AtPlaces(all, {i \in DOMAIN all : all[i].revisitIf # <<>>})
      evidence == CurrentEvidence(event, telemetry)
      alerts == FlattenSeq([i \in DOMAIN decisions |->
                  ConditionAlerts(decisions[i], evidence)
                    \o AdequacyAlerts(decisions[i], baseline)])
  IN AtPlaces(alerts,
       {i \in DOMAIN alerts : ~\E j \in 1..(i - 1) :
          alerts[j].decision = alerts[i].decision /\ alerts[j].condition = alerts[i].condition})

(***************************************************************************)
(* Accepted debts: still accepted, reopened, or stale.  The concern of a   *)
(* record is text: "authorization" also reads as authentication.           *)
(***************************************************************************)
ConcernMatches(name, concern) ==
  \/ name = concern
  \/ name = "persistence" /\ concern = "data_storage"
  \/ name = "authorization" /\ concern = "authentication"

Debts(records) == {r \in ToSet(records) : r.kind = "accepted_debt"}

DebtOf(adequacy, records) ==
  LET debts == {r \in Debts(records) : ConcernMatches(r.concern, adequacy.concern)}
  IN IF \E r \in debts : r.adviceStatus = "handled" /\ Outgrown(r, adequacy) THEN "reopened"
     ELSE IF \E r \in debts : r.adviceStatus = "active" /\ r.revisitIf # <<>> THEN "accepted_debt"
     ELSE "finding"

ArchitectureDebt(baseline, records) ==
  {[concern |-> c.concern, status |-> DebtOf(c.adequacy, records)] :
     c \in {d \in ToSet(baseline) : d.adequacy.status = "under_structured"}}
  \cup
  {[concern |-> c.concern, status |-> "stale"] :
     c \in {d \in ToSet(baseline) :
              /\ d.adequacy.status # "under_structured"
              /\ \E r \in Debts(records) :
                   /\ ConcernMatches(r.concern, d.concern)
                   /\ d = Head(AtPlaces(baseline,
                          {i \in DOMAIN baseline :
                             ConcernMatches(r.concern, baseline[i].concern)}))}}

(***************************************************************************)
(* What the user is doing, and when the evidence is about.                 *)
(***************************************************************************)
ActiveIntentTerms ==
  {"recommend", "next move", "what should", "what's next", "what next", "where to start",
   "implement", "add", "create", "refactor", "fix", "deploy", "release", "risk",
   "security review", "test harness", "decide", "decision"}
BaselineRequestTerms ==
  {"capture baseline", "baseline capture", "repository baseline", "assess repository",
   "assess this repository", "review current repo"}

ContextTexts == <<
  [of |-> "deployment_planning",   terms |-> {"deploy", "release", "hosting", "production",
                                              "staging", "rollback"}],
  [of |-> "risk_review",           terms |-> {"security review", "risk", "audit", "threat",
                                              "compliance", "gdpr"}],
  [of |-> "architecture_decision", terms |-> {"decide", "decision", "choose", "tradeoff",
                                              "adr"}],
  [of |-> "requested_next_action", terms |-> {"recommend", "next move", "what should",
                                              "what's next", "what next", "where to start"}],
  [of |-> "pending_change_assessment", terms |-> {"change", "diff", "pr", "pull request",
                                                  "implement", "add", "create", "refactor",
                                                  "fix"}] >>

ClassifyInteractionContext(event) ==
  LET text == {event.event} \cup event.request \cup event.recentWords
  IN IF event.context # "none" THEN event.context
     ELSE IF Mentions(text, BaselineRequestTerms)
             /\ ~Mentions(text, ActiveIntentTerms)
       THEN "passive_baseline"
     ELSE FirstOf(ContextTexts, text,
                  IF event.changed.files # <<>> THEN "pending_change_assessment"
                  ELSE "passive_baseline")

\* The timeframes of the facts; one without a timeframe is uncertain.
TemporalBrief(telemetry) ==
  {IF d.timeframe = "none" THEN "uncertain" ELSE d.timeframe :
     d \in {telemetry.signals[i].details :
              i \in {j \in DOMAIN telemetry.signals :
                       telemetry.signals[j].details.concern # "none"}}}

RiskIsOnlyTemporalNoise(brief) == brief = {"past", "future"}

(***************************************************************************)
(* The selected action.  reason names the rule that selected it.           *)
(***************************************************************************)
HighRisk == {"data_storage", "api_contract", "deployment", "risk_hotspot"} \cup Security

HasConcern(questions, concern) == \E i \in DOMAIN questions : questions[i].concern = concern

\* A concern has one entry in a baseline, and at most one in its guidance.
Entry(entries, concern) == {e \in entries : e.concern = concern}
The(entries) == CHOOSE e \in entries : TRUE

\* A pattern of low confidence makes any recommendation provisional.
Selected(reason, concern, action, intervention, guidance, asks, provisional) ==
  LET entry == Entry(guidance, concern)
      patterns == IF entry = {} THEN <<>> ELSE The(entry).patterns
      first == IF patterns = <<>> THEN Pattern("none", "none") ELSE patterns[1]
  IN [reason |-> reason, concern |-> concern, action |-> action,
      intervention |-> intervention, pattern |-> first.pattern,
      provisional |-> provisional \/ first.confidence = "low", requiresQuestion |-> asks]

DecisionTextConcern(name) ==
  CASE name \in Security                          -> "authentication"
    [] name \in {"data_storage", "persistence"}   -> "data_storage"
    [] name \in {"api_contract", "deployment", "state_ownership"} -> name
    [] OTHER                                      -> "unknown"

ConcernForAlert(baseline, alert) ==
  LET mapped == DecisionTextConcern(alert.concern)
      due == AtPlaces(baseline, {i \in DOMAIN baseline : "revisit" \in baseline[i].thresholds})
  IN IF Entry(ToSet(baseline), mapped) # {} THEN mapped
     ELSE IF due = <<>> THEN "none" ELSE due[1].concern

RiskIntervention(risk) == IF risk.confidence = "high" THEN "block" ELSE "recommend"

ExplicitRisk(baseline) ==
  {c \in Entry(ToSet(baseline), "risk_hotspot") :
     /\ "blast_radius" \in c.thresholds
     /\ \E f \in c.facts : \E s \in f.sources :
          s.category \in {"changed_file_spread", "diagnostic"}}

NameOrder ==
  <<"api_contract", "application_shape", "authentication", "authorization",
    "background_job", "data_storage", "deployment", "entrypoint", "observability",
    "package_boundary", "risk_hotspot", "state_ownership", "testing", "unknown">>

NameRank(concern) == CHOOSE i \in DOMAIN NameOrder : NameOrder[i] = concern

AdequacyPriority(concern) ==
  IF concern \in Security \cup {"risk_hotspot"} THEN 4
  ELSE IF concern \in {"data_storage", "api_contract"} THEN 3
  ELSE IF concern \in Operations THEN 2
  ELSE IF concern \in {"state_ownership", "package_boundary"} THEN 1 ELSE 0

\* Confidences are compared as text, so a high one comes last.
AdequacyRank(c) ==
  LET text == [medium |-> 2, low |-> 1, high |-> 0]
  IN 100 * AdequacyPriority(c.concern) + 20 * text[c.confidence] - NameRank(c.concern)

UnderStructured(baseline) ==
  {c \in ToSet(baseline) : /\ c.concern \in Concerns \ {"risk_hotspot"}
                           /\ c.adequacy.status = "under_structured"}

MostUrgent(concerns) ==
  CHOOSE c \in concerns : \A d \in concerns : AdequacyRank(d) <= AdequacyRank(c)

OverStructured(baseline) ==
  AtPlaces(baseline, {i \in DOMAIN baseline : baseline[i].adequacy.status = "over_structured"})

SurePackage(baseline) ==
  {c \in Entry(ToSet(baseline), "package_boundary") : c.facts # {} /\ c.confidence # "low"}

LoadBearing(baseline) ==
  AtPlaces(baseline, {i \in DOMAIN baseline : baseline[i].state \in {"LoadBearing", "Revisit"}})

BoundaryGuidanceAllowed(context) ==
  context \in {"pending_change_assessment", "risk_review", "architecture_decision"}

GuidedConcerns(context) ==
  IF BoundaryGuidanceAllowed(context) THEN Concerns ELSE Concerns \ {"package_boundary"}

HighValuePatterns(guidance, context) ==
  UNION {{[concern |-> g.concern, pattern |-> g.patterns[i],
           score |-> PatternScore(g.patterns[i], g.concern)] : i \in DOMAIN g.patterns} :
         g \in {h \in guidance : h.concern \in GuidedConcerns(context)}}

\* By score, then by the name of the concern.
PatternRank(p) == 100 * p.score - NameRank(p.concern)

FirstHighValuePattern(candidates) ==
  CHOOSE p \in candidates : \A q \in candidates : PatternRank(q) <= PatternRank(p)

InterventionForConcern(c, questions) ==
  IF HasConcern(questions, c.concern) /\ c.concern \in HighRisk THEN "interview-required"
  ELSE IF c.confidence = "high" /\ c.thresholds \cap {"security", "deployment", "public_api"} # {}
       THEN "decision-required" ELSE "recommend"

ActionForConcern(concern) ==
  CASE concern = "data_storage"                          -> "Replace substrate"
    [] concern \in Security                              -> "Run review"
    [] concern = "state_ownership"                       -> "Assign ownership"
    [] concern \in {"package_boundary", "api_contract"}  -> "Insert boundary"
    [] concern = "testing"                               -> "Add test harness"
    [] concern \in Operations                            -> "Operationalize"
    [] OTHER                                             -> "Record decision"

UnderStructuredAction(c, questions, guidance) ==
  LET asks == HasConcern(questions, c.concern)
  IN Selected("under-structured", c.concern, ActionForAdequacy(c.adequacy),
              IF asks THEN "interview-required" ELSE "recommend",
              guidance, asks, c.adequacy.confidence = "low")

PatternAction(best, baseline, questions, guidance) ==
  [Selected("pattern", best.concern, ActionForPattern[best.pattern.pattern],
            InterventionForConcern(The(Entry(ToSet(baseline), best.concern)), questions),
            guidance, HasConcern(questions, best.concern), FALSE)
     EXCEPT !.pattern = best.pattern.pattern,
            !.provisional = best.pattern.confidence = "low"]

\* selectPolicyAction: the first rule that applies.
SelectPolicyAction(baseline, questions, alerts, guidance, context, brief) ==
  IF context = "passive_baseline"
  THEN Selected("baseline captured", "none", "Continue", "note", guidance, FALSE, FALSE)
  ELSE IF alerts # <<>>
  THEN Selected("revisit", ConcernForAlert(baseline, alerts[1]), alerts[1].action,
                "decision-required", guidance, questions # <<>>, FALSE)
  ELSE IF ExplicitRisk(baseline) # {} /\ ~RiskIsOnlyTemporalNoise(brief)
  THEN LET risk == The(ExplicitRisk(baseline))
       IN Selected("risk", "risk_hotspot", "Run review", RiskIntervention(risk), guidance,
                   HasConcern(questions, "risk_hotspot"), risk.confidence = "low")
  ELSE IF UnderStructured(baseline) # {}
  THEN UnderStructuredAction(MostUrgent(UnderStructured(baseline)), questions, guidance)
  ELSE IF OverStructured(baseline) # <<>>
  THEN Selected("over-structured", OverStructured(baseline)[1].concern, "Localize", "note",
                guidance, FALSE, FALSE)
  ELSE IF SurePackage(baseline) # {} /\ BoundaryGuidanceAllowed(context)
  THEN Selected("package boundary", "package_boundary", "Add test harness", "recommend",
                guidance, HasConcern(questions, "package_boundary"), FALSE)
  ELSE IF HighValuePatterns(guidance, context) # {}
  THEN PatternAction(FirstHighValuePattern(HighValuePatterns(guidance, context)),
                     baseline, questions, guidance)
  ELSE IF questions # <<>>
  THEN Selected("assumptions", questions[1].concern, "Record decision",
                IF questions[1].concern \in HighRisk THEN "interview-required" ELSE "recommend",
                guidance, TRUE, FALSE)
  ELSE IF LoadBearing(baseline) # <<>>
  THEN LET bearing == LoadBearing(baseline)[1]
       IN Selected("load-bearing", bearing.concern, ActionForConcern(bearing.concern),
                   "recommend", guidance, FALSE, FALSE)
  ELSE Selected("nothing pressing", "none", "Continue", "note", guidance, FALSE, FALSE)

\* assessArchitecture's status.
StatusOfAdvice(selected) == IF selected.action = "Continue" THEN "ok" ELSE "needs_attention"
=============================================================================
