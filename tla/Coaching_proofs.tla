-------------------------- MODULE Coaching_proofs --------------------------
(***************************************************************************)
(* What the coach says is a function of what it was given, so an           *)
(* invariant about its advice follows from a fact about SelectPolicyAction *)
(* for every baseline that ConcernOf can build.                            *)
(***************************************************************************)
EXTENDS Coaching, Places

\* A set whose elements have ranks in Nat has one of the least rank.
LEMMA LeastRank ==
  ASSUME NEW S, S # {}, NEW f \in [S -> Nat]
  PROVE  \E x \in S : \A y \in S : f[x] <= f[y]
<1> DEFINE T == {f[x] : x \in S}
<1>1. T \subseteq Nat /\ T # {}
  OBVIOUS
<1>2. PICK m \in T : \A n \in T : ~(<<n, m>> \in OpToRel(<, Nat))
  BY <1>1, NatLessThanWellFounded, WFMin
<1>3. \A n \in T : ~(n < m)
  BY <1>1, <1>2 DEF OpToRel
<1>4. PICK x \in S : f[x] = m
  BY <1>2
<1> QED
  BY <1>1, <1>3, <1>4

-----------------------------------------------------------------------------
(***************************************************************************)
(* The ranks the policy compares are integers within bounds.               *)
(***************************************************************************)
Levels == {"low", "medium", "high"}

\* A concern's rank is its place in the order of names.
LEMMA NameRankIsPlace ==
  ASSUME NEW concern \in Concerns
  PROVE  NameRank(concern) \in 1..14
<1>1. DOMAIN NameOrder = 1..14
  BY DEF NameOrder
<1>2. \E i \in DOMAIN NameOrder : NameOrder[i] = concern
  BY <1>1 DEF NameOrder, Concerns
<1> QED
  BY <1>1, <1>2 DEF NameRank

LEMMA AdequacyRankIsBounded ==
  ASSUME NEW c, c.concern \in Concerns, c.confidence \in Levels
  PROVE  AdequacyRank(c) \in -14..439
<1>1. AdequacyPriority(c.concern) \in 0..4
  BY DEF AdequacyPriority
<1>2. NameRank(c.concern) \in 1..14
  BY NameRankIsPlace
<1> DEFINE text == [medium |-> 2, low |-> 1, high |-> 0]
<1>3. text[c.confidence] \in 0..2
  BY DEF Levels
<1> QED
  BY <1>1, <1>2, <1>3 DEF AdequacyRank

\* The policy's choice among under-structured concerns is one of them, and none
\* ranks higher.
LEMMA MostUrgentIsOneOfThem ==
  ASSUME NEW S, S # {},
         \A c \in S : c.concern \in Concerns /\ c.confidence \in Levels
  PROVE  /\ MostUrgent(S) \in S
         /\ \A c \in S : AdequacyRank(c) <= AdequacyRank(MostUrgent(S))
<1> DEFINE f == [c \in S |-> 500 - AdequacyRank(c)]
<1>1. \A c \in S : AdequacyRank(c) \in -14..439
  BY AdequacyRankIsBounded
<1>2. f \in [S -> Nat]
  BY <1>1
<1>3. PICK c \in S : \A d \in S : f[c] <= f[d]
  BY <1>2, LeastRank
<1>4. ASSUME NEW d \in S PROVE AdequacyRank(d) <= AdequacyRank(c)
  <2>1. 500 - AdequacyRank(c) <= 500 - AdequacyRank(d)
    BY <1>3
  <2>2. AdequacyRank(c) \in Int /\ AdequacyRank(d) \in Int
    BY <1>1
  <2> HIDE DEF f
  <2> QED
    BY <2>1, <2>2
<1> QED
  BY <1>4 DEF MostUrgent

-----------------------------------------------------------------------------
(***************************************************************************)
(* Patterns.                                                               *)
(***************************************************************************)
PatternNames ==
  {"add_targeted_test_harness", "run_security_review", "operationalize_runtime",
   "extract_custom_hook", "insert_repository_boundary", "record_api_contract",
   "name_state_owner"}

LEMMA GuidanceConfidenceIsALevel ==
  ASSUME NEW c PROVE GuidanceConfidence(c) \in Levels
BY DEF GuidanceConfidence, Levels

\* Whatever pattern a concern is offered has a known name and, when the
\* concern is of low confidence, low confidence itself.
LEMMA PatternsOfAConcern ==
  ASSUME NEW c, NEW i \in DOMAIN Patterns(c)
  PROVE  /\ Patterns(c)[i].pattern \in PatternNames
         /\ Patterns(c)[i].confidence \in Levels
         /\ c.confidence = "low" => Patterns(c)[i].confidence = "low"
<1> DEFINE Fits(p) == /\ p.pattern \in PatternNames
                      /\ p.confidence \in Levels
                      /\ c.confidence = "low" => p.confidence = "low"
           own == ConcernPatterns(c)
           harness == Pattern("add_targeted_test_harness", GuidanceConfidence(c))
<1>1. c.confidence = "low" => GuidanceConfidence(c) = "low"
  BY DEF GuidanceConfidence
<1>2. \A text : /\ \E name \in PatternNames, level \in {GuidanceConfidence(c), "low"} :
                     StatePattern(text, GuidanceConfidence(c)) = Pattern(name, level)
                /\ \E name \in PatternNames, level \in {GuidanceConfidence(c), "low"} :
                     StoragePattern(text, GuidanceConfidence(c)) = Pattern(name, level)
                /\ \E name \in PatternNames, level \in {GuidanceConfidence(c), "low"} :
                     ContractPattern(text, GuidanceConfidence(c)) = Pattern(name, level)
  BY DEF OrLow, StatePattern, StoragePattern, ContractPattern, PatternNames
<1>3. \/ own = <<>>
      \/ \E name \in PatternNames, level \in {GuidanceConfidence(c), "low"} :
           own = << Pattern(name, level) >>
  BY <1>2 DEF ConcernPatterns, PatternNames
<1>4. \A name \in PatternNames, level \in {GuidanceConfidence(c), "low"} :
        Fits(Pattern(name, level))
  BY <1>1, GuidanceConfidenceIsALevel DEF Pattern, Levels
<1>5. Fits(harness)
  BY <1>4 DEF PatternNames
<1>6. Patterns(c) \in {own, Append(own, harness)}
  BY DEF Patterns
<1>7. CASE own = <<>>
  BY <1>5, <1>6, <1>7
<1>8. ASSUME NEW name \in PatternNames, NEW level \in {GuidanceConfidence(c), "low"},
             own = << Pattern(name, level) >>
      PROVE  Fits(Patterns(c)[i])
  <2>1. Fits(Pattern(name, level))
    BY <1>4
  <2>2. Patterns(c) \in {<< Pattern(name, level) >>, << Pattern(name, level), harness >>}
    BY <1>6, <1>8
  <2> QED
    BY <2>1, <2>2, <1>5
<1> QED
  BY <1>3, <1>7, <1>8

-----------------------------------------------------------------------------
(***************************************************************************)
(* The pattern the policy recommends is one that was offered.              *)
(***************************************************************************)
LEMMA FirstPatternIsOneOfThem ==
  ASSUME NEW P, P # {},
         \A p \in P : p.concern \in Concerns /\ p.score \in 0..200
  PROVE  FirstHighValuePattern(P) \in P
<1> DEFINE f == [p \in P |-> 20000 - PatternRank(p)]
<1>1. ASSUME NEW p \in P PROVE PatternRank(p) \in Int /\ PatternRank(p) <= 20000
  <2>1. NameRank(p.concern) \in 1..14
    BY NameRankIsPlace
  <2> QED
    BY <2>1 DEF PatternRank
<1>2. f \in [P -> Nat]
  BY <1>1
<1> HIDE DEF f
<1>3. PICK p \in P : \A q \in P : f[p] <= f[q]
  BY <1>2, LeastRank
<1>4. ASSUME NEW q \in P PROVE PatternRank(q) <= PatternRank(p)
  <2>1. 20000 - PatternRank(p) <= 20000 - PatternRank(q)
    BY <1>3 DEF f
  <2>2. PatternRank(p) \in Int /\ PatternRank(q) \in Int
    BY <1>1
  <2> QED
    BY <2>1, <2>2
<1> QED
  BY <1>4 DEF FirstHighValuePattern

\* A pattern the guidance of a baseline offers belongs to a concern of it, and
\* is of low confidence when that concern is.
LEMMA OfferedPatterns ==
  ASSUME NEW baseline, NEW context,
         NEW p \in HighValuePatterns(PrincipleGuidance(baseline), context)
  PROVE  /\ p.concern \in Concerns /\ p.score \in 0..200
         /\ \E c \in ToSet(baseline) :
              /\ c.concern = p.concern
              /\ c.confidence = "low" => p.pattern.confidence = "low"
<1>1. PICK g \in PrincipleGuidance(baseline) : \E i \in DOMAIN g.patterns :
        /\ g.concern \in GuidedConcerns(context)
        /\ p = [concern |-> g.concern, pattern |-> g.patterns[i],
                score |-> PatternScore(g.patterns[i], g.concern)]
  BY DEF HighValuePatterns
<1>i. PICK i \in DOMAIN g.patterns :
        /\ g.concern \in GuidedConcerns(context)
        /\ p = [concern |-> g.concern, pattern |-> g.patterns[i],
                score |-> PatternScore(g.patterns[i], g.concern)]
  BY <1>1
<1>2. PICK c \in ToSet(baseline) :
        g = [concern |-> c.concern, principles |-> Principles(c), patterns |-> Patterns(c)]
  BY DEF PrincipleGuidance
<1>3. i \in DOMAIN Patterns(c)
  BY <1>2
<1>4. /\ g.patterns[i].pattern \in PatternNames
      /\ g.patterns[i].confidence \in Levels
      /\ c.confidence = "low" => g.patterns[i].confidence = "low"
  BY <1>2, <1>3, PatternsOfAConcern
<1>5. PatternScore(g.patterns[i], g.concern) \in 0..200
  BY <1>4 DEF PatternScore, PatternNames, Levels
<1>6. g.concern \in Concerns
  BY <1>i DEF GuidedConcerns
<1> QED
  BY <1>i, <1>2, <1>4, <1>5, <1>6

-----------------------------------------------------------------------------
(***************************************************************************)
(* Baselines.  ConcernOf makes an entry of a concern and of what all the   *)
(* entries share, so no two entries of one concern differ.                 *)
(***************************************************************************)
WellMade(B) ==
  /\ \A c, d \in B : c.concern = d.concern => c = d
  /\ \A c \in B : /\ c.confidence \in Levels
                  /\ c.confidence = "low" => c.adequacy.status # "under_structured"

\* Every baseline of generateBaseline is well made.
LEMMA BaselinesAreWellMade ==
  ASSUME NEW items, NEW event, NEW decisions
  PROVE  WellMade(ToSet(BaselineOf(items, event, decisions)))
<1> DEFINE matches == Matches(items, event, decisions)
           order == BaselineConcernOrder(items, matches)
           Of(concern) == ConcernOf(concern, matches, decisions)
<1>1. \A concern : Of(concern).concern = concern
  BY DEF ConcernOf
<1>2. ASSUME NEW concern
      PROVE  /\ Of(concern).confidence \in Levels
             /\ Of(concern).confidence = "low" => Of(concern).adequacy.status = "unknown"
  <2> DEFINE c == ConcernDraft(concern, matches)
  <2>1. Of(concern).adequacy = AdequacyOf(c) /\ Of(concern).confidence = c.confidence
    BY DEF ConcernOf
  <2>2. c.confidence \in Levels
    BY DEF ConcernDraft, CombineFactConfidence, Levels
  <2> HIDE DEF c
  <2>3. c.confidence = "low" => PressureOf(c).provisional
    BY DEF PressureOf, IsProvisional
  <2>4. PressureOf(c).provisional => AdequacyOf(c).status = "unknown"
    BY DEF AdequacyOf, StatusOf
  <2> QED
    BY <2>1, <2>2, <2>3, <2>4
<1>3. \A c \in ToSet(BaselineOf(items, event, decisions)) : \E concern : c = Of(concern)
  BY DEF ToSet, BaselineOf
<1> HIDE DEF Of
<1> QED
  BY <1>1, <1>2, <1>3 DEF WellMade

-----------------------------------------------------------------------------
(***************************************************************************)
(* The selected action, rule by rule.                                      *)
(***************************************************************************)
\* A recommendation that rests on a concern of low confidence says so.
Admits(s, B) ==
  (/\ s.reason \notin {"revisit", "load-bearing"}
   /\ s.intervention \in {"recommend", "block", "decision-required"}
   /\ \E c \in Entry(B, s.concern) : c.confidence = "low") =>
  s.provisional \/ s.requiresQuestion

\* The branches of the policy one by one.  First the explicit risks.
LEMMA RiskAdmits ==
  ASSUME NEW baseline, WellMade(ToSet(baseline)), ExplicitRisk(baseline) # {},
         NEW action, NEW intervention, NEW guidance, NEW asks
  PROVE  Admits(Selected("risk", "risk_hotspot", action, intervention, guidance, asks,
                         The(ExplicitRisk(baseline)).confidence = "low"), ToSet(baseline))
<1> DEFINE risk == The(ExplicitRisk(baseline))
           s == Selected("risk", "risk_hotspot", action, intervention, guidance, asks,
                         risk.confidence = "low")
<1>1. risk \in Entry(ToSet(baseline), "risk_hotspot")
  BY DEF The, ExplicitRisk
<1>2. \A c \in Entry(ToSet(baseline), "risk_hotspot") : c = risk
  BY <1>1 DEF Entry, WellMade
<1>3. s.concern = "risk_hotspot" /\ (risk.confidence = "low" => s.provisional)
  <2> HIDE DEF risk
  <2> QED
    BY DEF Selected
<1> HIDE DEF risk, s
<1>4. Admits(s, ToSet(baseline))
  BY <1>2, <1>3 DEF Admits
<1> QED
  BY <1>4 DEF s, risk

LEMMA UnderStructuredAdmits ==
  ASSUME NEW baseline, WellMade(ToSet(baseline)), UnderStructured(baseline) # {},
         NEW questions, NEW guidance
  PROVE  Admits(UnderStructuredAction(MostUrgent(UnderStructured(baseline)), questions,
                                      guidance), ToSet(baseline))
<1> DEFINE c == MostUrgent(UnderStructured(baseline))
           s == UnderStructuredAction(c, questions, guidance)
<1>1. \A d \in UnderStructured(baseline) : d.concern \in Concerns /\ d.confidence \in Levels
  BY DEF UnderStructured, WellMade
<1>2. c \in UnderStructured(baseline)
  BY <1>1, MostUrgentIsOneOfThem
<1>3. c \in ToSet(baseline) /\ c.confidence # "low"
  BY <1>2 DEF UnderStructured, WellMade
<1>4. s.concern = c.concern
  <2> HIDE DEF c
  <2> QED
    BY DEF UnderStructuredAction, Selected
<1> HIDE DEF s, c
<1>5. \A d \in Entry(ToSet(baseline), s.concern) : d = c
  BY <1>3, <1>4 DEF Entry, WellMade
<1>6. Admits(s, ToSet(baseline))
  BY <1>3, <1>5 DEF Admits
<1> QED
  BY <1>6 DEF s, c

LEMMA PackageAdmits ==
  ASSUME NEW baseline, WellMade(ToSet(baseline)), SurePackage(baseline) # {},
         NEW action, NEW intervention, NEW guidance, NEW asks
  PROVE  Admits(Selected("package boundary", "package_boundary", action, intervention,
                         guidance, asks, FALSE), ToSet(baseline))
<1> DEFINE s == Selected("package boundary", "package_boundary", action, intervention,
                         guidance, asks, FALSE)
<1>1. PICK c \in SurePackage(baseline) : TRUE
  OBVIOUS
<1>2. /\ c \in Entry(ToSet(baseline), "package_boundary")
      /\ c.confidence # "low"
  BY <1>1 DEF SurePackage
<1>3. \A d \in Entry(ToSet(baseline), "package_boundary") : d = c
  BY <1>2 DEF Entry, WellMade
<1>4. s.concern = "package_boundary"
  BY DEF Selected
<1> HIDE DEF s
<1>5. Admits(s, ToSet(baseline))
  BY <1>2, <1>3, <1>4 DEF Admits
<1> QED
  BY <1>5 DEF s

LEMMA PatternAdmits ==
  ASSUME NEW baseline, WellMade(ToSet(baseline)), NEW context, NEW questions,
         HighValuePatterns(PrincipleGuidance(baseline), context) # {}
  PROVE  Admits(PatternAction(FirstHighValuePattern(
                  HighValuePatterns(PrincipleGuidance(baseline), context)),
                  baseline, questions, PrincipleGuidance(baseline)), ToSet(baseline))
<1> DEFINE P == HighValuePatterns(PrincipleGuidance(baseline), context)
           best == FirstHighValuePattern(P)
           s == PatternAction(best, baseline, questions, PrincipleGuidance(baseline))
<1>1. \A p \in P : p.concern \in Concerns /\ p.score \in 0..200
  BY OfferedPatterns
<1>2. best \in P
  <2>1. P # {}
    OBVIOUS
  <2> HIDE DEF P
  <2>2. FirstHighValuePattern(P) \in P
    BY <1>1, <2>1, FirstPatternIsOneOfThem
  <2> QED
    BY <2>2
<1>3. PICK c \in ToSet(baseline) : /\ c.concern = best.concern
                                   /\ c.confidence = "low" => best.pattern.confidence = "low"
  <2> HIDE DEF best
  <2> QED
    BY <1>2, OfferedPatterns
<1>4. s.concern = best.concern /\ s.provisional = (best.pattern.confidence = "low")
  <2> HIDE DEF best
  <2> QED
    BY DEF PatternAction, Selected
<1> HIDE DEF s, best
<1>5. \A d \in Entry(ToSet(baseline), s.concern) : d = c
  BY <1>3, <1>4 DEF Entry, WellMade
<1>6. Admits(s, ToSet(baseline))
  BY <1>3, <1>4, <1>5 DEF Admits
<1> QED
  BY <1>6 DEF s, best

LEMMA NotesAdmit ==
  ASSUME NEW reason, NEW concern, NEW action, NEW guidance, NEW B
  PROVE  Admits(Selected(reason, concern, action, "note", guidance, FALSE, FALSE), B)
BY DEF Admits, Selected

\* selectPolicyAction takes one of these branches.
LEMMA SelectedActionAdmits ==
  ASSUME NEW baseline, WellMade(ToSet(baseline)),
         NEW questions, NEW alerts, NEW context, NEW brief
  PROVE  Admits(SelectPolicyAction(baseline, questions, alerts, PrincipleGuidance(baseline),
                                   context, brief), ToSet(baseline))
<1> DEFINE guidance == PrincipleGuidance(baseline)
           B == ToSet(baseline)
<1>1. \A concern, action, intervention, asks :
        /\ Admits(Selected("revisit", concern, action, intervention, guidance, asks, FALSE), B)
        /\ Admits(Selected("load-bearing", concern, action, intervention, guidance, FALSE,
                           FALSE), B)
  BY DEF Admits, Selected
<1>2. \A concern, action, intervention :
        Admits(Selected("assumptions", concern, action, intervention, guidance, TRUE, FALSE), B)
  BY DEF Admits, Selected
<1>3. \A reason, concern, action :
        Admits(Selected(reason, concern, action, "note", guidance, FALSE, FALSE), B)
  BY NotesAdmit
<1>4. ExplicitRisk(baseline) # {} =>
        Admits(Selected("risk", "risk_hotspot", "Run review",
                        RiskIntervention(The(ExplicitRisk(baseline))), guidance,
                        HasConcern(questions, "risk_hotspot"),
                        The(ExplicitRisk(baseline)).confidence = "low"), B)
  BY RiskAdmits
<1>5. UnderStructured(baseline) # {} =>
        Admits(UnderStructuredAction(MostUrgent(UnderStructured(baseline)), questions,
                                     guidance), B)
  BY UnderStructuredAdmits
<1>6. SurePackage(baseline) # {} =>
        Admits(Selected("package boundary", "package_boundary", "Add test harness",
                        "recommend", guidance, HasConcern(questions, "package_boundary"),
                        FALSE), B)
  BY PackageAdmits
<1>7. HighValuePatterns(guidance, context) # {} =>
        Admits(PatternAction(FirstHighValuePattern(HighValuePatterns(guidance, context)),
                             baseline, questions, guidance), B)
  BY PatternAdmits
<1> HIDE DEF guidance, B
<1>8. Admits(SelectPolicyAction(baseline, questions, alerts, guidance, context, brief), B)
  BY <1>1, <1>2, <1>3, <1>4, <1>5, <1>6, <1>7 DEF SelectPolicyAction
<1> QED
  BY <1>8 DEF guidance, B

-----------------------------------------------------------------------------
(***************************************************************************)
(* The session: a result is always one that assessArchitecture returned.   *)
(***************************************************************************)
\* The items the collectors bring are a sequence.
LEMMA CollectedIsSequence ==
  ASSUME NEW outcomes \in Collections
  PROVE  IsSequence(Collected(outcomes))
<1> DEFINE ss == [i \in DOMAIN outcomes |->
                    IF outcomes[i].how = "answered" THEN outcomes[i].items
                    ELSE << FailedItem(outcomes[i].collector) >>]
<1>1. PICK n \in Nat : outcomes \in [1..n -> Outcomes]
  BY BoundsAssumption DEF Collections
<1>2. DOMAIN outcomes = 1..n
  BY <1>1
<1>3. ASSUME NEW i \in 1..n PROVE IsSequence(ss[i])
  <2>1. outcomes[i] \in Outcomes
    BY <1>1
  <2>2. IsSequence(outcomes[i].items)
    BY <2>1, OutcomesAssumption DEF IsSequence
  <2>3. IsSequence(<< FailedItem(outcomes[i].collector) >>)
    BY OneElement
  <2>4. ss[i] = IF outcomes[i].how = "answered" THEN outcomes[i].items
                ELSE << FailedItem(outcomes[i].collector) >>
    BY <1>2
  <2> HIDE DEF ss
  <2> QED
    BY <2>2, <2>3, <2>4
<1>4. ss = [i \in 1..n |-> ss[i]]
  BY <1>2
<1>5. Collected(outcomes) = FlattenSeq(ss)
  BY DEF Collected
<1> HIDE DEF ss
<1>6. IsSequence(FlattenSeq(ss))
  BY <1>3, <1>4, Flattened
<1> QED
  BY <1>5, <1>6

\* Collected or sent, the items assessed are a list.
LEMMA AnAssessment ==
  ASSUME Assess
  PROVE  \E event, items : event \in Events /\ IsSequence(items) /\ AssessWith(event, items)
<1>1. ASSUME NEW event \in Events, NEW outcomes \in Collections,
             AssessWith(event, Collected(outcomes))
      PROVE  \E e, i : e \in Events /\ IsSequence(i) /\ AssessWith(e, i)
  BY <1>1, CollectedIsSequence
<1>2. ASSUME NEW event \in Events, NEW items \in Sent, AssessWith(event, items)
      PROVE  \E e, i : e \in Events /\ IsSequence(i) /\ AssessWith(e, i)
  BY <1>2, SentAssumption DEF IsSequence
<1> QED
  BY <1>1, <1>2 DEF Assess, AssessCollected, AssessSent

Returned ==
  result = NoResult \/ \E event, items, memory : result = AssessmentOf(event, items, memory)

\* What is in hand was returned by an assessment.
LEMMA ReturnedAlways == Spec => []Returned
<1>1. Init => Returned
  BY DEF Init, Returned
<1>2. Returned /\ [Next]_vars => Returned'
  <2> SUFFICES ASSUME Returned, [Next]_vars PROVE Returned'
    OBVIOUS
  <2>1. CASE Assess
    BY <2>1, AnAssessment DEF AssessWith, Returned
  <2>2. CASE AcceptDebt
    BY <2>2 DEF AcceptDebt, Remember, Returned
  <2>3. CASE RecordDecision
    BY <2>3 DEF RecordDecision, Remember, Returned
  <2>4. CASE MoveOn
    BY <2>4 DEF MoveOn, Returned
  <2>5. CASE UNCHANGED vars
    BY <2>5 DEF vars, Returned
  <2> QED
    BY <2>1, <2>2, <2>3, <2>4, <2>5 DEF Next
<1> QED
  BY <1>1, <1>2, PTL DEF Spec

\* The advice and the baseline of one assessment belong together.
LEMMA AssessmentsAdmit ==
  ASSUME NEW event, NEW items, NEW memory
  PROVE  LET r == AssessmentOf(event, items, memory)
         IN Admits(r.selected, ToSet(r.baseline))
<1>1. PICK evidence, decisions, questions, alerts, context, brief :
        LET baseline == BaselineOf(evidence, event, decisions)
        IN /\ AssessmentOf(event, items, memory).baseline = baseline
           /\ AssessmentOf(event, items, memory).selected
                = SelectPolicyAction(baseline, questions, alerts,
                                     PrincipleGuidance(baseline), context, brief)
  BY DEF AssessmentOf, AdviceFrom, Advice
<1> DEFINE baseline == BaselineOf(evidence, event, decisions)
<1>2. WellMade(ToSet(baseline))
  BY BaselinesAreWellMade
<1> HIDE DEF baseline
<1>3. Admits(SelectPolicyAction(baseline, questions, alerts, PrincipleGuidance(baseline),
                                context, brief), ToSet(baseline))
  BY <1>2, SelectedActionAdmits
<1> QED
  BY <1>1, <1>3 DEF baseline

\* Whatever the evidence, the memory and the event, advice to change the code
\* that rests on a concern of low confidence is provisional or asks first.
THEOREM WeakEvidence == Spec => []WeakEvidenceIsProvisional
<1>1. Returned => WeakEvidenceIsProvisional
  <2> SUFFICES ASSUME Returned, Assessed PROVE Admits(result.selected, ToSet(result.baseline))
    BY DEF WeakEvidenceIsProvisional, Admits, Advised
  <2>1. PICK event, items, memory : result = AssessmentOf(event, items, memory)
    BY DEF Returned, Assessed
  <2> QED
    BY <2>1, AssessmentsAdmit
<1> QED
  BY <1>1, ReturnedAlways, PTL

-----------------------------------------------------------------------------
(***************************************************************************)
(* From the items to the matches.                                          *)
(***************************************************************************)
\* A signal that may be sure evidence is that of an item.
IsOfItem(signal, items) == \E i \in DOMAIN items : signal = SignalOf(items[i])

\* The lines of a text that has one at most.
LEMMA OneLineIs ==
  ASSUME NEW words
  PROVE  IsSequence(OneLine(words))
BY OneElement, EmptySequence DEF OneLine

\* The signals the event brings by itself are never sure evidence, and every
\* signal has a list of lines.
LEMMA EventSignals ==
  ASSUME NEW event, IsSequence(event.priors), IsSequence(event.changed.files),
         NEW items, IsSequence(items), NEW testStatus
  PROVE  LET signals == TelemetryFromEvent(event, testStatus, event.priors, items).signals
         IN /\ IsSequence(signals)
            /\ \A s \in ToSet(signals) :
                 /\ IsSequence(s.lines)
                 /\ IsOfItem(s, items) \/ s.family = "lifecycle" \/ s.confidence # "high"
<1> DEFINE memory == [i \in 1..Len(event.priors) |-> MemorySignal(event.priors[i], i)]
           own == [i \in 1..Len(items) |-> SignalOf(items[i])]
           head == <<LifecycleSignal(event)>>
           Fine(s) == /\ IsSequence(s.lines)
                      /\ IsOfItem(s, items) \/ s.family = "lifecycle" \/ s.confidence # "high"
<1>1. IsSequence(head) /\ \A s \in ToSet(head) : Fine(s)
  <2>1. /\ LifecycleSignal(event).family = "lifecycle"
        /\ IsSequence(LifecycleSignal(event).lines)
    BY OneLineIs DEF LifecycleSignal
  <2> QED
    BY <2>1, OneElement
<1>2. IsSequence(RepositorySignals(event)) /\ \A s \in ToSet(RepositorySignals(event)) : Fine(s)
  <2> DEFINE r == [id |-> <<"repository", "repoSignals", event.cwd>>,
                   family |-> "repository", source |-> "repoSignals",
                   category |-> "repo_summary", status |-> ReadStatus(event.repoStatus),
                   freshness |-> "current",
                   confidence |-> IF ReadStatus(event.repoStatus) = "present" THEN "medium"
                                  ELSE "low",
                   words |-> event.repoWords, lines |-> OneLine(event.repoWords),
                   details |-> NoDetails]
  <2>1. Fine(r)
    BY OneLineIs
  <2>2. RepositorySignals(event) \in {<<>>, <<r>>}
    BY DEF RepositorySignals
  <2> HIDE DEF r
  <2> QED
    BY <2>1, <2>2, OneElement, EmptySequence
<1>3. IsSequence(ChangeSignals(event)) /\ \A s \in ToSet(ChangeSignals(event)) : Fine(s)
  <2> DEFINE r == [id |-> <<"change", "changedFiles", event.cwd>>, family |-> "change",
                   source |-> "event.changedFiles", category |-> "changed_file_spread",
                   status |-> "present", freshness |-> "current", confidence |-> "medium",
                   words |-> ChangedWords(event), lines |-> event.changed.files,
                   details |-> NoDetails]
  <2>1. Fine(r)
    OBVIOUS
  <2>2. ChangeSignals(event) \in {<<>>, <<r>>}
    BY DEF ChangeSignals
  <2> HIDE DEF r
  <2> QED
    BY <2>1, <2>2, OneElement, EmptySequence
<1>4. IsSequence(TestSignals(testStatus)) /\ \A s \in ToSet(TestSignals(testStatus)) : Fine(s)
  <2> DEFINE r == [id |-> <<"test", "testSummary", testStatus>>, family |-> "test",
                   source |-> "testSummary", category |-> "test_summary",
                   status |-> "present", freshness |-> "current",
                   confidence |-> IF testStatus = "unknown" THEN "low" ELSE "medium",
                   words |-> {"test status", testStatus},
                   lines |-> << {"test status", testStatus} >>, details |-> NoDetails]
  <2>1. Fine(r)
    BY OneElement
  <2>2. TestSignals(testStatus) \in {<<>>, <<r>>}
    BY DEF TestSignals
  <2> HIDE DEF r
  <2> QED
    BY <2>1, <2>2, OneElement, EmptySequence
<1>5. IsSequence(memory) /\ \A s \in ToSet(memory) : Fine(s)
  <2>1. Len(event.priors) \in Nat
    BY DomainOfSequence
  <2>2. IsSequence(memory) /\ ToSet(memory) = {memory[i] : i \in 1..Len(event.priors)}
    BY <2>1, Tabulated
  <2>3. \A i \in 1..Len(event.priors) : memory[i].confidence # "high" /\ IsSequence(memory[i].lines)
    BY OneLineIs DEF MemorySignal
  <2> HIDE DEF memory
  <2> QED
    BY <2>2, <2>3
<1>6. IsSequence(own) /\ \A s \in ToSet(own) : Fine(s)
  <2>1. Len(items) \in Nat /\ DOMAIN items = 1..Len(items)
    BY DomainOfSequence
  <2>2. IsSequence(own) /\ ToSet(own) = {own[i] : i \in 1..Len(items)}
    BY <2>1, Tabulated
  <2>3. \A i \in 1..Len(items) : IsOfItem(own[i], items)
    BY <2>1 DEF IsOfItem
  <2>4. \A i \in 1..Len(items) : IsSequence(own[i].lines)
    BY OneLineIs DEF SignalOf
  <2> HIDE DEF own
  <2> QED
    BY <2>2, <2>3, <2>4
<1>7. TelemetryFromEvent(event, testStatus, event.priors, items).signals
        = head \o RepositorySignals(event) \o ChangeSignals(event) \o TestSignals(testStatus)
            \o memory \o own
  BY DEF TelemetryFromEvent, TelemetryFromEvidence
<1> HIDE DEF Fine, head, memory, own
<1>8. ASSUME NEW s, NEW t, IsSequence(s), IsSequence(t),
             \A x \in ToSet(s) : Fine(x), \A x \in ToSet(t) : Fine(x)
      PROVE  IsSequence(s \o t) /\ \A x \in ToSet(s \o t) : Fine(x)
  BY <1>8, Concatenated
<1> DEFINE a == head \o RepositorySignals(event)
           b == a \o ChangeSignals(event)
           c == b \o TestSignals(testStatus)
           d == c \o memory
<1>9. IsSequence(a) /\ \A x \in ToSet(a) : Fine(x)
  BY <1>1, <1>2, <1>8
<1> HIDE DEF a
<1>10. IsSequence(b) /\ \A x \in ToSet(b) : Fine(x)
  BY <1>3, <1>8, <1>9
<1> HIDE DEF b
<1>11. IsSequence(c) /\ \A x \in ToSet(c) : Fine(x)
  BY <1>4, <1>8, <1>10
<1> HIDE DEF c
<1>12. IsSequence(d) /\ \A x \in ToSet(d) : Fine(x)
  BY <1>5, <1>8, <1>11
<1> HIDE DEF d
<1>13. IsSequence(d \o own) /\ \A x \in ToSet(d \o own) : Fine(x)
  BY <1>6, <1>8, <1>12
<1>14. TelemetryFromEvent(event, testStatus, event.priors, items).signals = d \o own
  BY <1>7 DEF a, b, c, d
<1> QED
  BY <1>13, <1>14 DEF Fine

\* What is read back as evidence are the signals of five families.
LEMMA EvidenceIsOfSignals ==
  ASSUME NEW telemetry, IsSequence(telemetry.signals)
  PROVE  /\ IsSequence(EvidenceFromTelemetry(telemetry))
         /\ \A e \in ToSet(EvidenceFromTelemetry(telemetry)) :
              \E s \in ToSet(telemetry.signals) : s.family # "lifecycle" /\ e = ItemOf(s)
<1> DEFINE Signals(name) == FamilyOf(telemetry, name)
           Good(t) == /\ IsSequence(t)
                      /\ \A s \in ToSet(t) : s \in ToSet(telemetry.signals)
                                             /\ s.family # "lifecycle"
<1>1. ASSUME NEW name, name # "lifecycle" PROVE Good(Signals(name))
  <2> DEFINE all == telemetry.signals
             I == {i \in DOMAIN all : all[i].family = name}
  <2>1. IsSequence(AtPlaces(all, I)) /\ ToSet(AtPlaces(all, I)) = {all[i] : i \in I}
    BY FilteredSequence
  <2>2. Signals(name) = AtPlaces(all, I)
    BY DEF FamilyOf
  <2>3. \A i \in I : all[i] \in ToSet(all) /\ all[i].family # "lifecycle"
    BY <1>1 DEF ToSet
  <2> QED
    BY <2>1, <2>2, <2>3
<1>2. ASSUME NEW s, NEW t, Good(s), Good(t) PROVE Good(s \o t)
  BY <1>2, Concatenated
<1> HIDE DEF Good, Signals
<1> DEFINE a == Signals("repository") \o Signals("change")
           b == a \o Signals("test")
           c == b \o Signals("runtime")
           d == c \o Signals("memory")
<1>3. Good(a)
  BY <1>1, <1>2
<1>4. Good(b)
  BY <1>1, <1>2, <1>3
<1>5. Good(c)
  BY <1>1, <1>2, <1>4
<1>6. Good(d)
  BY <1>1, <1>2, <1>5
<1>7. EvidenceFromTelemetry(telemetry) = [i \in 1..Len(d) |-> ItemOf(d[i])]
  BY DEF EvidenceFromTelemetry, Signals
<1> HIDE DEF a, b, c, d
<1>8. Len(d) \in Nat /\ DOMAIN d = 1..Len(d)
  BY <1>6, DomainOfSequence DEF Good
<1> DEFINE evidence == [i \in 1..Len(d) |-> ItemOf(d[i])]
<1>9. IsSequence(evidence) /\ ToSet(evidence) = {evidence[i] : i \in 1..Len(d)}
  BY <1>8, Tabulated
<1>10. \A i \in 1..Len(d) : d[i] \in ToSet(telemetry.signals) /\ d[i].family # "lifecycle"
  BY <1>6, <1>8 DEF Good, ToSet
<1>11. \A i \in 1..Len(d) : evidence[i] = ItemOf(d[i])
  OBVIOUS
<1> HIDE DEF evidence
<1>12. \A e \in ToSet(evidence) :
         \E s \in ToSet(telemetry.signals) : s.family # "lifecycle" /\ e = ItemOf(s)
  BY <1>9, <1>10, <1>11
<1> QED
  BY <1>7, <1>9, <1>12 DEF evidence

\* The order of the concerns names each of them.
LEMMA ConcernOrderIsOfConcerns ==
  /\ IsSequence(ConcernOrder)
  /\ DOMAIN ConcernOrder = 1..14
  /\ ToSet(ConcernOrder) = Concerns
<1>1. ConcernOrder \in Seq(Concerns)
  BY DEF ConcernOrder, Concerns
<1>2. DOMAIN ConcernOrder = 1..14
  BY DEF ConcernOrder
<1>3. Concerns \subseteq ToSet(ConcernOrder)
  <2>1. \A c \in Concerns : \E k \in 1..14 : ConcernOrder[k] = c
    BY DEF ConcernOrder, Concerns
  <2> QED
    BY <1>2, <2>1 DEF ToSet
<1> QED
  BY <1>1, <1>2, <1>3, SequencesAre

LEMMA ThresholdNames ==
  Thresholds = {"repetition", "state_ownership", "persistence", "identity", "collaboration",
                "public_api", "deployment", "operational", "security", "blast_radius", "revisit"}
BY DEF Thresholds, ThresholdDrivers

\* A match raises thresholds of the list, and none for what it cannot name.
LEMMA MatchThresholdsAreThresholds ==
  ASSUME NEW concern, NEW words, NEW event
  PROVE  /\ MatchThresholds(concern, words, event) \subseteq Thresholds
         /\ concern = "unknown" => MatchThresholds(concern, words, event) = {}
<1> DEFINE rep == IF \/ RepeatedRequestPressure(event)
                     \/ Mentions(words, {"repeat", "duplicate", "repeated", "duplicated"})
                  THEN {"repetition"} ELSE {}
           col == IF Mentions(words, {"share", "sharing", "sync", "team", "multi-user",
                                      "collaboration", "collaborative"})
                  THEN {"collaboration"} ELSE {}
           m == MatchThresholds(concern, words, event)
<1>1. rep \subseteq {"repetition"} /\ col \subseteq {"collaboration"}
  OBVIOUS
<1>2. m = CASE concern = "state_ownership" -> {"state_ownership"} \cup rep
            [] concern = "data_storage" -> {"persistence"} \cup col
            [] concern = "authentication" -> {"identity", "security"}
            [] concern = "authorization"  -> {"security"}
            [] concern = "deployment"     -> {"deployment"}
            [] concern = "api_contract"   -> {"public_api"}
            [] concern = "observability"  -> {"operational"}
            [] concern = "risk_hotspot"   -> {"blast_radius"}
            [] OTHER                      -> {}
  BY DEF MatchThresholds
<1> HIDE DEF rep, col, m
<1>3. m \in {{"state_ownership"} \cup rep, {"persistence"} \cup col, {"identity", "security"},
             {"security"}, {"deployment"}, {"public_api"}, {"operational"},
             {"blast_radius"}, {}}
  BY <1>2, Zenon
<1>4. concern = "unknown" => m = {}
  BY <1>2, Zenon
<1>5. m \subseteq Thresholds
  BY <1>1, <1>3, ThresholdNames
<1> QED
  BY <1>4, <1>5 DEF m

\* A decision whose concern is not in the list is taken for one of unknown
\* concern.
LEMMA DecisionConcernIsConcern ==
  ASSUME NEW name PROVE DecisionConcern(name) \in Concerns
<1>1. DecisionConcern(name) \in {"data_storage", "authentication", "deployment", "api_contract",
                                 "state_ownership", "unknown"}
  BY Zenon DEF DecisionConcern
<1> QED
  BY <1>1 DEF Concerns

\* An item bears on a concern if it speaks of it or if a decision on it is due;
\* what speaks of nothing else bears on "unknown".
Bears(item, concern, decisions) ==
  \/ SpeaksOf(item, concern)
  \/ concern = "unknown"
  \/ \E d \in ToSet(decisions) :
       DecisionConcern(d.concern) = concern /\ IsDue(d, item.words)

\* Only sure evidence that bears on the concern of a match makes it sure.
Grounded(m, evidence, decisions) ==
  /\ m.concern \in Concerns
  /\ m.thresholds \subseteq Thresholds
  /\ m.concern = "unknown" => m.thresholds \subseteq {"revisit"}
  /\ m.source.status = "present"
  /\ m.source.confidence = "high" =>
       \E e \in ToSet(evidence) : /\ e.status = "present" /\ e.confidence = "high"
                                  /\ Bears(e, m.concern, decisions)

\* Its lines are those of an item of the evidence, the changed files, or a list.
Quotes(m, evidence, event) ==
  \/ \E e \in ToSet(evidence) : m.lines = e.lines
  \/ m.lines = event.changed.files
  \/ IsSequence(m.lines)

\* The decisions a text makes due are among those given.
LEMMA DueDecisions ==
  ASSUME NEW decisions, IsSequence(decisions), NEW text
  PROVE  /\ IsSequence(Due(decisions, text))
         /\ \A d \in ToSet(Due(decisions, text)) : d \in ToSet(decisions) /\ IsDue(d, text)
<1> DEFINE I == {i \in DOMAIN decisions : IsDue(decisions[i], text)}
<1>1. /\ IsSequence(AtPlaces(decisions, I))
      /\ ToSet(AtPlaces(decisions, I)) = {decisions[i] : i \in I}
  BY FilteredSequence
<1>2. \A i \in I : decisions[i] \in ToSet(decisions) /\ IsDue(decisions[i], text)
  BY DEF ToSet
<1>3. Due(decisions, text) = AtPlaces(decisions, I)
  BY DEF Due
<1> HIDE DEF I
<1> QED
  BY <1>1, <1>2, <1>3

\* The two kinds of match.  One by a revisit condition of a decision:
LEMMA RevisitMatchIsGrounded ==
  ASSUME NEW d, NEW source, NEW lines, NEW evidence, NEW decisions, source.status = "present",
         source.confidence = "high" =>
           \E e \in ToSet(evidence) : /\ e.status = "present" /\ e.confidence = "high"
                                      /\ Bears(e, DecisionConcern(d.concern), decisions)
  PROVE  Grounded(RevisitMatch(d, source, lines), evidence, decisions)
<1> DEFINE m == RevisitMatch(d, source, lines)
<1>1. /\ m.concern = DecisionConcern(d.concern) /\ m.thresholds = {"revisit"}
      /\ m.source = source
  BY DEF RevisitMatch
<1>2. m.concern \in Concerns
  BY <1>1, DecisionConcernIsConcern
<1>3. m.thresholds \subseteq Thresholds
  BY <1>1, ThresholdNames
<1> HIDE DEF m
<1>4. Grounded(m, evidence, decisions)
  BY <1>1, <1>2, <1>3 DEF Grounded
<1> QED
  BY <1>4 DEF m

\* and one by the words of an item.
LEMMA MatchIsGrounded ==
  ASSUME NEW concern \in Concerns, NEW item, NEW event, NEW evidence, NEW decisions,
         item \in ToSet(evidence), item.status = "present",
         SpeaksOf(item, concern) \/ concern = "unknown"
  PROVE  Grounded(Match(concern, item, event), evidence, decisions)
<1> DEFINE m == Match(concern, item, event)
<1>1. /\ m.concern = concern /\ m.thresholds = MatchThresholds(concern, item.words, event)
      /\ m.source = SourceRef(item)
  BY DEF Match
<1>2. m.source.status = item.status /\ m.source.confidence = item.confidence
  BY <1>1 DEF SourceRef
<1>3. m.thresholds \subseteq Thresholds /\ (m.concern = "unknown" => m.thresholds = {})
  BY <1>1, MatchThresholdsAreThresholds
<1>4. Bears(item, concern, decisions)
  BY DEF Bears
<1> HIDE DEF m
<1>5. Grounded(m, evidence, decisions)
  BY <1>1, <1>2, <1>3, <1>4 DEF Grounded
<1> QED
  BY <1>5 DEF m

\* classifyEvidence, for an item of the evidence that is present.
LEMMA ClassifiedAreGrounded ==
  ASSUME NEW item, NEW event, NEW evidence, NEW decisions, IsSequence(decisions),
         item \in ToSet(evidence), item.status = "present"
  PROVE  /\ IsSequence(ClassifyEvidence(item, event, decisions))
         /\ \A m \in ToSet(ClassifyEvidence(item, event, decisions)) :
              Grounded(m, evidence, decisions) /\ m.lines = item.lines
<1> DEFINE I == {k \in DOMAIN ConcernOrder : SpeaksOf(item, ConcernOrder[k])}
           spoken == AtPlaces(ConcernOrder, I)
           concerns == IF spoken = <<>> /\ item.lines # <<>> THEN <<"unknown">> ELSE spoken
           due == Due(decisions, item.words)
           own == [i \in DOMAIN concerns |-> Match(concerns[i], item, event)]
           old == [i \in DOMAIN due |-> RevisitMatch(due[i], SourceRef(item), item.lines)]
<1>1. /\ IsSequence(concerns)
      /\ \A c \in ToSet(concerns) : c \in Concerns /\ (SpeaksOf(item, c) \/ c = "unknown")
  <2>1. IsSequence(spoken) /\ ToSet(spoken) = {ConcernOrder[k] : k \in I}
    BY FilteredSequence, ConcernOrderIsOfConcerns
  <2>2. \A k \in I : ConcernOrder[k] \in Concerns /\ SpeaksOf(item, ConcernOrder[k])
    BY ConcernOrderIsOfConcerns DEF ToSet
  <2>3. IsSequence(<<"unknown">>) /\ ToSet(<<"unknown">>) = {"unknown"}
    BY OneElement
  <2>4. "unknown" \in Concerns
    BY DEF Concerns
  <2>5. concerns \in {<<"unknown">>, spoken}
    OBVIOUS
  <2> HIDE DEF spoken, concerns, I
  <2> QED
    BY <2>1, <2>2, <2>3, <2>4, <2>5
<1>2. IsSequence(due) /\ \A d \in ToSet(due) : d \in ToSet(decisions) /\ IsDue(d, item.words)
  BY DueDecisions
<1> HIDE DEF concerns, due
<1>3. /\ IsSequence(own)
      /\ \A m \in ToSet(own) : Grounded(m, evidence, decisions) /\ m.lines = item.lines
  <2>1. DOMAIN concerns = 1..Len(concerns) /\ Len(concerns) \in Nat
    BY <1>1, DomainOfSequence
  <2>2. IsSequence(own) /\ ToSet(own) = {own[i] : i \in 1..Len(concerns)}
    BY <2>1, Tabulated
  <2>3. ASSUME NEW i \in 1..Len(concerns)
        PROVE  Grounded(own[i], evidence, decisions) /\ own[i].lines = item.lines
    <3>1. concerns[i] \in ToSet(concerns)
      BY <2>1 DEF ToSet
    <3>2. Grounded(Match(concerns[i], item, event), evidence, decisions)
      BY <1>1, <3>1, MatchIsGrounded
    <3>3. Match(concerns[i], item, event).lines = item.lines
      BY DEF Match
    <3> QED
      BY <2>1, <3>2, <3>3
  <2> HIDE DEF own
  <2> QED
    BY <2>2, <2>3
<1>4. /\ IsSequence(old)
      /\ \A m \in ToSet(old) : Grounded(m, evidence, decisions) /\ m.lines = item.lines
  <2>1. DOMAIN due = 1..Len(due) /\ Len(due) \in Nat
    BY <1>2, DomainOfSequence
  <2>2. IsSequence(old) /\ ToSet(old) = {old[i] : i \in 1..Len(due)}
    BY <2>1, Tabulated
  <2>3. ASSUME NEW i \in 1..Len(due)
        PROVE  Grounded(old[i], evidence, decisions) /\ old[i].lines = item.lines
    <3>1. due[i] \in ToSet(due)
      BY <2>1 DEF ToSet
    <3>2. Bears(item, DecisionConcern(due[i].concern), decisions)
      BY <1>2, <3>1 DEF Bears
    <3>3. SourceRef(item).status = "present" /\ SourceRef(item).confidence = item.confidence
      BY DEF SourceRef
    <3>4. Grounded(RevisitMatch(due[i], SourceRef(item), item.lines), evidence, decisions)
      BY <3>2, <3>3, RevisitMatchIsGrounded
    <3>5. RevisitMatch(due[i], SourceRef(item), item.lines).lines = item.lines
      BY DEF RevisitMatch
    <3> QED
      BY <2>1, <3>4, <3>5
  <2> HIDE DEF old
  <2> QED
    BY <2>2, <2>3
<1>5. ClassifyEvidence(item, event, decisions) \in {<<>>, own \o old}
  BY DEF ClassifyEvidence, own, old, concerns, due
<1> HIDE DEF own, old
<1>6. IsSequence(own \o old) /\ ToSet(own \o old) = ToSet(own) \cup ToSet(old)
  BY <1>3, <1>4, Concatenated
<1> QED
  BY <1>3, <1>4, <1>5, <1>6, EmptySequence

\* Every match rests on evidence that is present.
LEMMA MatchesAreGrounded ==
  ASSUME NEW evidence, IsSequence(evidence), NEW event, NEW decisions, IsSequence(decisions)
  PROVE  /\ IsSequence(Matches(evidence, event, decisions))
         /\ \A m \in ToSet(Matches(evidence, event, decisions)) :
              Grounded(m, evidence, decisions) /\ Quotes(m, evidence, event)
<1> DEFINE present == Present(evidence)
           classified == [i \in DOMAIN present |-> ClassifyEvidence(present[i], event, decisions)]
           Fine(s) == /\ IsSequence(s)
                      /\ \A m \in ToSet(s) :
                           Grounded(m, evidence, decisions) /\ Quotes(m, evidence, event)
           text == event.request \cup event.recentWords \cup ChangedWords(event)
           due == Due(decisions, text)
           Lines(i) == Quoting(MatchedCondition(due[i], text))
           old == [i \in DOMAIN due |-> RevisitMatch(due[i], DecisionRef(due[i]), Lines(i))]
<1>1. /\ IsSequence(present)
      /\ \A e \in ToSet(present) : e \in ToSet(evidence) /\ e.status = "present"
  <2> DEFINE I == {i \in DOMAIN evidence : evidence[i].status = "present"}
  <2>1. IsSequence(AtPlaces(evidence, I)) /\ ToSet(AtPlaces(evidence, I)) = {evidence[i] : i \in I}
    BY FilteredSequence
  <2>2. \A i \in I : evidence[i] \in ToSet(evidence) /\ evidence[i].status = "present"
    BY DEF ToSet
  <2>3. present = AtPlaces(evidence, I)
    BY DEF Present
  <2> HIDE DEF I, present
  <2> QED
    BY <2>1, <2>2, <2>3
<1> HIDE DEF present
<1>2. Fine(FlattenSeq(classified))
  <2>1. DOMAIN present = 1..Len(present) /\ Len(present) \in Nat
    BY <1>1, DomainOfSequence
  <2>2. ASSUME NEW i \in 1..Len(present) PROVE Fine(classified[i])
    <3>1. present[i] \in ToSet(present)
      BY <2>1 DEF ToSet
    <3>2. present[i] \in ToSet(evidence) /\ present[i].status = "present"
      BY <1>1, <3>1
    <3>3. Fine(ClassifyEvidence(present[i], event, decisions))
      BY <3>2, ClassifiedAreGrounded DEF Quotes
    <3> QED
      BY <2>1, <3>3
  <2>3. classified = [i \in 1..Len(present) |-> classified[i]]
    BY <2>1
  <2> HIDE DEF classified
  <2>4. /\ IsSequence(FlattenSeq(classified))
        /\ ToSet(FlattenSeq(classified)) = UNION {ToSet(classified[i]) : i \in 1..Len(present)}
    BY <2>1, <2>2, <2>3, Flattened
  <2> QED
    BY <2>2, <2>4
<1>3. Fine(ChangedFileSpread(event))
  <2> DEFINE m == [concern |-> "risk_hotspot", label |-> {},
           source |-> [source |-> "event.changedFiles", category |-> "changed_file_spread",
                       status |-> "present", freshness |-> "current",
                       confidence |-> "medium"],
           lines |-> event.changed.files, thresholds |-> {"blast_radius"},
           complexity |-> "high", conflict |-> FALSE]
  <2>1. Grounded(m, evidence, decisions) /\ Quotes(m, evidence, event)
    <3>1. m.concern = "risk_hotspot" /\ m.thresholds = {"blast_radius"}
          /\ m.source.status = "present" /\ m.source.confidence = "medium"
          /\ m.lines = event.changed.files
      OBVIOUS
    <3>2. "risk_hotspot" \in Concerns /\ {"blast_radius"} \subseteq Thresholds
      BY ThresholdNames DEF Concerns
    <3> HIDE DEF m
    <3> QED
      BY <3>1, <3>2 DEF Grounded, Quotes
  <2>2. ChangedFileSpread(event) \in {<<>>, <<m>>}
    BY DEF ChangedFileSpread
  <2> HIDE DEF m
  <2> QED
    BY <2>1, <2>2, OneElement, EmptySequence
<1>4. Fine(old)
  <2>1. IsSequence(due)
    BY DueDecisions
  <2>0. \A i : IsSequence(Lines(i))
    BY OneElement DEF Quoting
  <2> HIDE DEF due, Lines
  <2>2. DOMAIN due = 1..Len(due) /\ Len(due) \in Nat
    BY <2>1, DomainOfSequence
  <2>3. IsSequence(old) /\ ToSet(old) = {old[i] : i \in 1..Len(due)}
    BY <2>2, Tabulated
  <2>4. ASSUME NEW i \in 1..Len(due)
        PROVE  Grounded(old[i], evidence, decisions) /\ Quotes(old[i], evidence, event)
    <3>1. DecisionRef(due[i]).status = "present" /\ DecisionRef(due[i]).confidence = "medium"
      BY DEF DecisionRef
    <3>2. Grounded(RevisitMatch(due[i], DecisionRef(due[i]), Lines(i)), evidence, decisions)
      BY <3>1, RevisitMatchIsGrounded
    <3>3. IsSequence(RevisitMatch(due[i], DecisionRef(due[i]), Lines(i)).lines)
      BY <2>0 DEF RevisitMatch
    <3> QED
      BY <2>2, <3>2, <3>3 DEF Quotes
  <2> HIDE DEF old
  <2> QED
    BY <2>3, <2>4
<1>5. Matches(evidence, event, decisions)
        = FlattenSeq(classified) \o ChangedFileSpread(event) \o old
  BY DEF Matches, EvidenceMatches, PriorDecisionRevisits, present
<1> HIDE DEF classified, old
<1>6. ASSUME NEW s, NEW t, Fine(s), Fine(t) PROVE Fine(s \o t)
  BY <1>6, Concatenated
<1> HIDE DEF Fine
<1>7. Fine(FlattenSeq(classified) \o ChangedFileSpread(event))
  BY <1>2, <1>3, <1>6
<1>8. Fine(Matches(evidence, event, decisions))
  BY <1>4, <1>5, <1>6, <1>7
<1> QED
  BY <1>8 DEF Fine

\* A set of two has two elements that differ.
LEMMA TwoOf ==
  ASSUME NEW S, Cardinality(S) >= 2
  PROVE  \E s, t \in S : s # t
<1>1. SUFFICES ASSUME \A s, t \in S : s = t PROVE FALSE
  OBVIOUS
<1>2. CASE S = {}
  BY <1>2, FS_EmptySet
<1>3. CASE S # {}
  <2>1. PICK x \in S : TRUE
    BY <1>3
  <2>2. S = {x}
    BY <1>1, <2>1
  <2>3. Cardinality(S) = 1
    BY <2>2, FS_Singleton
  <2> QED
    BY <2>3
<1> QED
  BY <1>2, <1>3

\* What is left of the sources when repeated ones go is among them.
LEMMA UniqueSourcesAreSources ==
  ASSUME NEW sources
  PROVE  UniqueSources(sources) \subseteq ToSet(sources)
BY DEF UniqueSources, ToSet

\* Two sources of a fact differ in their source, category or status.
LEMMA UniqueSourcesDiffer ==
  ASSUME NEW sources, IsSequence(sources),
         NEW s \in UniqueSources(sources), NEW t \in UniqueSources(sources), s # t
  PROVE  s.source # t.source \/ s.category # t.category \/ s.status # t.status
<1> DEFINE Same(i, k) == /\ sources[k].source = sources[i].source
                         /\ sources[k].category = sources[i].category
                         /\ sources[k].status = sources[i].status
<1>1. PICK i \in DOMAIN sources : s = sources[i] /\ ~\E k \in 1..(i - 1) : Same(i, k)
  BY DEF UniqueSources
<1>2. PICK j \in DOMAIN sources : t = sources[j] /\ ~\E k \in 1..(j - 1) : Same(j, k)
  BY DEF UniqueSources
<1>3. i \in Nat /\ j \in Nat /\ i >= 1 /\ j >= 1 /\ i # j
  BY <1>1, <1>2, DomainOfSequence
<1>4. CASE i < j
  <2>1. i \in 1..(j - 1)
    BY <1>3, <1>4
  <2>2. ~Same(j, i)
    BY <1>2, <2>1
  <2> QED
    BY <1>1, <1>2, <2>2
<1>5. CASE j < i
  <2>1. j \in 1..(i - 1)
    BY <1>3, <1>5
  <2>2. ~Same(i, j)
    BY <1>1, <2>1
  <2> QED
    BY <1>1, <1>2, <2>2
<1> QED
  BY <1>3, <1>4, <1>5

\* A confidence is a level, and a high one has a source that is sure.
LEMMA CombinedConfidence ==
  ASSUME NEW sources, NEW conflict
  PROVE  /\ CombineConfidence(sources, conflict) \in Levels
         /\ CombineConfidence(sources, conflict) = "high" =>
              \E s \in ToSet(sources) : s.confidence = "high"
<1> DEFINE Count(S) == Cardinality({i \in DOMAIN sources : sources[i] \in S})
           all == ToSet(sources)
           strong == {s \in all : s.category \in StrongCategories}
           high == {s \in all : s.confidence = "high"}
           fresh == \A s \in strong : s.freshness # "stale"
           claimed == \E s \in strong : s.category = "architecture_claim"
           A == (Count(strong) >= 2 \/ claimed)
           B == strong # {} \/ Count({s \in all : s.confidence # "low"}) >= 2
<1>1. CombineConfidence(sources, conflict)
        = IF all = {} \/ conflict THEN "low"
          ELSE IF A /\ high # {} /\ fresh THEN "high"
          ELSE IF B THEN "medium" ELSE "low"
  BY DEF CombineConfidence
<1> HIDE DEF A, B, fresh
<1>2. CombineConfidence(sources, conflict) \in Levels
  BY <1>1 DEF Levels
<1>3. CombineConfidence(sources, conflict) = "high" => high # {}
  BY <1>1
<1> QED
  BY <1>2, <1>3

\* A concern of high confidence rests on two sources, or on a claim.
IsCorroborated(sources) ==
  \E s, t \in sources :
    \/ <<s.source, s.category>> # <<t.source, t.category>>
    \/ s.category = "architecture_claim"

\* A fact is of high confidence only by a claim or by two sources.
LEMMA HighFactConfidence ==
  ASSUME NEW f, CombineFactConfidence({f}) = "high"
  PROVE  /\ f.confidence = "high"
         /\ \/ \E s \in f.sources : s.category = "architecture_claim"
            \/ Cardinality(f.sources) >= 2
<1>1. Cardinality({f}) = 1
  BY FS_Singleton
<1> DEFINE high == {g \in {f} : g.confidence = "high"}
           A == \E g \in high : \E s \in g.sources : s.category = "architecture_claim"
           B == \E g \in high : Cardinality(g.sources) >= 2
           C == high # {} /\ Cardinality({f}) >= 2
           D == \E g \in {f} : g.confidence # "low"
<1>2. CombineFactConfidence({f})
        = IF A \/ B \/ C THEN "high" ELSE IF D THEN "medium" ELSE "low"
  BY DEF CombineFactConfidence
<1>3. ~C
  BY <1>1
<1> HIDE DEF A, B, C, D
<1>4. A \/ B
  BY <1>2, <1>3
<1> QED
  BY <1>4 DEF A, B

\* What a baseline says of a concern, and what it rests on.
Founded(c, evidence, decisions) ==
  /\ c.thresholds \subseteq Thresholds
  /\ c.concern = "unknown" => c.thresholds \subseteq {"revisit"}
  /\ \A f \in c.facts : f.concern = c.concern /\ f.confidence \in Levels
  /\ c.confidence = "high" =>
       /\ IsCorroborated(SourcesOf(c))
       /\ \E e \in ToSet(evidence) : /\ e.status = "present" /\ e.confidence = "high"
                                     /\ Bears(e, c.concern, decisions)

\* The draft of a concern rests on its matches.
LEMMA DraftsAreFounded ==
  ASSUME NEW concern, NEW matches, IsSequence(matches), NEW evidence, NEW decisions,
         \A m \in ToSet(matches) : Grounded(m, evidence, decisions)
  PROVE  Founded(ConcernDraft(concern, matches), evidence, decisions)
<1> DEFINE I == {i \in DOMAIN matches : matches[i].concern = concern}
           draft == DraftOf(matches, concern)
           sources == [i \in DOMAIN draft |-> draft[i].source]
           fact == FactOf(draft, concern)
           c == ConcernDraft(concern, matches)
<1>1. /\ IsSequence(draft)
      /\ \A m \in ToSet(draft) : m.concern = concern /\ Grounded(m, evidence, decisions)
  <2>1. IsSequence(AtPlaces(matches, I)) /\ ToSet(AtPlaces(matches, I)) = {matches[i] : i \in I}
    BY FilteredSequence
  <2>2. \A i \in I : matches[i] \in ToSet(matches) /\ matches[i].concern = concern
    BY DEF ToSet
  <2>3. draft = AtPlaces(matches, I)
    BY DEF DraftOf
  <2> HIDE DEF I, draft
  <2> QED
    BY <2>1, <2>2, <2>3
<1>2. /\ c.concern = concern
      /\ c.facts = IF draft = <<>> THEN {} ELSE {fact}
      /\ c.confidence = CombineFactConfidence(c.facts)
      /\ c.thresholds = UNION {draft[i].thresholds : i \in DOMAIN draft}
  BY DEF ConcernDraft
<1>3. /\ fact.concern = concern
      /\ fact.sources = UniqueSources(sources)
      /\ \E conflict : fact.confidence = CombineConfidence(sources, conflict)
  BY DEF FactOf
<1> HIDE DEF draft, fact, c
<1>4. DOMAIN draft = 1..Len(draft) /\ Len(draft) \in Nat
  BY <1>1, DomainOfSequence
<1>5. \A i \in DOMAIN draft : draft[i].concern = concern /\ Grounded(draft[i], evidence, decisions)
  BY <1>1 DEF ToSet
<1>6. c.thresholds \subseteq Thresholds /\ (concern = "unknown" => c.thresholds \subseteq {"revisit"})
  <2>1. \A i \in DOMAIN draft : /\ draft[i].thresholds \subseteq Thresholds
                                /\ concern = "unknown" => draft[i].thresholds \subseteq {"revisit"}
    BY <1>5 DEF Grounded
  <2> QED
    BY <1>2, <2>1
<1>7. IsSequence(sources) /\ ToSet(sources) = {sources[i] : i \in 1..Len(draft)}
  BY <1>4, Tabulated
<1>8. \A s \in ToSet(sources) :
        /\ s.status = "present"
        /\ s.confidence = "high" =>
             \E e \in ToSet(evidence) : /\ e.status = "present" /\ e.confidence = "high"
                                        /\ Bears(e, concern, decisions)
  <2>1. ASSUME NEW i \in DOMAIN draft
        PROVE  /\ draft[i].source.status = "present"
               /\ draft[i].source.confidence = "high" =>
                    \E e \in ToSet(evidence) : /\ e.status = "present" /\ e.confidence = "high"
                                               /\ Bears(e, concern, decisions)
    BY <1>5 DEF Grounded
  <2>2. \A i \in DOMAIN draft : sources[i] = draft[i].source
    OBVIOUS
  <2> HIDE DEF sources
  <2> QED
    BY <1>4, <1>7, <2>1, <2>2
<1> HIDE DEF sources
<1>9. \A f \in c.facts : f.concern = c.concern /\ f.confidence \in Levels
  BY <1>2, <1>3, CombinedConfidence
<1>10. ASSUME c.confidence = "high"
       PROVE  /\ IsCorroborated(SourcesOf(c))
              /\ \E e \in ToSet(evidence) : /\ e.status = "present" /\ e.confidence = "high"
                                            /\ Bears(e, concern, decisions)
  <2>1. c.facts = {fact}
    <3>1. CombineFactConfidence({}) # "high"
      <4>1. Cardinality({}) = 0
        BY FS_EmptySet
      <4> QED
        BY <4>1 DEF CombineFactConfidence
    <3> QED
      BY <1>2, <1>10, <3>1
  <2>2. CombineFactConfidence({fact}) = "high"
    BY <1>2, <1>10, <2>1
  <2>3. /\ fact.confidence = "high"
        /\ \/ \E s \in fact.sources : s.category = "architecture_claim"
           \/ Cardinality(fact.sources) >= 2
    BY <2>2, HighFactConfidence
  <2>4. \E s \in ToSet(sources) : s.confidence = "high"
    BY <1>3, <2>3, CombinedConfidence
  <2>5. SourcesOf(c) = fact.sources
    BY <2>1 DEF SourcesOf
  <2>6. CASE \E s \in fact.sources : s.category = "architecture_claim"
    BY <1>8, <2>4, <2>5, <2>6 DEF IsCorroborated
  <2>7. CASE Cardinality(fact.sources) >= 2
    <3>1. PICK s \in fact.sources, t \in fact.sources : s # t
      BY <2>7, TwoOf
    <3>2. s.source # t.source \/ s.category # t.category \/ s.status # t.status
      BY <1>3, <1>7, <3>1, UniqueSourcesDiffer
    <3>3. s \in ToSet(sources) /\ t \in ToSet(sources)
      BY <1>3, UniqueSourcesAreSources
    <3>4. <<s.source, s.category>> # <<t.source, t.category>>
      BY <1>8, <3>2, <3>3
    <3>5. IsCorroborated(SourcesOf(c))
      BY <2>5, <3>4 DEF IsCorroborated
    <3> QED
      BY <1>8, <2>4, <3>5
  <2> QED
    BY <2>3, <2>6, <2>7
<1>11. Founded(c, evidence, decisions)
  BY <1>2, <1>6, <1>9, <1>10 DEF Founded
<1> QED
  BY <1>11 DEF c

\* Reading the decisions back changes its axes and facts no further than that.
LEMMA ConcernsAreFounded ==
  ASSUME NEW concern, NEW matches, IsSequence(matches), NEW evidence, NEW decisions,
         \A m \in ToSet(matches) : Grounded(m, evidence, decisions)
  PROVE  Founded(ConcernOf(concern, matches, decisions), evidence, decisions)
<1> DEFINE c == ConcernDraft(concern, matches)
           d == ConcernOf(concern, matches, decisions)
<1>1. /\ d.concern = concern /\ d.facts = c.facts /\ d.confidence = c.confidence
      /\ d.thresholds = c.thresholds
  BY DEF ConcernOf
<1>2. c.concern = concern
  BY DEF ConcernDraft
<1>3. Founded(c, evidence, decisions)
  BY DraftsAreFounded
<1> HIDE DEF c, d
<1>4. SourcesOf(d) = SourcesOf(c)
  BY <1>1 DEF SourcesOf
<1>5. Founded(d, evidence, decisions)
  BY <1>1, <1>2, <1>3, <1>4 DEF Founded
<1> QED
  BY <1>5 DEF d

\* The concerns of a baseline, in order, are concerns.
LEMMA BaselineOrder ==
  ASSUME NEW items, NEW matches, IsSequence(matches),
         \A m \in ToSet(matches) : m.concern \in Concerns
  PROVE  /\ IsSequence(BaselineConcernOrder(items, matches))
         /\ ToSet(BaselineConcernOrder(items, matches)) \subseteq Concerns
<1> DEFINE I == {i \in DOMAIN matches :
                   ~\E j \in 1..(i - 1) : matches[j].concern = matches[i].concern}
           opening == AtPlaces(matches, I)
           known == [i \in DOMAIN opening |-> opening[i].concern]
           unknown == {c \in Concerns \ (ToSet(known) \cup {"unknown"}) :
                         c \in AlwaysTracked \/ items = <<>>}
           K == {k \in DOMAIN ConcernOrder : ConcernOrder[k] \in unknown}
           rest == AtPlaces(ConcernOrder, K)
<1>1. IsSequence(opening) /\ \A m \in ToSet(opening) : m.concern \in Concerns
  <2>1. IsSequence(opening) /\ ToSet(opening) = {matches[i] : i \in I}
    BY FilteredSequence
  <2>2. \A i \in I : matches[i] \in ToSet(matches)
    BY DEF ToSet
  <2> HIDE DEF opening, I
  <2> QED
    BY <2>1, <2>2
<1>2. IsSequence(rest) /\ ToSet(rest) \subseteq Concerns
  <2>1. IsSequence(rest) /\ ToSet(rest) = {ConcernOrder[k] : k \in K}
    BY FilteredSequence, ConcernOrderIsOfConcerns
  <2>2. \A k \in K : ConcernOrder[k] \in Concerns
    BY ConcernOrderIsOfConcerns DEF ToSet
  <2> HIDE DEF rest, K
  <2> QED
    BY <2>1, <2>2
<1>3. BaselineConcernOrder(items, matches) = known \o rest
  BY DEF BaselineConcernOrder
<1> HIDE DEF rest, opening
<1>4. IsSequence(known) /\ ToSet(known) \subseteq Concerns
  <2>1. DOMAIN opening = 1..Len(opening) /\ Len(opening) \in Nat
    BY <1>1, DomainOfSequence
  <2>2. IsSequence(known) /\ ToSet(known) = {known[i] : i \in 1..Len(opening)}
    BY <2>1, Tabulated
  <2>3. \A i \in 1..Len(opening) : known[i] \in Concerns
    BY <1>1, <2>1 DEF ToSet
  <2> HIDE DEF known
  <2> QED
    BY <2>2, <2>3
<1> HIDE DEF known
<1>5. IsSequence(known \o rest) /\ ToSet(known \o rest) = ToSet(known) \cup ToSet(rest)
  BY <1>2, <1>4, Concatenated
<1> QED
  BY <1>2, <1>3, <1>4, <1>5

PressureLevels == {"none", "low", "medium", "high"}
SupportLevels ==
  {"unknown", "absent", "localized", "named", "bounded", "contracted", "operationalized"}

\* An adequacy is of its concern, and within the levels.
LEMMA AdequacyLevels ==
  ASSUME NEW c
  PROVE  /\ AdequacyOf(c).concern = c.concern
         /\ AdequacyOf(c).pressure \in PressureLevels
         /\ AdequacyOf(c).support \in SupportLevels
<1>1. LevelOfPressure(c, DriversOf(c)) \in PressureLevels
  BY DEF LevelOfPressure, PressureLevels
<1>2. SupportOf(c) \in SupportLevels
  <2> DEFINE kind == CASE c.concern \in Operations   -> "operationalized"
                       [] c.concern = "api_contract" -> "contracted"
                       [] OTHER                      -> "bounded"
             supported == Mentions(TextOf(c.facts), SupportTerms(c.concern))
             named == Mentions(TextOf(c.facts), NamedTerms)
  <2>1. kind \in {"operationalized", "contracted", "bounded"}
    BY Zenon
  <2>2. SupportOf(c) = IF c.facts = {} THEN "unknown"
                       ELSE IF supported THEN kind
                       ELSE IF c.concern = "unknown" THEN "absent"
                       ELSE IF named THEN "named" ELSE "localized"
    BY Zenon DEF SupportOf
  <2> HIDE DEF kind, supported, named
  <2> QED
    BY <2>1, <2>2 DEF SupportLevels
<1>3. /\ AdequacyOf(c).concern = c.concern
      /\ AdequacyOf(c).pressure = LevelOfPressure(c, DriversOf(c))
      /\ AdequacyOf(c).support = SupportOf(c)
  BY DEF AdequacyOf, PressureOf
<1> QED
  BY <1>1, <1>2, <1>3

\* An entry of a baseline.
IsEntry(c, evidence, decisions) ==
  /\ c.concern \in Concerns
  /\ Founded(c, evidence, decisions)
  /\ c.adequacy.concern = c.concern
  /\ c.adequacy.pressure \in PressureLevels
  /\ c.adequacy.support \in SupportLevels

\* What every entry of a baseline is.
LEMMA BaselineEntries ==
  ASSUME NEW evidence, IsSequence(evidence), NEW event, NEW decisions, IsSequence(decisions)
  PROVE  /\ IsSequence(BaselineOf(evidence, event, decisions))
         /\ \A c \in ToSet(BaselineOf(evidence, event, decisions)) :
              IsEntry(c, evidence, decisions)
<1> DEFINE matches == Matches(evidence, event, decisions)
           order == BaselineConcernOrder(evidence, matches)
           baseline == [i \in DOMAIN order |-> ConcernOf(order[i], matches, decisions)]
<1>1. /\ IsSequence(matches)
      /\ \A m \in ToSet(matches) : Grounded(m, evidence, decisions)
  BY MatchesAreGrounded
<1> HIDE DEF matches
<1>2. IsSequence(order) /\ ToSet(order) \subseteq Concerns
  <2>1. \A m \in ToSet(matches) : m.concern \in Concerns
    BY <1>1 DEF Grounded
  <2> QED
    BY <1>1, <2>1, BaselineOrder
<1> HIDE DEF order
<1>3. ASSUME NEW concern \in Concerns
      PROVE  IsEntry(ConcernOf(concern, matches, decisions), evidence, decisions)
  <2> DEFINE c == ConcernOf(concern, matches, decisions)
  <2>1. Founded(c, evidence, decisions)
    BY <1>1, ConcernsAreFounded
  <2>2. c.concern = concern /\ c.adequacy = AdequacyOf(ConcernDraft(concern, matches))
    BY DEF ConcernOf
  <2>3. ConcernDraft(concern, matches).concern = concern
    BY DEF ConcernDraft
  <2> HIDE DEF c
  <2>4. IsEntry(c, evidence, decisions)
    BY <2>1, <2>2, <2>3, AdequacyLevels DEF IsEntry
  <2> QED
    BY <2>4 DEF c
<1>4. DOMAIN order = 1..Len(order) /\ Len(order) \in Nat
  BY <1>2, DomainOfSequence
<1>5. IsSequence(baseline) /\ ToSet(baseline) = {baseline[i] : i \in 1..Len(order)}
  BY <1>4, Tabulated
<1>6. ASSUME NEW i \in 1..Len(order) PROVE IsEntry(baseline[i], evidence, decisions)
  <2>1. order[i] \in Concerns
    BY <1>2, <1>4 DEF ToSet
  <2>2. baseline[i] = ConcernOf(order[i], matches, decisions)
    BY <1>4
  <2> HIDE DEF baseline
  <2> QED
    BY <1>3, <2>1, <2>2
<1>7. BaselineOf(evidence, event, decisions) = baseline
  BY DEF BaselineOf, matches, order
<1> HIDE DEF baseline
<1> QED
  BY <1>5, <1>6, <1>7

-----------------------------------------------------------------------------
(***************************************************************************)
(* What the policy may select: advice firm enough to stop the work is of   *)
(* a concern that is sure.                                                 *)
(***************************************************************************)
Firm(s, B) ==
  (s.reason # "revisit" /\ s.intervention \in {"block", "decision-required"}) =>
    \E c \in Entry(B, s.concern) :
      /\ c.confidence = "high"
      /\ \/ c.concern = "risk_hotspot"
         \/ c.thresholds \cap {"security", "deployment", "public_api"} # {}

\* What is asked for is what is selected.
LEMMA SelectedIs ==
  ASSUME NEW reason, NEW concern, NEW action, NEW intervention, NEW guidance, NEW asks,
         NEW provisional
  PROVE  LET s == Selected(reason, concern, action, intervention, guidance, asks, provisional)
         IN s.reason = reason /\ s.concern = concern /\ s.intervention = intervention
BY DEF Selected

\* The branches of the policy one by one.
LEMMA RiskIsFirm ==
  ASSUME NEW baseline, ExplicitRisk(baseline) # {},
         NEW action, NEW guidance, NEW asks, NEW provisional
  PROVE  Firm(Selected("risk", "risk_hotspot", action,
                       RiskIntervention(The(ExplicitRisk(baseline))), guidance, asks,
                       provisional), ToSet(baseline))
<1> DEFINE risk == The(ExplicitRisk(baseline))
           s == Selected("risk", "risk_hotspot", action, RiskIntervention(risk), guidance, asks,
                         provisional)
<1>1. risk \in Entry(ToSet(baseline), "risk_hotspot")
  BY DEF The, ExplicitRisk
<1>2. risk.concern = "risk_hotspot"
  BY <1>1 DEF Entry
<1> HIDE DEF risk
<1>3. s.concern = "risk_hotspot" /\ s.intervention = RiskIntervention(risk)
  BY SelectedIs
<1>4. s.intervention \in {"block", "decision-required"} => risk.confidence = "high"
  BY <1>3 DEF RiskIntervention
<1> HIDE DEF s
<1>5. Firm(s, ToSet(baseline))
  BY <1>1, <1>2, <1>3, <1>4 DEF Firm
<1> QED
  BY <1>5 DEF s, risk

LEMMA PatternIsFirm ==
  ASSUME NEW baseline, NEW context, NEW questions,
         HighValuePatterns(PrincipleGuidance(baseline), context) # {}
  PROVE  Firm(PatternAction(FirstHighValuePattern(
                HighValuePatterns(PrincipleGuidance(baseline), context)),
                baseline, questions, PrincipleGuidance(baseline)), ToSet(baseline))
<1> DEFINE P == HighValuePatterns(PrincipleGuidance(baseline), context)
           best == FirstHighValuePattern(P)
           s == PatternAction(best, baseline, questions, PrincipleGuidance(baseline))
           c == The(Entry(ToSet(baseline), best.concern))
<1>1. \A p \in P : p.concern \in Concerns /\ p.score \in 0..200
  BY OfferedPatterns
<1>2. best \in P
  <2>1. P # {}
    OBVIOUS
  <2> HIDE DEF P
  <2>2. FirstHighValuePattern(P) \in P
    BY <1>1, <2>1, FirstPatternIsOneOfThem
  <2> QED
    BY <2>2
<1>3. Entry(ToSet(baseline), best.concern) # {}
  <2>1. \E d \in ToSet(baseline) : d.concern = best.concern
    <3> HIDE DEF best
    <3> QED
      BY <1>2, OfferedPatterns
  <2> HIDE DEF best
  <2> QED
    BY <2>1 DEF Entry
<1>4. c \in Entry(ToSet(baseline), best.concern)
  BY <1>3 DEF The
<1> HIDE DEF best
<1>5. c.concern = best.concern
  BY <1>4 DEF Entry
<1>6. s.concern = best.concern /\ s.intervention = InterventionForConcern(c, questions)
  BY DEF PatternAction, Selected
<1> HIDE DEF s, c
<1>7. s.intervention \in {"block", "decision-required"} =>
        /\ c.confidence = "high"
        /\ c.thresholds \cap {"security", "deployment", "public_api"} # {}
  BY <1>6 DEF InterventionForConcern
<1>8. Firm(s, ToSet(baseline))
  BY <1>4, <1>6, <1>7 DEF Firm
<1> QED
  BY <1>8 DEF s, best

LEMMA SoftIsFirm ==
  ASSUME NEW reason, NEW concern, NEW action, NEW intervention, NEW guidance, NEW asks,
         NEW provisional, NEW B, intervention \notin {"block", "decision-required"}
  PROVE  Firm(Selected(reason, concern, action, intervention, guidance, asks, provisional), B)
<1> DEFINE s == Selected(reason, concern, action, intervention, guidance, asks, provisional)
<1>1. s.intervention = intervention
  BY SelectedIs
<1> HIDE DEF s
<1>2. Firm(s, B)
  BY <1>1 DEF Firm
<1> QED
  BY <1>2 DEF s

LEMMA RevisitIsFirm ==
  ASSUME NEW concern, NEW action, NEW intervention, NEW guidance, NEW asks, NEW provisional, NEW B
  PROVE  Firm(Selected("revisit", concern, action, intervention, guidance, asks, provisional), B)
<1> DEFINE s == Selected("revisit", concern, action, intervention, guidance, asks, provisional)
<1>1. s.reason = "revisit"
  BY SelectedIs
<1> HIDE DEF s
<1>2. Firm(s, B)
  BY <1>1 DEF Firm
<1> QED
  BY <1>2 DEF s

LEMMA UnderStructuredIsFirm ==
  ASSUME NEW c, NEW questions, NEW guidance, NEW B
  PROVE  Firm(UnderStructuredAction(c, questions, guidance), B)
<1>1. \A asks, concern, action, provisional :
        /\ Firm(Selected("under-structured", concern, action, "interview-required", guidance,
                         asks, provisional), B)
        /\ Firm(Selected("under-structured", concern, action, "recommend", guidance,
                         asks, provisional), B)
  BY SoftIsFirm
<1> QED
  BY <1>1 DEF UnderStructuredAction

\* selectPolicyAction takes one of these branches.
LEMMA SelectedActionIsFirm ==
  ASSUME NEW baseline, NEW questions, NEW alerts, NEW context, NEW brief
  PROVE  Firm(SelectPolicyAction(baseline, questions, alerts, PrincipleGuidance(baseline),
                                 context, brief), ToSet(baseline))
<1> DEFINE guidance == PrincipleGuidance(baseline)
           B == ToSet(baseline)
<1>1. \A concern, action, asks :
        Firm(Selected("revisit", concern, action, "decision-required", guidance, asks, FALSE), B)
  BY RevisitIsFirm
<1>2. /\ \A reason, concern, action, asks :
           Firm(Selected(reason, concern, action, "note", guidance, asks, FALSE), B)
      /\ \A reason, concern, action, asks :
           Firm(Selected(reason, concern, action, "recommend", guidance, asks, FALSE), B)
      /\ \A reason, concern, action, asks :
           Firm(Selected(reason, concern, action, "interview-required", guidance, asks, FALSE), B)
  <2>1. \A intervention : intervention \notin {"block", "decision-required"} =>
          \A reason, concern, action, asks :
            Firm(Selected(reason, concern, action, intervention, guidance, asks, FALSE), B)
    <3> HIDE DEF guidance, B
    <3> QED
      BY SoftIsFirm
  <2> HIDE DEF guidance, B
  <2>2. \A reason, concern, action, asks :
           Firm(Selected(reason, concern, action, "note", guidance, asks, FALSE), B)
    BY <2>1
  <2>3. \A reason, concern, action, asks :
           Firm(Selected(reason, concern, action, "recommend", guidance, asks, FALSE), B)
    BY <2>1
  <2>4. \A reason, concern, action, asks :
           Firm(Selected(reason, concern, action, "interview-required", guidance, asks, FALSE), B)
    BY <2>1
  <2> QED
    BY <2>2, <2>3, <2>4
<1>3. ExplicitRisk(baseline) # {} =>
        Firm(Selected("risk", "risk_hotspot", "Run review",
                      RiskIntervention(The(ExplicitRisk(baseline))), guidance,
                      HasConcern(questions, "risk_hotspot"),
                      The(ExplicitRisk(baseline)).confidence = "low"), B)
  BY RiskIsFirm
<1>4. Firm(UnderStructuredAction(MostUrgent(UnderStructured(baseline)), questions, guidance), B)
  BY UnderStructuredIsFirm
<1>5. HighValuePatterns(guidance, context) # {} =>
        Firm(PatternAction(FirstHighValuePattern(HighValuePatterns(guidance, context)),
                           baseline, questions, guidance), B)
  BY PatternIsFirm
<1> HIDE DEF guidance, B
<1>6. Firm(SelectPolicyAction(baseline, questions, alerts, guidance, context, brief), B)
  BY <1>1, <1>2, <1>3, <1>4, <1>5 DEF SelectPolicyAction
<1> QED
  BY <1>6 DEF guidance, B

-----------------------------------------------------------------------------
(***************************************************************************)
(* The session: the assessment in hand is that of the event and the items  *)
(* it was made of, and of the decisions recorded so far.                   *)
(***************************************************************************)
InHand ==
  /\ basis.event \in Events
  /\ IsSequence(basis.items)
  /\ result = AssessmentOf(basis.event, basis.items, records)

SessionInv == IsSequence(records) /\ (result = NoResult \/ InHand)

\* An element more.
LEMMA Appended ==
  ASSUME NEW s, IsSequence(s), NEW x
  PROVE  /\ IsSequence(Append(s, x))
         /\ ToSet(Append(s, x)) = ToSet(s) \cup {x}
<1>1. s \in Seq(ToSet(s) \cup {x})
  <2>1. s \in Seq(ToSet(s))
    BY DEF IsSequence
  <2>2. ToSet(s) \subseteq ToSet(s) \cup {x}
    OBVIOUS
  <2> HIDE DEF ToSet
  <2> QED
    BY <2>1, <2>2
<1>2. Append(s, x) \in Seq(ToSet(s) \cup {x})
  <2> HIDE DEF ToSet
  <2> QED
    BY <1>1
<1>3. IsSequence(Append(s, x))
  BY <1>2, SequencesAre
<1>4. Append(s, x) = s \o <<x>>
  <2> HIDE DEF ToSet
  <2> QED
    BY <1>1
<1>5. ToSet(s \o <<x>>) = ToSet(s) \cup ToSet(<<x>>)
  BY OneElement, Concatenated
<1> QED
  BY <1>3, <1>4, <1>5, OneElement

\* The invariant of a session holds throughout.
LEMMA SessionInvAlways == Spec => []SessionInv
<1>1. Init => SessionInv
  BY EmptySequence DEF Init, SessionInv
<1>2. SessionInv /\ [Next]_vars => SessionInv'
  <2> SUFFICES ASSUME SessionInv, [Next]_vars PROVE SessionInv'
    OBVIOUS
  <2>1. CASE Assess
    <3>1. PICK event, items :
            event \in Events /\ IsSequence(items) /\ AssessWith(event, items)
      BY <2>1, AnAssessment
    <3>2. records' = records /\ result' = AssessmentOf(event, items, records)
      BY <3>1 DEF AssessWith
    <3>3. basis'.event = event /\ basis'.items = items
      BY <3>1 DEF AssessWith
    <3>4. InHand'
      BY <3>1, <3>2, <3>3 DEF InHand
    <3> QED
      BY <3>2, <3>4 DEF SessionInv
  <2>2. ASSUME NEW record, Remember(record) PROVE SessionInv'
    <3>1. records' = Append(records, record) /\ result' = NoResult
      BY <2>2 DEF Remember
    <3>2. IsSequence(Append(records, record))
      BY Appended DEF SessionInv
    <3> QED
      BY <3>1, <3>2 DEF SessionInv
  <2>3. CASE AcceptDebt
    BY <2>2, <2>3 DEF AcceptDebt
  <2>4. CASE RecordDecision
    BY <2>2, <2>4 DEF RecordDecision
  <2>5. CASE MoveOn
    BY <2>5 DEF MoveOn, SessionInv
  <2>6. CASE UNCHANGED vars
    BY <2>6 DEF vars, SessionInv, InHand
  <2> QED
    BY <2>1, <2>3, <2>4, <2>5, <2>6 DEF Next
<1> QED
  BY <1>1, <1>2, PTL DEF Spec

-----------------------------------------------------------------------------
(***************************************************************************)
(* The baseline of an assessment: every entry is founded on the evidence   *)
(* read back from the items and on the decisions of the event and the      *)
(* memory.                                                                 *)
(***************************************************************************)
EvidenceOf(event, items) == EvidenceFromTelemetry(TelemetryOf(event, items))

\* The decisions read are those of the event and of the memory.
LEMMA PriorDecisionsAre ==
  ASSUME NEW event \in Events, NEW memory, IsSequence(memory)
  PROVE  /\ IsSequence(PriorDecisions(event, memory))
         /\ ToSet(PriorDecisions(event, memory)) \subseteq ToSet(memory) \cup ToSet(event.priors)
<1> DEFINE I == {i \in DOMAIN memory : \A p \in ToSet(event.priors) : p.id # memory[i].id}
<1>1. IsSequence(event.priors)
  BY EventsAssumption DEF IsSequence
<1>2. IsSequence(AtPlaces(memory, I)) /\ ToSet(AtPlaces(memory, I)) = {memory[i] : i \in I}
  BY FilteredSequence
<1>3. {memory[i] : i \in I} \subseteq ToSet(memory)
  BY DEF ToSet
<1>4. PriorDecisions(event, memory) = event.priors \o AtPlaces(memory, I)
  BY DEF PriorDecisions
<1> HIDE DEF I
<1>5. /\ IsSequence(event.priors \o AtPlaces(memory, I))
      /\ ToSet(event.priors \o AtPlaces(memory, I))
           = ToSet(event.priors) \cup ToSet(AtPlaces(memory, I))
  BY <1>1, <1>2, Concatenated
<1> QED
  BY <1>2, <1>3, <1>4, <1>5

\* Present evidence of high confidence was read from such an item, and all
\* evidence has a list of lines.
LEMMA EvidenceOfItems ==
  ASSUME NEW event \in Events, NEW items, IsSequence(items)
  PROVE  /\ IsSequence(EvidenceOf(event, items))
         /\ \A e \in ToSet(EvidenceOf(event, items)) : IsSequence(e.lines)
         /\ \A e \in ToSet(EvidenceOf(event, items)) :
              (e.status = "present" /\ e.confidence = "high") =>
                \E i \in DOMAIN items :
                  /\ items[i].status = "present" /\ items[i].confidence = "high"
                  /\ e.category = items[i].category /\ e.words = items[i].words
<1> DEFINE signals == TelemetryOf(event, items).signals
<1>1. IsSequence(event.priors) /\ IsSequence(event.changed.files)
  BY EventsAssumption DEF IsSequence
<1>2. /\ IsSequence(signals)
      /\ \A s \in ToSet(signals) :
           /\ IsSequence(s.lines)
           /\ IsOfItem(s, items) \/ s.family = "lifecycle" \/ s.confidence # "high"
  BY <1>1, EventSignals DEF TelemetryOf
<1>3. /\ IsSequence(EvidenceOf(event, items))
      /\ \A e \in ToSet(EvidenceOf(event, items)) :
           \E s \in ToSet(signals) : s.family # "lifecycle" /\ e = ItemOf(s)
  BY <1>2, EvidenceIsOfSignals DEF EvidenceOf
<1> HIDE DEF signals
<1>4. ASSUME NEW e \in ToSet(EvidenceOf(event, items)), e.status = "present", e.confidence = "high"
      PROVE  \E i \in DOMAIN items :
               /\ items[i].status = "present" /\ items[i].confidence = "high"
               /\ e.category = items[i].category /\ e.words = items[i].words
  <2>1. PICK s \in ToSet(signals) : s.family # "lifecycle" /\ e = ItemOf(s)
    BY <1>3
  <2>2. /\ e.status = s.status /\ e.confidence = s.confidence
        /\ e.category = s.category /\ e.words = s.words
    BY <2>1 DEF ItemOf
  <2>3. PICK i \in DOMAIN items : s = SignalOf(items[i])
    BY <1>2, <1>4, <2>1, <2>2 DEF IsOfItem
  <2> DEFINE item == items[i]
  <2>4. /\ s.status = ReadStatus(item.status)
        /\ s.confidence = IF ReadStatus(item.status) = "present"
                          THEN ReadConfidence(item.confidence) ELSE "low"
        /\ s.category = item.category /\ s.words = item.words
    BY <2>3 DEF SignalOf
  <2> HIDE DEF item
  <2>5. item.status = "present" /\ item.confidence = "high"
    BY <1>4, <2>2, <2>4 DEF ReadStatus, ReadConfidence
  <2> QED
    BY <2>2, <2>4, <2>5 DEF item
<1>5. \A e \in ToSet(EvidenceOf(event, items)) : IsSequence(e.lines)
  BY <1>2, <1>3 DEF ItemOf
<1> QED
  BY <1>3, <1>4, <1>5

\* What firm advice rests on, for any assessment.
RestsOn(s, B, event, items, memory) ==
  (s.reason # "revisit" /\ s.intervention \in {"block", "decision-required"}) =>
    /\ \E i \in DOMAIN items :
         /\ items[i].status = "present" /\ items[i].confidence = "high"
         /\ \/ SpeaksOf(items[i], s.concern)
            \/ \E d \in ToSet(memory) \cup ToSet(event.priors) :
                 DecisionConcern(d.concern) = s.concern /\ IsDue(d, items[i].words)
    /\ \E c \in Entry(B, s.concern) : IsCorroborated(SourcesOf(c))

\* The parts of an assessment, each from the others.
LEMMA AssessmentParts ==
  ASSUME NEW event, NEW items, NEW memory
  PROVE  LET r == AssessmentOf(event, items, memory)
             t == TelemetryOf(event, items)
         IN /\ r.baseline = BaselineOf(EvidenceOf(event, items), event,
                                       PriorDecisions(event, memory))
            /\ r.selected = SelectPolicyAction(r.baseline, r.questions, r.alerts,
                              PrincipleGuidance(r.baseline), r.context, TemporalBrief(t))
            /\ r.alerts = CheckRevisit(event, memory, t, r.baseline)
            /\ r.debt = ArchitectureDebt(r.baseline, memory)
            /\ r.questions = PlanQuestions(r.baseline, t, ClaimsForTelemetry(t), r.context)
BY DEF AssessmentOf, AdviceFrom, Advice, TelemetryOf, EvidenceOf

\* The advice of every assessment rests on what it was given.
LEMMA FirmAdviceRests ==
  ASSUME NEW event \in Events, NEW items, IsSequence(items), NEW memory, IsSequence(memory)
  PROVE  RestsOn(AssessmentOf(event, items, memory).selected,
                 ToSet(AssessmentOf(event, items, memory).baseline), event, items, memory)
<1> DEFINE r == AssessmentOf(event, items, memory)
           evidence == EvidenceOf(event, items)
           decisions == PriorDecisions(event, memory)
           B == ToSet(r.baseline)
<1>1. PICK brief :
        r.selected = SelectPolicyAction(r.baseline, r.questions, r.alerts,
                                        PrincipleGuidance(r.baseline), r.context, brief)
  BY AssessmentParts
<1>2. r.baseline = BaselineOf(evidence, event, decisions)
  BY AssessmentParts
<1>3. Firm(r.selected, B)
  <2> DEFINE baseline == r.baseline
             questions == r.questions
             alerts == r.alerts
             context == r.context
  <2>1. r.selected = SelectPolicyAction(baseline, questions, alerts,
                                        PrincipleGuidance(baseline), context, brief)
    BY <1>1
  <2> HIDE DEF baseline, questions, alerts, context, r
  <2>2. Firm(SelectPolicyAction(baseline, questions, alerts, PrincipleGuidance(baseline),
                                context, brief), ToSet(baseline))
    BY SelectedActionIsFirm
  <2> QED
    BY <2>1, <2>2 DEF baseline
<1>4. IsSequence(evidence)
  BY EvidenceOfItems
<1>5. /\ IsSequence(decisions)
      /\ ToSet(decisions) \subseteq ToSet(memory) \cup ToSet(event.priors)
  BY PriorDecisionsAre
<1>6. \A c \in B : IsEntry(c, evidence, decisions)
  BY <1>2, <1>4, <1>5, BaselineEntries
<1>7. \A e \in ToSet(evidence) :
        (e.status = "present" /\ e.confidence = "high") =>
          \E i \in DOMAIN items :
            /\ items[i].status = "present" /\ items[i].confidence = "high"
            /\ e.category = items[i].category /\ e.words = items[i].words
  BY EvidenceOfItems
<1> DEFINE s == r.selected
<1> HIDE DEF r, evidence, decisions, B, s
<1>8. ASSUME s.reason # "revisit", s.intervention \in {"block", "decision-required"}
      PROVE  RestsOn(s, B, event, items, memory)
  <2>1. PICK c \in Entry(B, s.concern) :
          /\ c.confidence = "high"
          /\ \/ c.concern = "risk_hotspot"
             \/ c.thresholds \cap {"security", "deployment", "public_api"} # {}
    BY <1>3, <1>8 DEF Firm, s
  <2>2. c \in B /\ c.concern = s.concern
    BY DEF Entry
  <2>3. Founded(c, evidence, decisions)
    BY <1>6, <2>2 DEF IsEntry
  <2>4. c.concern # "unknown"
    BY <2>1, <2>3 DEF Founded
  <2>5. IsCorroborated(SourcesOf(c))
    BY <2>1, <2>3 DEF Founded
  <2>6. PICK e \in ToSet(evidence) : /\ e.status = "present" /\ e.confidence = "high"
                                     /\ Bears(e, c.concern, decisions)
    BY <2>1, <2>3 DEF Founded
  <2>7. PICK i \in DOMAIN items :
          /\ items[i].status = "present" /\ items[i].confidence = "high"
          /\ e.category = items[i].category /\ e.words = items[i].words
    BY <1>7, <2>6
  <2>8. \/ SpeaksOf(e, s.concern)
        \/ \E d \in ToSet(memory) \cup ToSet(event.priors) :
             DecisionConcern(d.concern) = s.concern /\ IsDue(d, e.words)
    BY <1>5, <2>2, <2>4, <2>6 DEF Bears
  <2>9. SpeaksOf(e, s.concern) => SpeaksOf(items[i], s.concern)
    BY <2>7 DEF SpeaksOf
  <2>10. \/ SpeaksOf(items[i], s.concern)
         \/ \E d \in ToSet(memory) \cup ToSet(event.priors) :
              DecisionConcern(d.concern) = s.concern /\ IsDue(d, items[i].words)
    BY <2>7, <2>8, <2>9
  <2> QED
    BY <2>1, <2>5, <2>7, <2>10 DEF RestsOn
<1>9. RestsOn(s, B, event, items, memory)
  BY <1>8 DEF RestsOn
<1> QED
  BY <1>9 DEF s, B, r

\* Whatever the events and the outcomes of the collectors, advice that stops the
\* work rests on two sources or a claim, and on a sure item about its concern.
THEOREM FirmAdvice == Spec => []FirmAdviceIsCorroborated
<1>1. SessionInv => FirmAdviceIsCorroborated
  <2> SUFFICES ASSUME SessionInv, Assessed, result.selected.reason # "revisit",
                      result.selected.intervention \in {"block", "decision-required"}
               PROVE  FirmAdviceIsCorroborated
    BY DEF FirmAdviceIsCorroborated
  <2>1. InHand /\ IsSequence(records)
    BY DEF SessionInv, Assessed
  <2> DEFINE s == result.selected
             B == ToSet(result.baseline)
  <2>2. RestsOn(s, B, basis.event, basis.items, records)
    BY <2>1, FirmAdviceRests DEF InHand
  <2> HIDE DEF s, B
  <2>3. s.reason # "revisit" /\ s.intervention \in {"block", "decision-required"}
    BY DEF s
  <2>4. PICK i \in DOMAIN basis.items :
          /\ basis.items[i].status = "present" /\ basis.items[i].confidence = "high"
          /\ \/ SpeaksOf(basis.items[i], s.concern)
             \/ \E d \in ToSet(records) \cup ToSet(basis.event.priors) :
                  DecisionConcern(d.concern) = s.concern /\ IsDue(d, basis.items[i].words)
    BY <2>2, <2>3 DEF RestsOn
  <2>5. IsSequence(basis.event.priors)
    BY <2>1, EventsAssumption DEF InHand, IsSequence
  <2>6. ToSet(records \o basis.event.priors) = ToSet(records) \cup ToSet(basis.event.priors)
    BY <2>1, <2>5, Concatenated
  <2>7. BearsOn(basis.items[i], s.concern)
    BY <2>4, <2>6 DEF BearsOn
  <2>8. PICK c \in Entry(B, s.concern) : IsCorroborated(SourcesOf(c))
    BY <2>2, <2>3 DEF RestsOn
  <2>9. \E x, t \in SourcesOf(c) :
          <<x.source, x.category>> # <<t.source, t.category>> \/ x.category = "architecture_claim"
    BY <2>8 DEF IsCorroborated
  <2>10. Advised = Entry(B, s.concern)
    BY DEF Advised, B, s
  <2> QED
    BY <2>4, <2>7, <2>9, <2>10 DEF FirmAdviceIsCorroborated, s
<1> QED
  BY <1>1, SessionInvAlways, PTL

-----------------------------------------------------------------------------
(***************************************************************************)
(* The interview: at most four questions, each about a concern.  The next  *)
(* one asked is a candidate because ranks of candidates are bounded, so    *)
(* one of them is the best.                                                *)
(***************************************************************************)
IsCandidate(q) ==
  /\ q.concern \in Concerns
  /\ q.score \in Int /\ q.score <= 1000
  /\ q.kind \in {"claim", "signal", "fact"}

\* The priorities of the concerns are within bounds, and so the ranks.
LEMMA Priorities ==
  /\ DOMAIN ConcernPriority = Concerns
  /\ \A c \in Concerns : ConcernPriority[c] \in 0..100
BY DEF ConcernPriority, Concerns

LEMMA KeyRanks ==
  ASSUME NEW q, IsCandidate(q)
  PROVE  KeyRank(q) \in 0..302
<1> DEFINE kind == [claim |-> 0, signal |-> 1, fact |-> 2]
<1>1. ConcernPriority[q.concern] \in 0..100
  BY Priorities DEF IsCandidate
<1>2. kind[q.kind] \in 0..2
  BY DEF IsCandidate
<1>3. KeyRank(q) = 3 * (IF ConcernPriority[q.concern] = 100 THEN 1
                        ELSE ConcernPriority[q.concern]) + kind[q.kind]
  BY DEF KeyRank
<1> HIDE DEF kind
<1> QED
  BY <1>1, <1>2, <1>3

\* The best of the candidates is one of them.
LEMMA BestIsOneOfThem ==
  ASSUME NEW S, S # {}, \A q \in S : IsCandidate(q)
  PROVE  Best(S, Before) \in S
<1> DEFINE f == [q \in S |-> 1000 * (1000 - q.score) + KeyRank(q)]
<1>1. ASSUME NEW q \in S PROVE q.score \in Int /\ q.score <= 1000 /\ KeyRank(q) \in 0..302
  BY KeyRanks DEF IsCandidate
<1>2. f \in [S -> Nat]
  BY <1>1
<1> HIDE DEF f
<1>3. PICK q \in S : \A p \in S : f[q] <= f[p]
  BY <1>2, LeastRank
<1>4. ASSUME NEW p \in S PROVE ~Before(p, q)
  <2> DEFINE a == p.score
             b == q.score
             k == KeyRank(p)
             l == KeyRank(q)
  <2>1. f[q] <= f[p] /\ f[q] = 1000 * (1000 - b) + l /\ f[p] = 1000 * (1000 - a) + k
    BY <1>3 DEF f
  <2>2. a \in Int /\ b \in Int /\ k \in 0..302 /\ l \in 0..302
    BY <1>1
  <2>3. Before(p, q) = (a > b \/ (a = b /\ k < l))
    BY DEF Before
  <2> HIDE DEF a, b, k, l
  <2>4. ~(a > b)
    BY <2>1, <2>2
  <2>5. ~(a = b /\ k < l)
    BY <2>1, <2>2
  <2> QED
    BY <2>3, <2>4, <2>5
<1> QED
  BY <1>4 DEF Best

Interviewed(s, candidates, n) ==
  IsSequence(s) /\ ToSet(s) \subseteq candidates /\ Len(s) <= n

\* A question more is a candidate not asked before.
LEMMA NextInterviewed ==
  ASSUME NEW candidates, \A q \in candidates : IsCandidate(q),
         NEW s, NEW n \in Nat, Interviewed(s, candidates, n)
  PROVE  Interviewed(AskNext(candidates, s), candidates, n + 1)
<1> DEFINE left == candidates \ ToSet(s)
           best == Best(left, Before)
<1>1. Len(s) \in Nat /\ Len(s) <= n
  BY DomainOfSequence DEF Interviewed
<1>2. CASE left = {}
  <2>1. AskNext(candidates, s) = s
    BY <1>2 DEF AskNext
  <2> QED
    BY <1>1, <2>1 DEF Interviewed
<1>3. CASE left # {}
  <2>1. best \in left
    BY <1>3, BestIsOneOfThem
  <2>2. AskNext(candidates, s) = Append(s, best)
    BY <1>3 DEF AskNext
  <2>3. best \in candidates
    BY <2>1
  <2> HIDE DEF best, left
  <2>4. IsSequence(Append(s, best)) /\ ToSet(Append(s, best)) = ToSet(s) \cup {best}
    BY Appended DEF Interviewed
  <2>5. Len(Append(s, best)) = Len(s) + 1
    <3>1. s \in Seq(ToSet(s))
      BY DEF Interviewed, IsSequence
    <3> DEFINE T == ToSet(s)
    <3>2. s \in Seq(T)
      BY <3>1
    <3> HIDE DEF T
    <3> QED
      BY <3>2
  <2> QED
    BY <1>1, <2>2, <2>3, <2>4, <2>5 DEF Interviewed
<1> QED
  BY <1>2, <1>3

\* The four rounds of planBaselineQuestions.
LEMMA FourRounds ==
  ASSUME NEW candidates, \A q \in candidates : IsCandidate(q)
  PROVE  LET asked[n \in 0..DefaultQuestionLimit] ==
               IF n = 0 THEN <<>> ELSE AskNext(candidates, asked[n - 1])
         IN Interviewed(asked[DefaultQuestionLimit], candidates, 4)
<1> DEFINE a1 == AskNext(candidates, <<>>)
           a2 == AskNext(candidates, a1)
           a3 == AskNext(candidates, a2)
           a4 == AskNext(candidates, a3)
           f == [n \in 0..4 |-> IF n = 0 THEN <<>> ELSE IF n = 1 THEN a1 ELSE IF n = 2 THEN a2
                                ELSE IF n = 3 THEN a3 ELSE a4]
           g == CHOOSE h : h = [n \in 0..DefaultQuestionLimit |->
                                  IF n = 0 THEN <<>> ELSE AskNext(candidates, h[n - 1])]
<1>1. f[0] = <<>> /\ f[1] = a1 /\ f[2] = a2 /\ f[3] = a3 /\ f[4] = a4
  OBVIOUS
<1>2. ASSUME NEW n \in 0..4
      PROVE  f[n] = IF n = 0 THEN <<>> ELSE AskNext(candidates, f[n - 1])
  <2>1. n = 0 \/ n = 1 \/ n = 2 \/ n = 3 \/ n = 4
    OBVIOUS
  <2>2. n - 1 = IF n = 1 THEN 0 ELSE IF n = 2 THEN 1 ELSE IF n = 3 THEN 2 ELSE IF n = 4 THEN 3 ELSE -1
    BY <2>1
  <2> HIDE DEF f
  <2> QED
    BY <1>1, <2>1, <2>2
<1>3. f = [n \in 0..4 |-> IF n = 0 THEN <<>> ELSE AskNext(candidates, f[n - 1])]
  <2>1. f = [n \in 0..4 |-> f[n]]
    OBVIOUS
  <2> HIDE DEF f
  <2> QED
    BY <1>2, <2>1
<1>4. g = [n \in 0..4 |-> IF n = 0 THEN <<>> ELSE AskNext(candidates, g[n - 1])]
  <2> HIDE DEF f
  <2> QED
    BY <1>3, Zenon DEF DefaultQuestionLimit
<1>5. /\ g[0] = <<>> /\ g[1] = AskNext(candidates, g[0]) /\ g[2] = AskNext(candidates, g[1])
      /\ g[3] = AskNext(candidates, g[2]) /\ g[4] = AskNext(candidates, g[3])
  <2> HIDE DEF g
  <2>1. ASSUME NEW n \in 0..4 PROVE g[n] = IF n = 0 THEN <<>> ELSE AskNext(candidates, g[n - 1])
    BY <1>4
  <2> QED
    BY <2>1
<1> HIDE DEF g
<1>6. Interviewed(g[0], candidates, 0)
  BY <1>5, EmptySequence DEF Interviewed
<1>7. Interviewed(g[1], candidates, 0 + 1)
  BY <1>5, <1>6, NextInterviewed
<1>8. Interviewed(g[2], candidates, 1 + 1)
  BY <1>5, <1>7, NextInterviewed
<1>9. Interviewed(g[3], candidates, 2 + 1)
  BY <1>5, <1>8, NextInterviewed
<1>10. Interviewed(g[4], candidates, 3 + 1)
  BY <1>5, <1>9, NextInterviewed
<1>11. Interviewed(g[4], candidates, 4)
  BY <1>10
<1> QED
  BY <1>11, Zenon DEF g, DefaultQuestionLimit

-----------------------------------------------------------------------------
\* There are no more than eleven thresholds.
LEMMA ThresholdsAreEleven == IsFiniteSet(Thresholds) /\ Cardinality(Thresholds) <= 11
<1> DEFINE names == <<"repetition", "state_ownership", "persistence", "identity", "collaboration",
                      "public_api", "deployment", "operational", "security", "blast_radius",
                      "revisit">>
           f == [i \in 1..11 |-> names[i]]
<1>1. IsFiniteSet(1..11) /\ Cardinality(1..11) = 11
  <2> DEFINE m == 1
             n == 11
  <2>1. m \in Int /\ n \in Int
    OBVIOUS
  <2> HIDE DEF m, n
  <2>2. IsFiniteSet(m..n) /\ Cardinality(m..n) = IF m > n THEN 0 ELSE n - m + 1
    BY <2>1, FS_Interval
  <2> QED
    BY <2>2 DEF m, n
<1>2. f \in Surjection(1..11, Thresholds)
  <2>1. ASSUME NEW t \in Thresholds PROVE \E i \in 1..11 : f[i] = t
    <3>1. /\ f[1] = "repetition" /\ f[2] = "state_ownership" /\ f[3] = "persistence"
          /\ f[4] = "identity" /\ f[5] = "collaboration" /\ f[6] = "public_api"
          /\ f[7] = "deployment" /\ f[8] = "operational" /\ f[9] = "security"
          /\ f[10] = "blast_radius" /\ f[11] = "revisit"
      OBVIOUS
    <3> HIDE DEF f
    <3> QED
      BY <3>1, ThresholdNames
  <2>2. \A i \in 1..11 : f[i] \in Thresholds
    BY ThresholdNames
  <2> QED
    BY <2>1, <2>2 DEF Surjection
<1> HIDE DEF f
<1> QED
  BY <1>1, <1>2, FS_Surjection

\* The claims name concerns.
LEMMA ClaimsAreOfConcerns ==
  ASSUME NEW telemetry
  PROVE  /\ IsSequence(ClaimsForTelemetry(telemetry))
         /\ \A c \in ToSet(ClaimsForTelemetry(telemetry)) : c.concern \in Concerns
<1> DEFINE graph == EvidenceGraph(telemetry)
           I == {i \in DOMAIN ClaimRules :
                   Supported(ClaimRules[i], EvidenceNodes(ClaimRules[i], graph))}
           rules == AtPlaces(ClaimRules, I)
           claims == [i \in DOMAIN rules |->
                        [concern |-> rules[i].concern, residual |-> rules[i].residual,
                         confidence |-> ConfidenceForClaim(rules[i], EvidenceNodes(rules[i], graph)),
                         words |-> CitedBy(EvidenceNodes(rules[i], graph))]]
<1>1. /\ IsSequence(ClaimRules)
      /\ \A i \in DOMAIN ClaimRules : ClaimRules[i].concern \in Concerns
  <2>1. DOMAIN ClaimRules = 1..9 /\ Len(ClaimRules) = 9
    BY DEF ClaimRules
  <2>2. ClaimRules = [i \in 1..9 |-> ClaimRules[i]]
    BY DEF ClaimRules
  <2>3. \A i \in 1..9 : ClaimRules[i].concern \in Concerns
    BY DEF ClaimRules, Concerns
  <2>4. IsSequence(ClaimRules)
    BY <2>2, Tabulated
  <2> QED
    BY <2>1, <2>3, <2>4
<1>2. IsSequence(rules) /\ ToSet(rules) = {ClaimRules[i] : i \in I}
  BY <1>1, FilteredSequence
<1>3. \A rule \in ToSet(rules) : rule.concern \in Concerns
  BY <1>1, <1>2
<1> HIDE DEF rules, I
<1>4. DOMAIN rules = 1..Len(rules) /\ Len(rules) \in Nat
  BY <1>2, DomainOfSequence
<1>5. IsSequence(claims) /\ ToSet(claims) = {claims[i] : i \in 1..Len(rules)}
  BY <1>4, Tabulated
<1>6. ASSUME NEW i \in 1..Len(rules) PROVE claims[i].concern \in Concerns
  <2>1. rules[i] \in ToSet(rules)
    BY <1>4 DEF ToSet
  <2>2. claims[i].concern = rules[i].concern
    BY <1>4
  <2> QED
    BY <1>3, <2>1, <2>2
<1>7. ClaimsForTelemetry(telemetry) = claims
  BY DEF ClaimsForTelemetry, rules, I
<1> HIDE DEF claims
<1> QED
  BY <1>5, <1>6, <1>7

\* What is asked about claims, signals and facts is a candidate.
LEMMA ClaimCandidates ==
  ASSUME NEW claims, IsSequence(claims), \A c \in ToSet(claims) : c.concern \in Concerns,
         NEW q \in ClaimQuestions(claims)
  PROVE  IsCandidate(q)
<1>1. PICK i \in DOMAIN claims :
        /\ q.kind = "claim" /\ q.concern = claims[i].concern
        /\ q.score = ConcernPriority[claims[i].concern] + 35
                       + (IF claims[i].concern \in Security THEN 20 ELSE 0)
                       + (IF claims[i].concern = "deployment" THEN 18 ELSE 0) - (i - 1)
  BY DEF ClaimQuestions
<1>2. i \in Nat /\ i >= 1
  BY DomainOfSequence
<1>3. claims[i].concern \in Concerns
  BY DEF ToSet
<1> DEFINE p == ConcernPriority[claims[i].concern]
           a == IF claims[i].concern \in Security THEN 20 ELSE 0
           b == IF claims[i].concern = "deployment" THEN 18 ELSE 0
<1>4. p \in 0..100
  BY <1>3, Priorities
<1>5. a \in 0..20 /\ b \in 0..20
  OBVIOUS
<1>6. q.score = p + 35 + a + b - (i - 1)
  BY <1>1
<1> HIDE DEF p, a, b
<1>7. q.score \in Int /\ q.score <= 1000
  BY <1>2, <1>4, <1>5, <1>6
<1> QED
  BY <1>1, <1>3, <1>7 DEF IsCandidate

LEMMA SignalCandidates ==
  ASSUME NEW baseline, NEW telemetry, NEW q \in SignalQuestions(baseline, telemetry)
  PROVE  IsCandidate(q)
<1>1. PICK d \in telemetry.diagnostics :
        /\ d.family \in DOMAIN SignalConcern
        /\ q.kind = "signal" /\ q.concern = SignalConcern[d.family]
        /\ q.score = ConcernPriority[SignalConcern[d.family]]
                       + (IF d.severity = "warning" THEN 20 ELSE 5)
  BY DEF SignalQuestions
<1> DEFINE c == SignalConcern[d.family]
<1>2. c \in Concerns
  BY <1>1 DEF SignalConcern, Concerns
<1>3. ConcernPriority[c] \in 0..100
  BY <1>2, Priorities
<1>4. q.score = ConcernPriority[c] + (IF d.severity = "warning" THEN 20 ELSE 5) /\ q.concern = c
  BY <1>1
<1> HIDE DEF c
<1>5. q.score \in Int /\ q.score <= 1000
  BY <1>3, <1>4
<1> QED
  BY <1>1, <1>2, <1>4, <1>5 DEF IsCandidate

LEMMA FactCandidates ==
  ASSUME NEW baseline, NEW telemetry, NEW claims, NEW evidence, NEW decisions,
         \A c \in ToSet(baseline) : IsEntry(c, evidence, decisions),
         NEW q \in FactQuestions(baseline, telemetry, claims)
  PROVE  IsCandidate(q)
<1>1. PICK c \in ToSet(baseline) : \E f \in c.facts :
        q.kind = "fact" /\ q.concern = c.concern /\ q.score = ScoreFact(f, c, telemetry)
  BY DEF FactQuestions
<1>2. PICK f \in c.facts :
        q.kind = "fact" /\ q.concern = c.concern /\ q.score = ScoreFact(f, c, telemetry)
  BY <1>1
<1>3. c.concern \in Concerns /\ Founded(c, evidence, decisions)
  BY DEF IsEntry
<1>4. c.thresholds \subseteq Thresholds /\ f.concern = c.concern /\ f.confidence \in Levels
  BY <1>3 DEF Founded
<1> DEFINE confidence == [low |-> 30, medium |-> 20, high |-> 0]
           Related(signal) == \E s \in f.sources :
             \/ s.source = signal.source
             \/ signal.family \notin {"lifecycle", "memory"} /\ s.category = signal.category
           p == ConcernPriority[f.concern]
           k == confidence[f.confidence]
           i == IF Inferred(f) THEN 25 ELSE 0
           s == IF f.freshness = "stale" THEN 15 ELSE 0
           n == Cardinality(c.thresholds)
           r == IF \E j \in DOMAIN telemetry.signals : Related(telemetry.signals[j]) THEN 4 ELSE 0
<1>5. p \in 0..100
  BY <1>3, <1>4, Priorities
<1>6. k \in 0..30 /\ i \in 0..30 /\ s \in 0..30 /\ r \in 0..30
  BY <1>4 DEF Levels
<1>7. n \in 0..11
  BY <1>4, ThresholdsAreEleven, FS_Subset, FS_CardinalityType
<1>8. q.score = p + k + i + s + n * 6 + r
  BY <1>2 DEF ScoreFact
<1> HIDE DEF confidence, p, k, i, s, n, r
<1>9. q.score \in Int /\ q.score <= 1000
  BY <1>5, <1>6, <1>7, <1>8
<1> QED
  BY <1>2, <1>3, <1>9 DEF IsCandidate

\* No more than four questions, each of a concern.
LEMMA PlannedQuestions ==
  ASSUME NEW baseline, NEW telemetry, NEW context, NEW evidence, NEW decisions,
         \A c \in ToSet(baseline) : IsEntry(c, evidence, decisions)
  PROVE  LET questions == PlanQuestions(baseline, telemetry, ClaimsForTelemetry(telemetry), context)
         IN /\ IsSequence(questions) /\ Len(questions) <= 4
            /\ \A q \in ToSet(questions) : q.concern \in Concerns
<1> DEFINE claims == ClaimsForTelemetry(telemetry)
           candidates == FactQuestions(baseline, telemetry, claims)
                           \cup SignalQuestions(baseline, telemetry) \cup ClaimQuestions(claims)
           questions == PlanQuestions(baseline, telemetry, claims, context)
           asked == CHOOSE h : h = [n \in 0..DefaultQuestionLimit |->
                                      IF n = 0 THEN <<>> ELSE AskNext(candidates, h[n - 1])]
<1>1. \A q \in candidates : IsCandidate(q)
  BY ClaimsAreOfConcerns, ClaimCandidates, SignalCandidates, FactCandidates
<1>2. questions = <<>> \/ questions = asked[DefaultQuestionLimit]
  BY Zenon DEF PlanQuestions
<1>3. Interviewed(asked[DefaultQuestionLimit], candidates, 4)
  <2> HIDE DEF candidates
  <2> QED
    BY <1>1, FourRounds, Zenon
<1>4. Interviewed(<<>>, candidates, 4)
  BY EmptySequence DEF Interviewed
<1> HIDE DEF asked, candidates, questions
<1>5. Interviewed(questions, candidates, 4)
  BY <1>2, <1>3, <1>4
<1>6. IsSequence(questions) /\ Len(questions) <= 4 /\ \A q \in ToSet(questions) : q.concern \in Concerns
  BY <1>1, <1>5 DEF Interviewed, IsCandidate
<1> QED
  BY <1>6 DEF questions

-----------------------------------------------------------------------------
(***************************************************************************)
(* What is selected is of a known kind, and about a concern or about none. *)
(***************************************************************************)
Typed(s) == s.intervention \in Interventions /\ s.concern \in Concerns \cup {"none"}

\* The parts of a selected action are of their types when they are given so.
LEMMA SelectedIsTyped ==
  ASSUME NEW reason, NEW concern, NEW action, NEW intervention, NEW guidance, NEW asks,
         NEW provisional, concern \in Concerns \cup {"none"}, intervention \in Interventions
  PROVE  Typed(Selected(reason, concern, action, intervention, guidance, asks, provisional))
<1> DEFINE s == Selected(reason, concern, action, intervention, guidance, asks, provisional)
<1>1. s.concern = concern /\ s.intervention = intervention
  BY SelectedIs
<1> HIDE DEF s
<1>2. Typed(s)
  BY <1>1 DEF Typed
<1> QED
  BY <1>2 DEF s

\* The first that a filter leaves is an element.
LEMMA FirstOfFiltered ==
  ASSUME NEW s, IsSequence(s), NEW I, I \subseteq DOMAIN s, AtPlaces(s, I) # <<>>
  PROVE  AtPlaces(s, I)[1] \in ToSet(s)
<1> DEFINE t == AtPlaces(s, I)
<1>1. IsSequence(t) /\ ToSet(t) = {s[i] : i \in I}
  BY FilteredSequence
<1>2. t \in Seq(ToSet(t)) /\ t # <<>>
  BY <1>1 DEF IsSequence
<1>3. t[1] \in ToSet(t)
  <2> DEFINE T == ToSet(t)
  <2> HIDE DEF t, T
  <2>1. t \in Seq(T)
    BY <1>2 DEF T
  <2>2. t[1] \in T
    BY <1>2, <2>1
  <2> QED
    BY <2>2 DEF T
<1>4. ToSet(t) \subseteq ToSet(s)
  <2> HIDE DEF t
  <2> QED
    BY <1>1 DEF ToSet
<1> QED
  BY <1>3, <1>4

\* A revisit alert is taken for a concern, or for none.
LEMMA AlertConcerns ==
  ASSUME NEW baseline, IsSequence(baseline), \A c \in ToSet(baseline) : c.concern \in Concerns,
         NEW alert
  PROVE  ConcernForAlert(baseline, alert) \in Concerns \cup {"none"}
<1> DEFINE mapped == DecisionTextConcern(alert.concern)
           I == {i \in DOMAIN baseline : "revisit" \in baseline[i].thresholds}
           due == AtPlaces(baseline, I)
<1>1. mapped \in Concerns
  <2>1. mapped \in {"authentication", "data_storage", "api_contract", "deployment",
                    "state_ownership", "unknown"}
    BY Zenon DEF DecisionTextConcern
  <2> QED
    BY <2>1 DEF Concerns
<1>2. due # <<>> => due[1].concern \in Concerns
  <2>1. I \subseteq DOMAIN baseline
    OBVIOUS
  <2> HIDE DEF I
  <2> QED
    BY <2>1, FirstOfFiltered
<1> HIDE DEF mapped, due
<1>3. ConcernForAlert(baseline, alert) = IF Entry(ToSet(baseline), mapped) # {} THEN mapped
                                         ELSE IF due = <<>> THEN "none" ELSE due[1].concern
  BY DEF ConcernForAlert, mapped, due
<1> QED
  BY <1>1, <1>2, <1>3

\* So is the action for a pattern.
LEMMA PatternIsTyped ==
  ASSUME NEW baseline, NEW context, NEW questions,
         HighValuePatterns(PrincipleGuidance(baseline), context) # {}
  PROVE  Typed(PatternAction(FirstHighValuePattern(
                 HighValuePatterns(PrincipleGuidance(baseline), context)),
                 baseline, questions, PrincipleGuidance(baseline)))
<1> DEFINE P == HighValuePatterns(PrincipleGuidance(baseline), context)
           best == FirstHighValuePattern(P)
           s == PatternAction(best, baseline, questions, PrincipleGuidance(baseline))
           c == The(Entry(ToSet(baseline), best.concern))
<1>1. \A p \in P : p.concern \in Concerns /\ p.score \in 0..200
  BY OfferedPatterns
<1>2. best \in P
  <2>1. P # {}
    OBVIOUS
  <2> HIDE DEF P
  <2>2. FirstHighValuePattern(P) \in P
    BY <1>1, <2>1, FirstPatternIsOneOfThem
  <2> QED
    BY <2>2
<1> HIDE DEF best
<1>3. best.concern \in Concerns
  BY <1>1, <1>2
<1>4. s.concern = best.concern /\ s.intervention = InterventionForConcern(c, questions)
  BY DEF PatternAction, Selected
<1> HIDE DEF s, c
<1>5. InterventionForConcern(c, questions) \in Interventions
  BY DEF InterventionForConcern, Interventions
<1>6. Typed(s)
  BY <1>3, <1>4, <1>5 DEF Typed
<1> QED
  BY <1>6 DEF s, best

\* So is every action the policy selects.
LEMMA SelectedActionIsTyped ==
  ASSUME NEW baseline, IsSequence(baseline), WellMade(ToSet(baseline)),
         \A c \in ToSet(baseline) : c.concern \in Concerns,
         NEW questions, IsSequence(questions),
         \A q \in ToSet(questions) : q.concern \in Concerns,
         NEW alerts, NEW context, NEW brief
  PROVE  Typed(SelectPolicyAction(baseline, questions, alerts, PrincipleGuidance(baseline),
                                  context, brief))
<1> DEFINE guidance == PrincipleGuidance(baseline)
           most == MostUrgent(UnderStructured(baseline))
           over == OverStructured(baseline)
           bearing == LoadBearing(baseline)
<1>1. \A reason, concern, action, intervention, asks, provisional :
        (concern \in Concerns \cup {"none"} /\ intervention \in Interventions) =>
          Typed(Selected(reason, concern, action, intervention, guidance, asks, provisional))
  BY SelectedIsTyped
<1>2. ConcernForAlert(baseline, alerts[1]) \in Concerns \cup {"none"}
  BY AlertConcerns
<1>3. UnderStructured(baseline) # {} => most.concern \in Concerns
  <2>1. \A c \in UnderStructured(baseline) : c.concern \in Concerns /\ c.confidence \in Levels
    BY DEF UnderStructured, WellMade
  <2>2. UnderStructured(baseline) # {} => most \in UnderStructured(baseline)
    BY <2>1, MostUrgentIsOneOfThem
  <2> HIDE DEF most
  <2> QED
    BY <2>1, <2>2
<1>4. over # <<>> => over[1].concern \in Concerns
  <2> DEFINE I == {i \in DOMAIN baseline : baseline[i].adequacy.status = "over_structured"}
  <2>1. I \subseteq DOMAIN baseline /\ over = AtPlaces(baseline, I)
    BY DEF OverStructured
  <2> HIDE DEF I, over
  <2> QED
    BY <2>1, FirstOfFiltered
<1>5. bearing # <<>> => bearing[1].concern \in Concerns
  <2> DEFINE I == {i \in DOMAIN baseline : baseline[i].state \in {"LoadBearing", "Revisit"}}
  <2>1. I \subseteq DOMAIN baseline /\ bearing = AtPlaces(baseline, I)
    BY DEF LoadBearing
  <2> HIDE DEF I, bearing
  <2> QED
    BY <2>1, FirstOfFiltered
<1>6. questions # <<>> => questions[1].concern \in Concerns
  <2> DEFINE T == ToSet(questions)
  <2>1. questions \in Seq(T)
    BY DEF IsSequence
  <2>2. \A q \in T : q.concern \in Concerns
    OBVIOUS
  <2> HIDE DEF T
  <2>3. questions # <<>> => questions[1] \in T
    BY <2>1
  <2> QED
    BY <2>2, <2>3
<1>7. HighValuePatterns(guidance, context) # {} =>
        Typed(PatternAction(FirstHighValuePattern(HighValuePatterns(guidance, context)),
                            baseline, questions, guidance))
  BY PatternIsTyped
<1>8. UnderStructured(baseline) # {} => Typed(UnderStructuredAction(most, questions, guidance))
  <2> HIDE DEF most, guidance
  <2> QED
    BY <1>1, <1>3 DEF UnderStructuredAction, Interventions
<1>9. {"risk_hotspot", "package_boundary", "none"} \subseteq Concerns \cup {"none"}
  BY DEF Concerns
<1>10. RiskIntervention(The(ExplicitRisk(baseline))) \in Interventions
  BY DEF RiskIntervention, Interventions
<1> HIDE DEF guidance, over, bearing, most
<1>11. \A reason, concern, action, asks, provisional :
         concern \in Concerns \cup {"none"} =>
           /\ Typed(Selected(reason, concern, action, "note", guidance, asks, provisional))
           /\ Typed(Selected(reason, concern, action, "recommend", guidance, asks, provisional))
           /\ Typed(Selected(reason, concern, action, "interview-required", guidance, asks,
                             provisional))
           /\ Typed(Selected(reason, concern, action, "decision-required", guidance, asks,
                             provisional))
  BY <1>1 DEF Interventions
<1>12. ASSUME NEW asks, NEW provisional
       PROVE  Typed(Selected("risk", "risk_hotspot", "Run review",
                      RiskIntervention(The(ExplicitRisk(baseline))), guidance, asks, provisional))
  BY <1>1, <1>9, <1>10
<1>13. Typed(SelectPolicyAction(baseline, questions, alerts, guidance, context, brief))
  BY <1>2, <1>4, <1>5, <1>6, <1>7, <1>8, <1>9, <1>11, <1>12
  DEF SelectPolicyAction, over, bearing, most
<1> QED
  BY <1>13 DEF guidance

-----------------------------------------------------------------------------
(***************************************************************************)
(* The decision memory: the records have the ids in order, at levels the   *)
(* policy knows, and the debts among them are of concerns the host accepts *)
(* debts of.                                                               *)
(***************************************************************************)
IsRecord(r, i) ==
  /\ r.id = Ids[i]
  /\ r.adviceStatus \in AdviceStatuses
  /\ r.pressure \in PressureLevels /\ r.support \in SupportLevels
  /\ r.revisitIf # <<>> /\ IsSequence(r.revisitIf)
  /\ r.kind = "accepted_debt" => r.concern \in DebtConcerns

MemoryInv ==
  /\ Len(records) <= Len(Ids)
  /\ \A i \in DOMAIN records : IsRecord(records[i], i)

\* The entries and the questions of any assessment.
LEMMA AssessmentIsTyped ==
  ASSUME NEW event \in Events, NEW items, IsSequence(items), NEW memory, IsSequence(memory)
  PROVE  LET r == AssessmentOf(event, items, memory)
         IN /\ IsSequence(r.baseline) /\ WellMade(ToSet(r.baseline))
            /\ \A c \in ToSet(r.baseline) :
                 IsEntry(c, EvidenceOf(event, items), PriorDecisions(event, memory))
            /\ Len(r.questions) <= 4
            /\ Typed(r.selected)
<1> DEFINE r == AssessmentOf(event, items, memory)
           evidence == EvidenceOf(event, items)
           decisions == PriorDecisions(event, memory)
           telemetry == TelemetryOf(event, items)
           baseline == r.baseline
           questions == r.questions
           alerts == r.alerts
           context == r.context
<1>1. /\ baseline = BaselineOf(evidence, event, decisions)
      /\ r.selected = SelectPolicyAction(baseline, questions, alerts,
                        PrincipleGuidance(baseline), context, TemporalBrief(telemetry))
      /\ questions = PlanQuestions(baseline, telemetry, ClaimsForTelemetry(telemetry), context)
  BY AssessmentParts
<1>2. IsSequence(evidence) /\ IsSequence(decisions)
  BY EvidenceOfItems, PriorDecisionsAre
<1> HIDE DEF r, evidence, decisions, telemetry, baseline, questions, alerts, context
<1>3. IsSequence(baseline) /\ \A c \in ToSet(baseline) : IsEntry(c, evidence, decisions)
  BY <1>1, <1>2, BaselineEntries
<1>4. WellMade(ToSet(baseline))
  BY <1>1, BaselinesAreWellMade
<1>5. /\ IsSequence(questions) /\ Len(questions) <= 4
      /\ \A q \in ToSet(questions) : q.concern \in Concerns
  BY <1>1, <1>3, PlannedQuestions
<1>6. \A c \in ToSet(baseline) : c.concern \in Concerns
  BY <1>3 DEF IsEntry
<1>7. Typed(r.selected)
  BY <1>1, <1>3, <1>4, <1>5, <1>6, SelectedActionIsTyped
<1> QED
  BY <1>3, <1>4, <1>5, <1>7 DEF r, evidence, decisions, baseline, questions

\* The invariant of the memory holds throughout.
LEMMA MemoryInvAlways == Spec => []MemoryInv
<1>1. Init => MemoryInv
  <2> SUFFICES ASSUME Init PROVE MemoryInv
    OBVIOUS
  <2>1. records = <<>>
    BY DEF Init
  <2>2. Len(Ids) \in Nat
    BY BoundsAssumption
  <2> QED
    BY <2>1, <2>2 DEF MemoryInv
<1>2. SessionInv /\ MemoryInv /\ [Next]_vars => MemoryInv'
  <2> SUFFICES ASSUME SessionInv, MemoryInv, [Next]_vars PROVE MemoryInv'
    OBVIOUS
  <2>1. ASSUME NEW record, Remember(record), IsRecord(record, Len(records) + 1) PROVE MemoryInv'
    <3>1. records' = Append(records, record) /\ Len(records) < Len(Ids)
      BY <2>1 DEF Remember
    <3> DEFINE T == ToSet(records)
    <3>2. records \in Seq(T)
      BY DEF SessionInv, IsSequence
    <3>3. Len(Ids) \in Nat
      BY BoundsAssumption
    <3> HIDE DEF T
    <3>4. /\ DOMAIN records' = 1..(Len(records) + 1) /\ Len(records') = Len(records) + 1
          /\ Len(records) \in Nat /\ DOMAIN records = 1..Len(records)
      BY <3>1, <3>2
    <3>5. /\ \A i \in 1..Len(records) : records'[i] = records[i]
          /\ records'[Len(records) + 1] = record
      BY <3>1, <3>2
    <3>6. ASSUME NEW i \in DOMAIN records' PROVE IsRecord(records'[i], i)
      <4>1. CASE i = Len(records) + 1
        BY <2>1, <3>5, <4>1
      <4>2. CASE i \in 1..Len(records)
        BY <3>4, <3>5, <4>2 DEF MemoryInv
      <4> QED
        BY <3>4, <3>6, <4>1, <4>2
    <3>7. Len(records') <= Len(Ids)
      BY <3>1, <3>3, <3>4
    <3> QED
      BY <3>6, <3>7 DEF MemoryInv, IsRecord
  <2>2. CASE AcceptDebt
    <3>1. PICK c \in ToSet(IF result = NoResult THEN <<>> ELSE result.baseline),
               status \in AdviceStatuses, condition \in Conditions :
            /\ c.concern \in DebtConcerns
            /\ Remember([id |-> Ids[Len(records) + 1], kind |-> "accepted_debt",
                 concern |-> c.concern, adviceStatus |-> status,
                 revisitIf |-> <<condition>>, pressure |-> c.adequacy.pressure,
                 support |-> c.adequacy.support, words |-> {}])
      BY <2>2 DEF AcceptDebt
    <3>2. result # NoResult /\ c \in ToSet(result.baseline)
      BY <3>1 DEF Remember
    <3>3. InHand /\ IsSequence(records)
      BY <3>2 DEF SessionInv
    <3>4. c.adequacy.pressure \in PressureLevels /\ c.adequacy.support \in SupportLevels
      <4>1. IsEntry(c, EvidenceOf(basis.event, basis.items),
                    PriorDecisions(basis.event, records))
        BY <3>2, <3>3, AssessmentIsTyped DEF InHand
      <4> QED
        BY <4>1 DEF IsEntry
    <3> DEFINE record == [id |-> Ids[Len(records) + 1], kind |-> "accepted_debt",
                 concern |-> c.concern, adviceStatus |-> status,
                 revisitIf |-> <<condition>>, pressure |-> c.adequacy.pressure,
                 support |-> c.adequacy.support, words |-> {}]
    <3>5. IsRecord(record, Len(records) + 1)
      BY <3>1, <3>4, OneElement DEF IsRecord
    <3>6. Remember(record)
      BY <3>1
    <3> HIDE DEF record
    <3> QED
      BY <2>1, <3>5, <3>6
  <2>3. CASE RecordDecision
    <3>1. PICK text \in Texts, condition \in Conditions :
            Remember([id |-> Ids[Len(records) + 1], kind |-> "decision", concern |-> text,
              adviceStatus |-> "active", revisitIf |-> <<condition>>,
              pressure |-> "none", support |-> "unknown", words |-> {}])
      BY <2>3 DEF RecordDecision
    <3> DEFINE record == [id |-> Ids[Len(records) + 1], kind |-> "decision", concern |-> text,
              adviceStatus |-> "active", revisitIf |-> <<condition>>,
              pressure |-> "none", support |-> "unknown", words |-> {}]
    <3>2. IsRecord(record, Len(records) + 1)
      BY OneElement DEF IsRecord, AdviceStatuses, PressureLevels, SupportLevels
    <3>3. Remember(record)
      BY <3>1
    <3> HIDE DEF record
    <3> QED
      BY <2>1, <3>2, <3>3
  <2>4. CASE Assess
    BY <2>4, AnAssessment DEF AssessWith, MemoryInv, IsRecord
  <2>5. CASE MoveOn
    BY <2>5 DEF MoveOn, MemoryInv, IsRecord
  <2>6. CASE UNCHANGED vars
    BY <2>6 DEF vars, MemoryInv, IsRecord
  <2> QED
    BY <2>2, <2>3, <2>4, <2>5, <2>6 DEF Next
<1> QED
  BY <1>1, <1>2, SessionInvAlways, PTL DEF Spec

\* The memory and the advice are what their readers expect, for any events, any
\* outcomes of the collectors and any number of records.
THEOREM CoachingType == Spec => []TypeOK
<1>1. SessionInv /\ MemoryInv => TypeOK
  <2> SUFFICES ASSUME SessionInv, MemoryInv PROVE TypeOK
    OBVIOUS
  <2>1. DOMAIN PressureRank = PressureLevels /\ DOMAIN SupportRank = SupportLevels
    BY DEF PressureRank, SupportRank, PressureLevels, SupportLevels
  <2>2. \A i \in DOMAIN records :
          /\ records[i].id = Ids[i]
          /\ records[i].adviceStatus \in AdviceStatuses
          /\ records[i].pressure \in DOMAIN PressureRank
          /\ records[i].support \in DOMAIN SupportRank
    BY <2>1 DEF MemoryInv, IsRecord
  <2>3. ASSUME Assessed
        PROVE  /\ basis.event \in Events
               /\ result.selected.intervention \in Interventions
               /\ result.selected.concern \in Concerns \cup {"none"}
               /\ Len(result.questions) <= 4
               /\ \A i \in DOMAIN result.baseline : result.baseline[i].thresholds \subseteq Thresholds
    <3>1. InHand /\ IsSequence(records)
      BY <2>3 DEF SessionInv, Assessed
    <3>2. /\ \A c \in ToSet(result.baseline) :
               IsEntry(c, EvidenceOf(basis.event, basis.items),
                       PriorDecisions(basis.event, records))
          /\ Len(result.questions) <= 4
          /\ Typed(result.selected)
      BY <3>1, AssessmentIsTyped DEF InHand
    <3>3. \A c \in ToSet(result.baseline) : c.thresholds \subseteq Thresholds
      BY <3>2 DEF IsEntry, Founded
    <3>4. \A i \in DOMAIN result.baseline : result.baseline[i] \in ToSet(result.baseline)
      BY DEF ToSet
    <3> QED
      BY <3>1, <3>2, <3>3, <3>4 DEF InHand, Typed
  <2> QED
    BY <2>2, <2>3 DEF TypeOK, MemoryInv
<1> QED
  BY <1>1, SessionInvAlways, MemoryInvAlways, PTL

-----------------------------------------------------------------------------
(***************************************************************************)
(* Debts.  An alert says which decision it is of, so the first alert of a  *)
(* decision and a condition speaks for all of them.                        *)
(***************************************************************************)
LEMMA FirstOfItsKind ==
  ASSUME NEW alerts, IsSequence(alerts), NEW x \in ToSet(alerts)
  PROVE  LET firsts == {i \in DOMAIN alerts : ~\E j \in 1..(i - 1) :
                          /\ alerts[j].decision = alerts[i].decision
                          /\ alerts[j].condition = alerts[i].condition}
         IN \E i \in firsts : /\ alerts[i].decision = x.decision
                              /\ alerts[i].condition = x.condition
<1> DEFINE S == {i \in DOMAIN alerts : /\ alerts[i].decision = x.decision
                                       /\ alerts[i].condition = x.condition}
           f == [i \in S |-> i]
<1>1. DOMAIN alerts = 1..Len(alerts) /\ Len(alerts) \in Nat
  BY DomainOfSequence
<1>2. S # {}
  BY DEF ToSet
<1>3. f \in [S -> Nat]
  BY <1>1
<1>4. PICK i \in S : \A j \in S : f[i] <= f[j]
  BY <1>2, <1>3, LeastRank
<1>5. \A j \in S : i <= j
  BY <1>4
<1>6. ASSUME NEW j \in 1..(i - 1), alerts[j].decision = alerts[i].decision,
             alerts[j].condition = alerts[i].condition
      PROVE  FALSE
  <2>1. i \in 1..Len(alerts)
    BY <1>1
  <2>2. j \in DOMAIN alerts /\ j < i
    BY <1>1, <2>1
  <2>3. j \in S
    BY <1>6, <2>2
  <2> QED
    BY <1>1, <1>5, <2>1, <2>2, <2>3
<1> QED
  BY <1>6

\* The alerts of a decision by its conditions, which reopen nothing,
LEMMA ConditionAlertsAre ==
  ASSUME NEW d, IsSequence(d.revisitIf), NEW evidence
  PROVE  /\ IsSequence(ConditionAlerts(d, evidence))
         /\ \A a \in ToSet(ConditionAlerts(d, evidence)) :
              a.decision = d.id /\ a.reopened = FALSE /\ d.adviceStatus = "active"
<1> DEFINE conditions == d.revisitIf
           I == {i \in DOMAIN conditions :
                   \E text \in evidence : ConditionMatchesEvidence(conditions[i], text)}
           met == AtPlaces(conditions, I)
           raised == [i \in DOMAIN met |-> Alert(d, met[i].phrase, FALSE)]
<1>1. IsSequence(met)
  BY FilteredSequence
<1> HIDE DEF met
<1>2. DOMAIN met = 1..Len(met) /\ Len(met) \in Nat
  BY <1>1, DomainOfSequence
<1>3. IsSequence(raised) /\ ToSet(raised) = {raised[i] : i \in 1..Len(met)}
  <2>1. raised = [i \in 1..Len(met) |-> raised[i]]
    BY <1>2
  <2> HIDE DEF raised
  <2> QED
    BY <1>2, <2>1, Tabulated
<1>4. \A i \in 1..Len(met) : raised[i].decision = d.id /\ raised[i].reopened = FALSE
  BY <1>2 DEF Alert
<1>5. ConditionAlerts(d, evidence) = IF d.adviceStatus # "active" THEN <<>> ELSE raised
  BY DEF ConditionAlerts, met
<1> HIDE DEF raised
<1> QED
  BY <1>3, <1>4, <1>5, EmptySequence

\* and by what the baseline has become, which do when it was handled.
LEMMA AdequacyAlertsAre ==
  ASSUME NEW d, NEW baseline
  PROVE  /\ IsSequence(AdequacyAlerts(d, baseline))
         /\ \A a \in ToSet(AdequacyAlerts(d, baseline)) :
              /\ a.decision = d.id /\ a.concern = d.concern
              /\ a.reopened = (d.adviceStatus = "handled")
         /\ ToSet(AdequacyAlerts(d, baseline)) # {} <=>
              /\ d.kind = "accepted_debt" /\ d.concern \in Concerns
              /\ d.adviceStatus # "superseded" /\ BehindOn(d.concern, baseline) # <<>>
              /\ Outgrown(d, Head(BehindOn(d.concern, baseline)).adequacy)
<1> DEFINE current == BehindOn(d.concern, baseline)
           now == Head(current).adequacy
           handled == d.adviceStatus = "handled"
           a1 == Alert(d, "pressure increased", handled)
           a2 == Alert(d, "support weakened", handled)
           P == PressureRank[now.pressure] > PressureRank[d.pressure]
           S == SupportRank[now.support] < SupportRank[d.support]
           p == IF P THEN <<a1>> ELSE <<>>
           s == IF S THEN <<a2>> ELSE <<>>
           no == \/ d.kind # "accepted_debt" \/ d.concern \notin Concerns
                 \/ d.adviceStatus = "superseded" \/ current = <<>>
<1>1. AdequacyAlerts(d, baseline) = IF no THEN <<>> ELSE p \o s
  BY DEF AdequacyAlerts
<1>2. Outgrown(d, now) = (P \/ S)
  BY DEF Outgrown
<1>3. /\ a1.decision = d.id /\ a1.concern = d.concern /\ a1.reopened = handled
      /\ a2.decision = d.id /\ a2.concern = d.concern /\ a2.reopened = handled
  BY DEF Alert
<1> HIDE DEF a1, a2, P, S, now, current, handled
<1>4. IsSequence(p) /\ IsSequence(s)
  BY OneElement, EmptySequence
<1>5. ToSet(p) = (IF P THEN {a1} ELSE {}) /\ ToSet(s) = (IF S THEN {a2} ELSE {})
  BY OneElement, EmptySequence
<1> HIDE DEF p, s
<1>6. IsSequence(p \o s) /\ ToSet(p \o s) = ToSet(p) \cup ToSet(s)
  BY <1>4, Concatenated
<1>7. IsSequence(AdequacyAlerts(d, baseline))
  BY <1>1, <1>6, EmptySequence
<1>8. ToSet(AdequacyAlerts(d, baseline))
        = IF no THEN {} ELSE (IF P THEN {a1} ELSE {}) \cup (IF S THEN {a2} ELSE {})
  BY <1>1, <1>5, <1>6, EmptySequence
<1> HIDE DEF no
<1>9. \A a \in ToSet(AdequacyAlerts(d, baseline)) :
        a.decision = d.id /\ a.concern = d.concern /\ a.reopened = handled
  BY <1>3, <1>8
<1>10. ToSet(AdequacyAlerts(d, baseline)) # {} <=> ~no /\ Outgrown(d, now)
  BY <1>2, <1>8
<1> QED
  BY <1>7, <1>9, <1>10 DEF no, current, now, handled

\* The alerts of a revisit check, before one is kept of each kind: those of the
\* decisions with a condition.
LEMMA AlertsAre ==
  ASSUME NEW event, IsSequence(event.priors), NEW memory, IsSequence(memory),
         \A d \in ToSet(memory) \cup ToSet(event.priors) : IsSequence(d.revisitIf),
         NEW telemetry, NEW baseline
  PROVE  LET alerts == CheckRevisit(event, memory, telemetry, baseline)
             evidence == CurrentEvidence(event, telemetry)
             Of(d) == ToSet(ConditionAlerts(d, evidence)) \cup ToSet(AdequacyAlerts(d, baseline))
             D == {d \in ToSet(memory) \cup ToSet(event.priors) : d.revisitIf # <<>>}
         IN /\ IsSequence(alerts)
            /\ \A a \in ToSet(alerts) : \E d \in D : a \in Of(d)
            /\ \A d \in D : \A a \in Of(d) :
                 \E b \in ToSet(alerts) : b.decision = a.decision /\ b.condition = a.condition
<1> DEFINE evidence == CurrentEvidence(event, telemetry)
           all == memory \o event.priors
           I == {i \in DOMAIN all : all[i].revisitIf # <<>>}
           decisions == AtPlaces(all, I)
           One(d) == ConditionAlerts(d, evidence) \o AdequacyAlerts(d, baseline)
           Of(d) == ToSet(ConditionAlerts(d, evidence)) \cup ToSet(AdequacyAlerts(d, baseline))
           D == {d \in ToSet(memory) \cup ToSet(event.priors) : d.revisitIf # <<>>}
           ss == [i \in DOMAIN decisions |-> One(decisions[i])]
           flat == FlattenSeq(ss)
           J == {i \in DOMAIN flat : ~\E j \in 1..(i - 1) :
                   flat[j].decision = flat[i].decision /\ flat[j].condition = flat[i].condition}
           alerts == CheckRevisit(event, memory, telemetry, baseline)
<1>1. IsSequence(all) /\ ToSet(all) = ToSet(memory) \cup ToSet(event.priors)
  BY Concatenated
<1>2. alerts = AtPlaces(flat, J)
  BY DEF CheckRevisit
<1>3. IsSequence(decisions) /\ ToSet(decisions) = D
  <2>1. IsSequence(decisions) /\ ToSet(decisions) = {all[i] : i \in I}
    <3> HIDE DEF all
    <3> QED
      BY <1>1, FilteredSequence
  <2>2. {all[i] : i \in I} = {d \in ToSet(all) : d.revisitIf # <<>>}
    <3> HIDE DEF all
    <3> QED
      BY DEF ToSet
  <2> HIDE DEF all, decisions, I
  <2> QED
    BY <1>1, <2>1, <2>2
<1>4. ASSUME NEW d \in D PROVE IsSequence(One(d)) /\ ToSet(One(d)) = Of(d)
  <2>1. IsSequence(ConditionAlerts(d, evidence))
    BY ConditionAlertsAre
  <2>2. IsSequence(AdequacyAlerts(d, baseline))
    BY AdequacyAlertsAre
  <2> QED
    BY <2>1, <2>2, Concatenated
<1> HIDE DEF decisions, D, One, Of, all, evidence
<1>5. DOMAIN decisions = 1..Len(decisions) /\ Len(decisions) \in Nat
  BY <1>3, DomainOfSequence
<1>6. /\ \A i \in 1..Len(decisions) : decisions[i] \in D
      /\ \A d \in D : \E i \in 1..Len(decisions) : decisions[i] = d
  BY <1>3, <1>5 DEF ToSet
<1>7. \A i \in 1..Len(decisions) : IsSequence(ss[i]) /\ ToSet(ss[i]) = Of(decisions[i])
  BY <1>4, <1>5, <1>6
<1>8. ss = [i \in 1..Len(decisions) |-> ss[i]]
  BY <1>5
<1> HIDE DEF ss
<1>9. IsSequence(flat) /\ ToSet(flat) = UNION {ToSet(ss[i]) : i \in 1..Len(decisions)}
  BY <1>5, <1>7, <1>8, Flattened
<1> HIDE DEF flat
<1>10. IsSequence(alerts) /\ ToSet(alerts) = {flat[i] : i \in J}
  BY <1>2, <1>9, FilteredSequence
<1> HIDE DEF alerts
<1>11. ASSUME NEW a \in ToSet(alerts) PROVE \E d \in D : a \in Of(d)
  <2>1. a \in ToSet(flat)
    BY <1>10 DEF ToSet
  <2> QED
    BY <1>6, <1>7, <1>9, <2>1
<1>12. ASSUME NEW d \in D, NEW a \in Of(d)
       PROVE  \E b \in ToSet(alerts) : b.decision = a.decision /\ b.condition = a.condition
  <2>1. a \in ToSet(flat)
    BY <1>6, <1>7, <1>9
  <2>2. \E i \in J : flat[i].decision = a.decision /\ flat[i].condition = a.condition
    BY <1>9, <2>1, FirstOfItsKind
  <2> QED
    BY <1>10, <2>2
<1> QED
  BY <1>10, <1>11, <1>12 DEF alerts, D, Of, evidence

\* A baseline has one entry of a concern, so the first that is behind is it.
LEMMA TheOneBehind ==
  ASSUME NEW baseline, IsSequence(baseline), WellMade(ToSet(baseline)), NEW concern
  PROVE  /\ BehindOn(concern, baseline) # <<>> =>
              \E c \in ToSet(baseline) :
                /\ c.concern = concern /\ c.adequacy.status = "under_structured"
                /\ c = Head(BehindOn(concern, baseline))
         /\ \A c \in ToSet(baseline) :
              (c.concern = concern /\ c.adequacy.status = "under_structured") =>
                /\ BehindOn(concern, baseline) # <<>>
                /\ c = Head(BehindOn(concern, baseline))
<1> DEFINE I == {i \in DOMAIN baseline : /\ baseline[i].concern = concern
                                         /\ baseline[i].adequacy.status = "under_structured"}
           behind == BehindOn(concern, baseline)
           T == ToSet(behind)
<1>1. behind = AtPlaces(baseline, I)
  BY DEF BehindOn
<1>2. IsSequence(behind) /\ T = {baseline[i] : i \in I}
  <2> HIDE DEF behind
  <2> QED
    BY <1>1, FilteredSequence
<1>3. T = {c \in ToSet(baseline) : c.concern = concern /\ c.adequacy.status = "under_structured"}
  BY <1>2 DEF ToSet
<1>4. behind \in Seq(T)
  BY <1>2 DEF IsSequence
<1>5. T # {} => behind # <<>>
  BY DEF ToSet
<1> HIDE DEF T, behind
<1>6. behind # <<>> => Head(behind) \in T
  BY <1>4
<1>7. \A c, d \in T : c = d
  BY <1>3 DEF WellMade
<1> QED
  BY <1>3, <1>5, <1>6, <1>7 DEF behind

\* The memory and the event tell their decisions apart.
ApartBy(event, memory) ==
  /\ \A d, e \in ToSet(memory) : d.id = e.id => d = e
  /\ \A p \in ToSet(event.priors) :
       p.kind # "accepted_debt" /\ \A d \in ToSet(memory) : d.id # p.id

\* A concern is reopened exactly when some alert reopens it.
LEMMA ReopenedIsRaised ==
  ASSUME NEW event, IsSequence(event.priors), NEW memory, IsSequence(memory),
         ApartBy(event, memory),
         \A d \in ToSet(memory) \cup ToSet(event.priors) : IsSequence(d.revisitIf),
         \A d \in ToSet(memory) : d.revisitIf # <<>>,
         \A d \in ToSet(memory) : d.kind = "accepted_debt" => d.concern \in Concerns,
         NEW telemetry, NEW baseline, IsSequence(baseline), WellMade(ToSet(baseline)),
         \A c \in ToSet(baseline) : c.adequacy.concern = c.concern,
         NEW concern \in Concerns \ Security
  PROVE  ([concern |-> concern, status |-> "reopened"] \in ArchitectureDebt(baseline, memory))
           <=> \E a \in ToSet(CheckRevisit(event, memory, telemetry, baseline)) :
                 a.reopened /\ a.concern = concern
<1> DEFINE alerts == CheckRevisit(event, memory, telemetry, baseline)
           evidence == CurrentEvidence(event, telemetry)
           Of(d) == ToSet(ConditionAlerts(d, evidence)) \cup ToSet(AdequacyAlerts(d, baseline))
           D == {d \in ToSet(memory) \cup ToSet(event.priors) : d.revisitIf # <<>>}
           Behind(c) == c \in ToSet(baseline) /\ c.adequacy.status = "under_structured"
           debt == [concern |-> concern, status |-> "reopened"]
<1>1. /\ \A a \in ToSet(alerts) : \E d \in D : a \in Of(d)
      /\ \A d \in D : \A a \in Of(d) :
           \E b \in ToSet(alerts) : b.decision = a.decision /\ b.condition = a.condition
  BY AlertsAre
<1>2. ASSUME NEW d \in D, NEW a \in Of(d)
      PROVE  /\ a.decision = d.id
             /\ \/ a.reopened = FALSE /\ (a \in ToSet(AdequacyAlerts(d, baseline))
                                            \/ d.adviceStatus = "active")
                \/ a.reopened = TRUE /\ a \in ToSet(AdequacyAlerts(d, baseline))
                   /\ a.concern = d.concern /\ d.adviceStatus = "handled"
  <2>1. CASE a \in ToSet(ConditionAlerts(d, evidence))
    BY <2>1, ConditionAlertsAre
  <2>2. CASE a \in ToSet(AdequacyAlerts(d, baseline))
    <3>1. a.decision = d.id /\ a.concern = d.concern /\ a.reopened = (d.adviceStatus = "handled")
      BY <2>2, AdequacyAlertsAre
    <3> QED
      BY <2>2, <3>1, Zenon
  <2> QED
    BY <1>2, <2>1, <2>2
<1>3. debt \in ArchitectureDebt(baseline, memory)
        <=> \E c : /\ Behind(c) /\ c.concern = concern
                   /\ DebtOf(c.adequacy, memory) = "reopened"
  BY DEF ArchitectureDebt
<1>4. ASSUME NEW c, Behind(c), c.concern = concern
      PROVE  DebtOf(c.adequacy, memory) = "reopened"
               <=> \E r \in ToSet(memory) :
                     /\ r.kind = "accepted_debt" /\ r.concern = concern
                     /\ r.adviceStatus = "handled" /\ Outgrown(r, c.adequacy)
  <2>1. c.adequacy.concern = concern
    BY <1>4
  <2>2. \A r \in Debts(memory) : ConcernMatches(r.concern, concern) <=> r.concern = concern
    <3>1. \A r \in Debts(memory) : r.concern \in Concerns
      BY DEF Debts
    <3>2. "persistence" \notin Concerns /\ concern # "authentication"
      BY DEF Concerns, Security
    <3> QED
      BY <3>1, <3>2 DEF ConcernMatches
  <2>3. DebtOf(c.adequacy, memory) = "reopened"
          <=> \E r \in Debts(memory) : /\ ConcernMatches(r.concern, concern)
                                       /\ r.adviceStatus = "handled" /\ Outgrown(r, c.adequacy)
    BY <2>1 DEF DebtOf
  <2> QED
    BY <2>2, <2>3 DEF Debts
<1>5. \A r \in ToSet(memory) : r \in D
  OBVIOUS
<1>6. ASSUME debt \in ArchitectureDebt(baseline, memory)
      PROVE  \E a \in ToSet(alerts) : a.reopened /\ a.concern = concern
  <2>1. PICK c : Behind(c) /\ c.concern = concern /\ DebtOf(c.adequacy, memory) = "reopened"
    BY <1>3, <1>6
  <2>2. PICK r \in ToSet(memory) : /\ r.kind = "accepted_debt" /\ r.concern = concern
                                   /\ r.adviceStatus = "handled" /\ Outgrown(r, c.adequacy)
    BY <1>4, <2>1
  <2>3. BehindOn(concern, baseline) # <<>> /\ c = Head(BehindOn(concern, baseline))
    BY <2>1, TheOneBehind
  <2>4. ToSet(AdequacyAlerts(r, baseline)) # {}
    BY <2>2, <2>3, AdequacyAlertsAre
  <2>5. PICK x \in ToSet(AdequacyAlerts(r, baseline)) : x \in Of(r)
    BY <2>4
  <2>6. PICK b \in ToSet(alerts) : b.decision = x.decision /\ b.condition = x.condition
    BY <1>1, <1>5, <2>5
  <2>7. PICK d \in D : b \in Of(d)
    BY <1>1
  <2>8. d.id = r.id
    BY <1>2, <1>5, <2>5, <2>6, <2>7
  <2>9. d = r
    BY <2>8 DEF ApartBy
  <2>10. b \in ToSet(AdequacyAlerts(r, baseline))
    BY <1>2, <1>5, <2>2, <2>7, <2>9
  <2>11. b.concern = r.concern /\ b.reopened = (r.adviceStatus = "handled")
    BY <2>10, AdequacyAlertsAre
  <2> QED
    BY <2>2, <2>11
<1>7. ASSUME NEW a \in ToSet(alerts), a.reopened, a.concern = concern
      PROVE  debt \in ArchitectureDebt(baseline, memory)
  <2>1. PICK d \in D : a \in Of(d)
    BY <1>1
  <2>2. /\ a \in ToSet(AdequacyAlerts(d, baseline))
        /\ a.concern = d.concern /\ d.adviceStatus = "handled"
    BY <1>2, <1>7, <2>1
  <2>3. /\ d.kind = "accepted_debt" /\ BehindOn(d.concern, baseline) # <<>>
        /\ Outgrown(d, Head(BehindOn(d.concern, baseline)).adequacy)
    BY <2>2, AdequacyAlertsAre
  <2>4. d \in ToSet(memory)
    BY <2>3 DEF ApartBy
  <2>5. PICK c \in ToSet(baseline) : /\ c.concern = concern
                                     /\ c.adequacy.status = "under_structured"
                                     /\ c = Head(BehindOn(concern, baseline))
    BY <1>7, <2>2, <2>3, TheOneBehind
  <2>6. DebtOf(c.adequacy, memory) = "reopened"
    BY <1>4, <1>7, <2>2, <2>3, <2>4, <2>5
  <2> QED
    BY <1>3, <2>5, <2>6
<1> QED
  BY <1>6, <1>7

\* The events a host sends bring no debts of their own, and no decision under the
\* id of a record of the memory.
EventsBringNoDebts ==
  \A event \in Events : \A p \in ToSet(event.priors) :
    p.kind # "accepted_debt" /\ p.id \notin ToSet(Ids)

\* With every debt in the memory, a handled debt that was outgrown is raised by
\* the assessment that reports it as reopened, and no other is.
THEOREM ReopenedDebt ==
  ASSUME EventsBringNoDebts
  PROVE  Spec => []ReopenedDebtIsRaised
<1>1. SessionInv /\ MemoryInv => ReopenedDebtIsRaised
  <2> SUFFICES ASSUME SessionInv, MemoryInv, Assessed, NEW concern \in Concerns \ Security
               PROVE  ([concern |-> concern, status |-> "reopened"] \in result.debt)
                        <=> \E i \in DOMAIN result.alerts :
                              result.alerts[i].reopened /\ result.alerts[i].concern = concern
    BY DEF ReopenedDebtIsRaised
  <2> DEFINE event == basis.event
             r == AssessmentOf(event, basis.items, records)
             baseline == r.baseline
             telemetry == TelemetryOf(event, basis.items)
  <2>1. event \in Events /\ IsSequence(basis.items) /\ IsSequence(records) /\ result = r
    BY DEF SessionInv, InHand, Assessed
  <2>2. /\ IsSequence(baseline) /\ WellMade(ToSet(baseline))
        /\ \A c \in ToSet(baseline) :
             IsEntry(c, EvidenceOf(event, basis.items), PriorDecisions(event, records))
    BY <2>1, AssessmentIsTyped
  <2>3. /\ r.alerts = CheckRevisit(event, records, telemetry, baseline)
        /\ r.debt = ArchitectureDebt(baseline, records)
    BY AssessmentParts
  <2> HIDE DEF event, r, baseline, telemetry
  <2>4. \A c \in ToSet(baseline) : c.adequacy.concern = c.concern
    BY <2>2 DEF IsEntry
  <2>5. IsSequence(event.priors) /\ \A p \in ToSet(event.priors) : IsSequence(p.revisitIf)
    BY <2>1, EventsAssumption DEF IsSequence
  <2>6. \A d \in ToSet(records) : \E i \in DOMAIN records : d = records[i] /\ IsRecord(d, i)
    BY DEF MemoryInv, ToSet
  <2>7. DOMAIN records \subseteq DOMAIN Ids
    <3>1. DOMAIN records = 1..Len(records) /\ Len(records) \in Nat
      BY <2>1, DomainOfSequence
    <3>2. DOMAIN Ids = 1..Len(Ids) /\ Len(Ids) \in Nat
      BY BoundsAssumption
    <3> QED
      BY <3>1, <3>2 DEF MemoryInv
  <2>8. ApartBy(event, records)
    <3>1. \A d, e \in ToSet(records) : d.id = e.id => d = e
      BY <2>6, <2>7, RecordsAssumption DEF IsRecord
    <3>2. \A d \in ToSet(records) : d.id \in ToSet(Ids)
      BY <2>6, <2>7 DEF IsRecord, ToSet
    <3>3. \A p \in ToSet(event.priors) : p.kind # "accepted_debt" /\ p.id \notin ToSet(Ids)
      BY <2>1 DEF EventsBringNoDebts
    <3> QED
      BY <3>1, <3>2, <3>3 DEF ApartBy
  <2>9. \A d \in ToSet(records) : IsSequence(d.revisitIf) /\ d.revisitIf # <<>>
    BY <2>6 DEF IsRecord
  <2>10. \A d \in ToSet(records) : d.kind = "accepted_debt" => d.concern \in Concerns
    BY <2>6, RecordsAssumption DEF IsRecord
  <2>11. \A d \in ToSet(records) \cup ToSet(event.priors) : IsSequence(d.revisitIf)
    BY <2>5, <2>9
  <2>12. ([concern |-> concern, status |-> "reopened"] \in ArchitectureDebt(baseline, records))
           <=> \E a \in ToSet(CheckRevisit(event, records, telemetry, baseline)) :
                 a.reopened /\ a.concern = concern
    BY <2>1, <2>2, <2>4, <2>5, <2>8, <2>9, <2>10, <2>11, ReopenedIsRaised
  <2>13. (\E a \in ToSet(result.alerts) : a.reopened /\ a.concern = concern)
           <=> \E i \in DOMAIN result.alerts :
                 result.alerts[i].reopened /\ result.alerts[i].concern = concern
    BY DEF ToSet
  <2> QED
    BY <2>1, <2>3, <2>12, <2>13
<1> QED
  BY <1>1, SessionInvAlways, MemoryInvAlways, PTL

-----------------------------------------------------------------------------
(***************************************************************************)
(* The facts of a baseline are those of its matches, and the matches are   *)
(* made of the present evidence.                                           *)
(***************************************************************************)
FactsFrom(matches) == {FactOf(DraftOf(matches, m.concern), m.concern) : m \in ToSet(matches)}

\* Every match has its concern in the baseline.
LEMMA OrderCovers ==
  ASSUME NEW items, NEW matches, IsSequence(matches), NEW m \in ToSet(matches),
         \A x \in ToSet(matches) : x.concern \in Concerns
  PROVE  m.concern \in ToSet(BaselineConcernOrder(items, matches))
<1> DEFINE I == {i \in DOMAIN matches :
                   ~\E j \in 1..(i - 1) : matches[j].concern = matches[i].concern}
           S == {i \in DOMAIN matches : matches[i].concern = m.concern}
           f == [i \in S |-> i]
           opening == AtPlaces(matches, I)
           known == [i \in DOMAIN opening |-> opening[i].concern]
           unknown == {c \in Concerns \ (ToSet(known) \cup {"unknown"}) :
                         c \in AlwaysTracked \/ items = <<>>}
           K == {k \in DOMAIN ConcernOrder : ConcernOrder[k] \in unknown}
           rest == AtPlaces(ConcernOrder, K)
<1>1. DOMAIN matches = 1..Len(matches) /\ Len(matches) \in Nat
  BY DomainOfSequence
<1>2. \E i \in I : matches[i].concern = m.concern
  <2>1. S # {}
    BY DEF ToSet
  <2>2. f \in [S -> Nat]
    BY <1>1
  <2>3. PICK i \in S : \A j \in S : f[i] <= f[j]
    BY <2>1, <2>2, LeastRank
  <2>4. \A j \in S : i <= j
    BY <2>3
  <2>5. ASSUME NEW j \in 1..(i - 1), matches[j].concern = matches[i].concern PROVE FALSE
    <3>1. j \in DOMAIN matches /\ j < i
      BY <1>1
    <3>2. j \in S
      BY <2>5, <3>1
    <3> QED
      BY <1>1, <2>4, <3>1, <3>2
  <2> QED
    BY <2>5
<1>3. IsSequence(opening) /\ ToSet(opening) = {matches[i] : i \in I}
  BY FilteredSequence
<1>4. PICK n \in DOMAIN opening : opening[n].concern = m.concern
  <2>1. \E x \in ToSet(opening) : x.concern = m.concern
    BY <1>2, <1>3
  <2> HIDE DEF opening
  <2> QED
    BY <2>1 DEF ToSet
<1>5. BaselineConcernOrder(items, matches) = known \o rest
  BY DEF BaselineConcernOrder
<1>6. IsSequence(rest)
  BY FilteredSequence, ConcernOrderIsOfConcerns
<1> HIDE DEF rest, opening
<1>7. DOMAIN opening = 1..Len(opening) /\ Len(opening) \in Nat
  BY <1>3, DomainOfSequence
<1>8. IsSequence(known) /\ ToSet(known) = {known[i] : i \in 1..Len(opening)}
  BY <1>7, Tabulated
<1>9. m.concern \in ToSet(known)
  BY <1>4, <1>7, <1>8
<1> HIDE DEF known
<1>10. ToSet(known \o rest) = ToSet(known) \cup ToSet(rest)
  BY <1>6, <1>8, Concatenated
<1> QED
  BY <1>5, <1>9, <1>10

\* So the facts of a baseline are the facts of its matches,
LEMMA FactsOfBaseline ==
  ASSUME NEW evidence, IsSequence(evidence), NEW event, NEW decisions, IsSequence(decisions)
  PROVE  Facts(BaselineOf(evidence, event, decisions))
           = FactsFrom(Matches(evidence, event, decisions))
<1> DEFINE matches == Matches(evidence, event, decisions)
           order == BaselineConcernOrder(evidence, matches)
           baseline == [i \in DOMAIN order |-> ConcernOf(order[i], matches, decisions)]
           Of(c) == IF DraftOf(matches, c) = <<>> THEN {} ELSE {FactOf(DraftOf(matches, c), c)}
<1>1. BaselineOf(evidence, event, decisions) = baseline
  BY DEF BaselineOf
<1>2. /\ IsSequence(matches)
      /\ \A m \in ToSet(matches) : m.concern \in Concerns
  BY MatchesAreGrounded DEF Grounded
<1> HIDE DEF matches
<1>3. \A m \in ToSet(matches) : m.concern \in ToSet(order)
  BY <1>2, OrderCovers
<1> HIDE DEF order
<1>4. \A i \in DOMAIN order : baseline[i].facts = Of(order[i])
  BY DEF ConcernOf, ConcernDraft
<1>5. Facts(baseline) = UNION {Of(order[i]) : i \in DOMAIN order}
  <2>1. DOMAIN baseline = DOMAIN order
    OBVIOUS
  <2> HIDE DEF baseline, Of
  <2> QED
    BY <1>4, <2>1 DEF Facts
<1>6. ASSUME NEW c
      PROVE  DraftOf(matches, c) # <<>> <=> \E m \in ToSet(matches) : m.concern = c
  <2> DEFINE I == {i \in DOMAIN matches : matches[i].concern = c}
             draft == DraftOf(matches, c)
  <2>1. draft = AtPlaces(matches, I)
    BY DEF DraftOf
  <2>2. IsSequence(draft) /\ ToSet(draft) = {matches[i] : i \in I}
    <3> HIDE DEF draft
    <3> QED
      BY <1>2, <2>1, FilteredSequence
  <2>3. ToSet(draft) # {} <=> \E m \in ToSet(matches) : m.concern = c
    <3> HIDE DEF draft
    <3> QED
      BY <2>2 DEF ToSet
  <2>4. draft = <<>> <=> ToSet(draft) = {}
    <3> DEFINE D == ToSet(draft)
    <3>1. draft \in Seq(D)
      BY <2>2 DEF IsSequence
    <3> HIDE DEF draft
    <3>2. draft # <<>> => 1 \in DOMAIN draft
      <4> HIDE DEF D
      <4> QED
        BY <3>1
    <3>3. 1 \in DOMAIN draft => D # {}
      BY DEF ToSet
    <3>4. draft = <<>> => D = {}
      BY EmptySequence
    <3> QED
      BY <3>2, <3>3, <3>4
  <2> HIDE DEF draft, I
  <2> QED
    BY <2>3, <2>4 DEF draft
<1>7. UNION {Of(order[i]) : i \in DOMAIN order} = UNION {Of(m.concern) : m \in ToSet(matches)}
  <2>1. ASSUME NEW i \in DOMAIN order, NEW f \in Of(order[i])
        PROVE  \E m \in ToSet(matches) : f \in Of(m.concern)
    <3>1. DraftOf(matches, order[i]) # <<>>
      BY <2>1
    <3>2. PICK m \in ToSet(matches) : m.concern = order[i]
      BY <1>6, <3>1
    <3> QED
      BY <2>1, <3>2
  <2>2. ASSUME NEW m \in ToSet(matches) PROVE \E i \in DOMAIN order : order[i] = m.concern
    BY <1>3 DEF ToSet
  <2> HIDE DEF Of
  <2> QED
    BY <2>1, <2>2
<1>8. \A m \in ToSet(matches) : Of(m.concern) = {FactOf(DraftOf(matches, m.concern), m.concern)}
  BY <1>6
<1>9. UNION {Of(m.concern) : m \in ToSet(matches)} = FactsFrom(matches)
  <2> HIDE DEF Of
  <2> QED
    BY <1>8 DEF FactsFrom
<1> QED
  BY <1>1, <1>5, <1>7, <1>9 DEF matches

\* and the same present evidence gives the same facts.
LEMMA FactsOfPresent ==
  ASSUME NEW e1, IsSequence(e1), NEW e2, IsSequence(e2), Present(e1) = Present(e2),
         NEW event, NEW decisions, IsSequence(decisions)
  PROVE  Facts(BaselineOf(e1, event, decisions)) = Facts(BaselineOf(e2, event, decisions))
<1>1. Matches(e1, event, decisions) = Matches(e2, event, decisions)
  BY DEF Matches, EvidenceMatches
<1> QED
  BY <1>1, FactsOfBaseline

-----------------------------------------------------------------------------
(***************************************************************************)
(* The evidence of some items and of the present ones among them.          *)
(***************************************************************************)
EventHead(event) ==
  <<LifecycleSignal(event)>> \o RepositorySignals(event) \o ChangeSignals(event)
    \o TestSignals(event.testStatus)
    \o [i \in 1..Len(event.priors) |-> MemorySignal(event.priors[i], i)]

\* What the event says of itself comes before the items.
LEMMA HeadIsSequence ==
  ASSUME NEW event, IsSequence(event.priors)
  PROVE  IsSequence(EventHead(event))
<1> DEFINE memory == [i \in 1..Len(event.priors) |-> MemorySignal(event.priors[i], i)]
           a == <<LifecycleSignal(event)>>
           b == RepositorySignals(event)
           c == ChangeSignals(event)
           d == TestSignals(event.testStatus)
<1>1. IsSequence(a)
  BY OneElement
<1>2. IsSequence(b)
  BY OneElement, EmptySequence DEF RepositorySignals
<1>3. IsSequence(c)
  BY OneElement, EmptySequence DEF ChangeSignals
<1>4. IsSequence(d)
  BY OneElement, EmptySequence DEF TestSignals
<1>5. IsSequence(memory)
  BY DomainOfSequence, Tabulated
<1>6. EventHead(event) = a \o b \o c \o d \o memory
  BY DEF EventHead
<1> HIDE DEF a, b, c, d, memory
<1>7. \A s, t : IsSequence(s) /\ IsSequence(t) => IsSequence(s \o t)
  BY Concatenated
<1> QED
  BY <1>1, <1>2, <1>3, <1>4, <1>5, <1>6, <1>7

SignalFun(S) == [x \in S |-> SignalOf(x)]
ItemFun(U) == [s \in U |-> ItemOf(s)]
OfFamily(U, name) == {s \in U : s.family = name}
Families(U, z) ==
  Keep(z, OfFamily(U, "repository")) \o Keep(z, OfFamily(U, "change"))
    \o Keep(z, OfFamily(U, "test")) \o Keep(z, OfFamily(U, "runtime"))
    \o Keep(z, OfFamily(U, "memory"))

Kept2(s, t, z, V) == z = s \o t => Keep(z, V) = Keep(s, V) \o Keep(t, V)

\* (KeepConcat again, of a sequence that is named.)
LEMMA KeepOfTwo ==
  ASSUME NEW U, NEW s \in Seq(U), NEW t \in Seq(U), NEW z, NEW V
  PROVE  Kept2(s, t, z, V)
<1> SUFFICES ASSUME z = s \o t PROVE Keep(z, V) = Keep(s, V) \o Keep(t, V)
  BY DEF Kept2
<1>1. Keep(s \o t, V) = Keep(s, V) \o Keep(t, V)
  BY KeepConcat
<1> QED
  BY <1>1

\* A filter of five sequences put together.
KeptFive(r, c, t, u, m, V) ==
  Keep(r \o c \o t \o u \o m, V)
    = Keep(r, V) \o Keep(c, V) \o Keep(t, V) \o Keep(u, V) \o Keep(m, V)

LEMMA KeepOfFive ==
  ASSUME NEW U, NEW r \in Seq(U), NEW c \in Seq(U), NEW t \in Seq(U), NEW u \in Seq(U),
         NEW m \in Seq(U), NEW V
  PROVE  KeptFive(r, c, t, u, m, V)
<1>1. /\ r \o c \in Seq(U)
      /\ r \o c \o t \in Seq(U)
      /\ r \o c \o t \o u \in Seq(U)
  OBVIOUS
<1>2. ASSUME NEW s \in Seq(U), NEW x \in Seq(U), NEW z
      PROVE  Kept2(s, x, z, V)
  BY KeepOfTwo
<1>3. Keep(r \o c, V) = Keep(r, V) \o Keep(c, V)
  BY <1>2, Zenon DEF Kept2
<1>4. Keep(r \o c \o t, V) = Keep(r \o c, V) \o Keep(t, V)
  BY <1>1, <1>2, Zenon DEF Kept2
<1>5. Keep(r \o c \o t \o u, V) = Keep(r \o c \o t, V) \o Keep(u, V)
  BY <1>1, <1>2, Zenon DEF Kept2
<1>6. Keep(r \o c \o t \o u \o m, V) = Keep(r \o c \o t \o u, V) \o Keep(m, V)
  BY <1>1, <1>2, Zenon DEF Kept2
<1> QED
  BY <1>3, <1>4, <1>5, <1>6 DEF KeptFive

\* Nothing is lost of the families when what is not in V is left out first.
LEMMA KeepOfFamilies ==
  ASSUME NEW U, NEW z \in Seq(U), NEW V
  PROVE  /\ Families(U, z) \in Seq(U)
         /\ Keep(Families(U, z), V) = Families(U, Keep(z, V))
<1> DEFINE Of(name) == Keep(z, OfFamily(U, name))
           Left(name) == Keep(Keep(z, V), OfFamily(U, name))
<1>1. ASSUME NEW name PROVE Of(name) \in Seq(U) /\ Keep(Of(name), V) = Left(name)
  <2> DEFINE W == OfFamily(U, name)
  <2> HIDE DEF W
  <2>1. Keep(z, W) \in Seq(U)
    BY KeepType
  <2>2. Keep(Keep(z, W), V) = Keep(z, W \cap V)
    BY KeepTwice
  <2>3. Keep(Keep(z, V), W) = Keep(z, V \cap W)
    BY KeepTwice
  <2>4. W \cap V = V \cap W
    OBVIOUS
  <2> QED
    BY <2>1, <2>2, <2>3, <2>4 DEF W
<1> DEFINE r == Of("repository")
           c == Of("change")
           t == Of("test")
           u == Of("runtime")
           m == Of("memory")
<1>2. Families(U, z) = r \o c \o t \o u \o m
  BY DEF Families
<1>3. /\ r \in Seq(U) /\ c \in Seq(U) /\ t \in Seq(U) /\ u \in Seq(U) /\ m \in Seq(U)
  BY <1>1
<1>4. /\ Keep(r, V) = Left("repository") /\ Keep(c, V) = Left("change")
      /\ Keep(t, V) = Left("test") /\ Keep(u, V) = Left("runtime") /\ Keep(m, V) = Left("memory")
  BY <1>1
<1>5. Families(U, Keep(z, V))
        = Left("repository") \o Left("change") \o Left("test") \o Left("runtime") \o Left("memory")
  BY DEF Families
<1> HIDE DEF r, c, t, u, m, Left, Of
<1>6. r \o c \in Seq(U) /\ r \o c \o t \in Seq(U) /\ r \o c \o t \o u \in Seq(U) /\ r \o c \o t \o u \o m \in Seq(U)
  BY <1>3
<1>7. KeptFive(r, c, t, u, m, V)
  BY <1>3, KeepOfFive
<1> QED
  BY <1>2, <1>4, <1>5, <1>6, <1>7 DEF KeptFive

\* The evidence read back is the items of the five families of signals.
LEMMA EvidenceIs ==
  ASSUME NEW U, NEW bundle, bundle.signals \in Seq(U)
  PROVE  EvidenceFromTelemetry(bundle) = Map(ItemFun(U), Families(U, bundle.signals))
<1> DEFINE z == bundle.signals
           all == Families(U, z)
<1>1. ASSUME NEW name PROVE FamilyOf(bundle, name) = Keep(z, OfFamily(U, name))
  <2> DEFINE I == {i \in DOMAIN z : z[i].family = name}
             J == {i \in DOMAIN z : z[i] \in OfFamily(U, name)}
  <2>1. \A i \in DOMAIN z : z[i] \in U
    OBVIOUS
  <2>2. I = J
    <3> HIDE DEF z
    <3> QED
      BY <2>1 DEF OfFamily
  <2>3. FamilyOf(bundle, name) = AtPlaces(z, I)
    BY DEF FamilyOf
  <2>4. Keep(z, OfFamily(U, name)) = AtPlaces(z, J)
    BY DEF Keep
  <2> HIDE DEF I, J, z
  <2> QED
    BY <2>2, <2>3, <2>4
<1> HIDE DEF z
<1>2. FamilyOf(bundle, "repository") \o FamilyOf(bundle, "change") \o FamilyOf(bundle, "test")
        \o FamilyOf(bundle, "runtime") \o FamilyOf(bundle, "memory") = all
  BY <1>1 DEF Families
<1>3. EvidenceFromTelemetry(bundle) = [i \in 1..Len(all) |-> ItemOf(all[i])]
  BY <1>2 DEF EvidenceFromTelemetry
<1>4. all \in Seq(U)
  <2>1. z \in Seq(U)
    BY DEF z
  <2> QED
    BY <2>1, KeepOfFamilies
<1> HIDE DEF all
<1>5. \A i \in 1..Len(all) : ItemFun(U)[all[i]] = ItemOf(all[i])
  <2>1. \A i \in 1..Len(all) : all[i] \in U
    BY <1>4
  <2> QED
    BY <2>1 DEF ItemFun
<1>6. Map(ItemFun(U), all) = [i \in 1..Len(all) |-> ItemFun(U)[all[i]]]
  BY DEF Map
<1> QED
  BY <1>3, <1>5, <1>6 DEF all, z

PresentOf(U) == {s \in U : s.status = "present"}

\* What is present of it is the items of the signals that are present.
LEMMA PresentEvidence ==
  ASSUME NEW U, NEW bundle, bundle.signals \in Seq(U)
  PROVE  Present(EvidenceFromTelemetry(bundle))
           = Map(ItemFun(U), Families(U, Keep(bundle.signals, PresentOf(U))))
<1> DEFINE z == bundle.signals
           all == Families(U, z)
           g == ItemFun(U)
           R == {ItemOf(s) : s \in U}
           V == {e \in R : e.status = "present"}
           evidence == EvidenceFromTelemetry(bundle)
<1>1. evidence = Map(g, all)
  BY EvidenceIs
<1>2. g \in [U -> R]
  BY DEF ItemFun
<1>3. all \in Seq(U) /\ Keep(all, PresentOf(U)) = Families(U, Keep(z, PresentOf(U)))
  BY KeepOfFamilies
<1>4. \A s \in U : s \in PresentOf(U) <=> g[s] \in V
  BY DEF ItemFun, PresentOf, ItemOf
<1> HIDE DEF all, g, V, R, evidence
<1>5. evidence \in Seq(R)
  BY <1>1, <1>2, <1>3, MapType
<1>6. Present(evidence) = Keep(evidence, V)
  <2>1. \A i \in DOMAIN evidence : evidence[i] \in R
    BY <1>5
  <2>2. {i \in DOMAIN evidence : evidence[i].status = "present"}
          = {i \in DOMAIN evidence : evidence[i] \in V}
    BY <2>1 DEF V
  <2> QED
    BY <2>2 DEF Present, Keep
<1>7. MapKept(U, R, g, all, V, PresentOf(U))
  BY <1>2, <1>3, <1>4, KeepOfMap
<1> QED
  BY <1>1, <1>3, <1>6, <1>7 DEF MapKept, evidence, g, z

\* The present ones among some items, as the property takes them.
PresentItems(items) == AtPlaces(items, {i \in DOMAIN items : items[i].status = "present"})

\* They are kept as Keep does.
LEMMA PresentItemsAre ==
  ASSUME NEW S, NEW items \in Seq(S)
  PROVE  /\ PresentItems(items) = Keep(items, PresentOf(S))
         /\ PresentItems(items) \in Seq(S)
<1>1. \A i \in DOMAIN items : items[i] \in S
  OBVIOUS
<1>2. {i \in DOMAIN items : items[i].status = "present"}
        = {i \in DOMAIN items : items[i] \in PresentOf(S)}
  BY <1>1 DEF PresentOf
<1>3. PresentItems(items) = Keep(items, PresentOf(S))
  BY <1>2 DEF PresentItems, Keep
<1>4. Keep(items, PresentOf(S)) \in Seq(S)
  BY KeepType
<1> QED
  BY <1>3, <1>4

\* The signals of an event are its own and those of the items.
LEMMA SignalsAre ==
  ASSUME NEW event, IsSequence(event.priors), NEW S, NEW items \in Seq(S)
  PROVE  TelemetryOf(event, items).signals = EventHead(event) \o Map(SignalFun(S), items)
<1> DEFINE memory == [i \in 1..Len(event.priors) |-> MemorySignal(event.priors[i], i)]
           sig == Map(SignalFun(S), items)
<1>1. \A i \in 1..Len(items) : items[i] \in S
  OBVIOUS
<1>2. TelemetryFromEvidence(items).signals = [i \in 1..Len(items) |-> SignalOf(items[i])]
  BY DEF TelemetryFromEvidence
<1>3. \A i \in 1..Len(items) : SignalFun(S)[items[i]] = SignalOf(items[i])
  BY <1>1 DEF SignalFun
<1>4. sig = [i \in 1..Len(items) |-> SignalFun(S)[items[i]]]
  BY DEF Map
<1>5. TelemetryFromEvidence(items).signals = sig
  BY <1>2, <1>3, <1>4
<1>6. TelemetryOf(event, items).signals
        = <<LifecycleSignal(event)>> \o RepositorySignals(event) \o ChangeSignals(event)
            \o TestSignals(event.testStatus) \o memory
            \o TelemetryFromEvidence(items).signals
  BY DEF TelemetryOf, TelemetryFromEvent
<1> HIDE DEF memory, sig
<1> QED
  BY <1>5, <1>6 DEF EventHead, memory, sig

\* The present ones are its own and those of the present items.
LEMMA PresentSignals ==
  ASSUME NEW event, IsSequence(event.priors), NEW S, NEW items \in Seq(S),
         NEW U, EventHead(event) \in Seq(U), \A x \in S : SignalOf(x) \in U
  PROVE  /\ TelemetryOf(event, items).signals \in Seq(U)
         /\ Keep(TelemetryOf(event, items).signals, PresentOf(U))
              = Keep(EventHead(event), PresentOf(U))
                  \o Map(SignalFun(S), Keep(items, PresentOf(S)))
<1> DEFINE g == SignalFun(S)
           m == Map(g, items)
           head == EventHead(event)
           V == PresentOf(U)
<1>1. g \in [S -> U]
  BY DEF SignalFun
<1>2. \A x \in S : x \in PresentOf(S) <=> g[x] \in V
  <2>1. \A x \in S : SignalOf(x).status = "present" <=> x.status = "present"
    BY DEF SignalOf, ReadStatus
  <2>2. \A x \in S : g[x] = SignalOf(x)
    BY DEF SignalFun
  <2> HIDE DEF g
  <2> QED
    BY <2>1, <2>2 DEF PresentOf
<1>3. TelemetryOf(event, items).signals = head \o m
  BY SignalsAre
<1> HIDE DEF g, V, head
<1>4. m \in Seq(U)
  BY <1>1, MapType
<1>5. head \in Seq(U)
  BY DEF head
<1>6. Keep(m, V) = Map(g, Keep(items, PresentOf(S)))
  <2>1. MapKept(S, U, g, items, V, PresentOf(S))
    BY <1>1, <1>2, KeepOfMap
  <2> QED
    BY <2>1 DEF MapKept
<1> HIDE DEF m
<1>7. Kept2(head, m, head \o m, V)
  BY <1>4, <1>5, KeepOfTwo
<1>8. head \o m \in Seq(U)
  BY <1>4, <1>5
<1> QED
  BY <1>3, <1>6, <1>7, <1>8 DEF Kept2, head, g, V

\* The present items give the same present evidence as all of them.
LEMMA PresentItemsSuffice ==
  ASSUME NEW event \in Events, NEW items, IsSequence(items)
  PROVE  /\ IsSequence(PresentItems(items))
         /\ Present(EvidenceOf(event, items)) = Present(EvidenceOf(event, PresentItems(items)))
<1> DEFINE S == ToSet(items)
           U == ToSet(EventHead(event)) \cup {SignalOf(x) : x \in S}
           some == PresentItems(items)
           P == PresentOf(S)
           head == EventHead(event)
<1>1. items \in Seq(S)
  BY DEF IsSequence
<1>2. IsSequence(event.priors)
  BY EventsAssumption DEF IsSequence
<1>3. head \in Seq(U)
  <2>1. head \in Seq(ToSet(head))
    BY <1>2, HeadIsSequence DEF IsSequence
  <2>2. ToSet(head) \subseteq U
    OBVIOUS
  <2> HIDE DEF head, U
  <2> QED
    BY <2>1, <2>2
<1>4. \A x \in S : SignalOf(x) \in U
  OBVIOUS
<1> HIDE DEF S, U
<1>5. some = Keep(items, P) /\ some \in Seq(S)
  BY <1>1, PresentItemsAre
<1>6. Keep(some, P) = some
  <2>1. Keep(Keep(items, P), P) = Keep(items, P \cap P)
    BY <1>1, KeepTwice
  <2>2. P \cap P = P
    OBVIOUS
  <2> QED
    BY <1>5, <2>1, <2>2
<1> DEFINE t1 == TelemetryOf(event, items)
           t2 == TelemetryOf(event, some)
<1>7. /\ t1.signals \in Seq(U)
      /\ Keep(t1.signals, PresentOf(U)) = Keep(head, PresentOf(U)) \o Map(SignalFun(S), Keep(items, P))
  BY <1>1, <1>2, <1>3, <1>4, PresentSignals
<1> HIDE DEF some
<1>8. /\ t2.signals \in Seq(U)
      /\ Keep(t2.signals, PresentOf(U)) = Keep(head, PresentOf(U)) \o Map(SignalFun(S), Keep(some, P))
  BY <1>2, <1>3, <1>4, <1>5, PresentSignals
<1> HIDE DEF t1, t2, P, head
<1>9. Keep(t1.signals, PresentOf(U)) = Keep(t2.signals, PresentOf(U))
  BY <1>5, <1>6, <1>7, <1>8
<1>10. Present(EvidenceFromTelemetry(t1))
         = Map(ItemFun(U), Families(U, Keep(t1.signals, PresentOf(U))))
  BY <1>7, PresentEvidence
<1>11. Present(EvidenceFromTelemetry(t2))
         = Map(ItemFun(U), Families(U, Keep(t2.signals, PresentOf(U))))
  BY <1>8, PresentEvidence
<1>12. IsSequence(some)
  <2>1. IsSequence(AtPlaces(items, {i \in DOMAIN items : items[i].status = "present"}))
    BY FilteredSequence
  <2> QED
    BY <2>1 DEF some, PresentItems
<1> QED
  BY <1>9, <1>10, <1>11, <1>12 DEF EvidenceOf, t1, t2, some

\* The facts of the assessment in hand are those of the present items alone:
\* what a collector that failed or found nothing says establishes nothing, for
\* any events, any outcomes of the collectors and any memory (generateBaseline
\* leaves out what is not present before it matches a word).
THEOREM FactsRest == Spec => []FactsRestOnPresentEvidence
<1>1. SessionInv => FactsRestOnPresentEvidence
  <2> SUFFICES ASSUME SessionInv, Assessed PROVE FactsRestOnPresentEvidence
    BY DEF FactsRestOnPresentEvidence
  <2> DEFINE event == basis.event
             items == basis.items
             some == PresentItems(items)
             decisions == PriorDecisions(event, records)
  <2>1. InHand /\ IsSequence(records)
    BY DEF SessionInv, Assessed
  <2>2. event \in Events /\ IsSequence(items) /\ result = AssessmentOf(event, items, records)
    BY <2>1 DEF InHand
  <2>3. IsSequence(decisions)
    BY <2>1, <2>2, PriorDecisionsAre
  <2> HIDE DEF event, items
  <2>4. IsSequence(some) /\ Present(EvidenceOf(event, items)) = Present(EvidenceOf(event, some))
    BY <2>2, PresentItemsSuffice
  <2> HIDE DEF some, decisions
  <2>5. IsSequence(EvidenceOf(event, items)) /\ IsSequence(EvidenceOf(event, some))
    BY <2>2, <2>4, EvidenceOfItems
  <2>6. Facts(BaselineOf(EvidenceOf(event, items), event, decisions))
          = Facts(BaselineOf(EvidenceOf(event, some), event, decisions))
    BY <2>3, <2>4, <2>5, FactsOfPresent
  <2>7. result.baseline = BaselineOf(EvidenceOf(event, items), event, decisions)
    BY <2>2, AssessmentParts DEF decisions
  <2>8. AssessmentOf(event, some, records).baseline
          = BaselineOf(EvidenceOf(event, some), event, decisions)
    BY AssessmentParts DEF decisions
  <2> QED
    BY <2>6, <2>7, <2>8 DEF FactsRestOnPresentEvidence, PresentItems, some, items, event
<1> QED
  BY <1>1, SessionInvAlways, PTL

-----------------------------------------------------------------------------
(***************************************************************************)
(* What a baseline says of a concern does not depend on the order in which *)
(* the collectors have brought their items, up to the text it quotes.      *)
(***************************************************************************)

\* The families of rearranged signals are rearranged.
RearrangedFamilies(U, y, z) == Rearranged(Families(U, y), Families(U, z))

LEMMA FamiliesRearranged ==
  ASSUME NEW U, NEW y \in Seq(U), NEW z \in Seq(U), Rearranged(y, z)
  PROVE  RearrangedFamilies(U, y, z)
<1> DEFINE Y(name) == Keep(y, OfFamily(U, name))
           Z(name) == Keep(z, OfFamily(U, name))
<1>1. ASSUME NEW name PROVE Y(name) \in Seq(U) /\ Z(name) \in Seq(U) /\ Rearranged(Y(name), Z(name))
  BY KeepType, RearrangedKeep
<1>2. ASSUME NEW a \in Seq(U), NEW b \in Seq(U), NEW c \in Seq(U), NEW d \in Seq(U),
             Rearranged(a, b), Rearranged(c, d)
      PROVE  a \o c \in Seq(U) /\ b \o d \in Seq(U) /\ Rearranged(a \o c, b \o d)
  <2>1. RearrangedOfConcat(a, b, c, d)
    BY <1>2, RearrangedConcat
  <2> QED
    BY <2>1 DEF RearrangedOfConcat
<1> DEFINE y2 == Y("repository") \o Y("change")
           z2 == Z("repository") \o Z("change")
           y3 == y2 \o Y("test")
           z3 == z2 \o Z("test")
           y4 == y3 \o Y("runtime")
           z4 == z3 \o Z("runtime")
<1>3. Families(U, y) = y4 \o Y("memory") /\ Families(U, z) = z4 \o Z("memory")
  BY DEF Families
<1> HIDE DEF Y, Z
<1>4. y2 \in Seq(U) /\ z2 \in Seq(U) /\ Rearranged(y2, z2)
  BY <1>1, <1>2
<1> HIDE DEF y2, z2
<1>5. y3 \in Seq(U) /\ z3 \in Seq(U) /\ Rearranged(y3, z3)
  BY <1>1, <1>2, <1>4
<1> HIDE DEF y3, z3
<1>6. y4 \in Seq(U) /\ z4 \in Seq(U) /\ Rearranged(y4, z4)
  BY <1>1, <1>2, <1>5
<1> HIDE DEF y4, z4
<1>7. Rearranged(y4 \o Y("memory"), z4 \o Z("memory"))
  BY <1>1, <1>2, <1>6
<1> QED
  BY <1>3, <1>7 DEF RearrangedFamilies

\* Items in another order give the same evidence in another order.
LEMMA EvidenceRearranged ==
  ASSUME NEW event \in Events, NEW items, IsSequence(items),
         NEW other, IsSequence(other), Rearranged(items, other)
  PROVE  Rearranged(EvidenceOf(event, items), EvidenceOf(event, other))
<1> DEFINE S == ToSet(items)
           head == EventHead(event)
           U == ToSet(head) \cup {SignalOf(x) : x \in S}
           R == {ItemOf(s) : s \in U}
           g == SignalFun(S)
           k == ItemFun(U)
<1>1. items \in Seq(S) /\ other \in Seq(S)
  <2>1. items \in Seq(ToSet(items)) /\ other \in Seq(ToSet(other))
    BY DEF IsSequence
  <2>2. ToSet(items) = ToSet(other)
    <3> DEFINE A == ToSet(items)
               B == ToSet(other)
    <3>1. items \in Seq(A) /\ other \in Seq(B)
      BY <2>1
    <3> HIDE DEF A, B
    <3> QED
      BY <3>1, RearrangedElements
  <2> QED
    BY <2>1, <2>2
<1>2. IsSequence(event.priors)
  BY EventsAssumption DEF IsSequence
<1>3. head \in Seq(U)
  <2>1. head \in Seq(ToSet(head))
    BY <1>2, HeadIsSequence DEF IsSequence
  <2>2. ToSet(head) \subseteq U
    OBVIOUS
  <2> HIDE DEF head, U
  <2> QED
    BY <2>1, <2>2
<1>4. g \in [S -> U] /\ k \in [U -> R]
  BY DEF SignalFun, ItemFun
<1> HIDE DEF S, U, R, head
<1> DEFINE m1 == Map(g, items)
           m2 == Map(g, other)
           t1 == TelemetryOf(event, items)
           t2 == TelemetryOf(event, other)
<1>5. t1.signals = head \o m1 /\ t2.signals = head \o m2
  BY <1>1, <1>2, SignalsAre DEF head
<1> HIDE DEF g, k, t1, t2
<1>6. m1 \in Seq(U) /\ m2 \in Seq(U)
  BY <1>1, <1>4, MapType
<1>7. Rearranged(m1, m2)
  <2>1. RearrangedImages(S, U, g, items, other)
    BY <1>1, <1>4, RearrangedMap
  <2> QED
    BY <2>1 DEF RearrangedImages
<1> HIDE DEF m1, m2
<1>8. t1.signals \in Seq(U) /\ t2.signals \in Seq(U) /\ Rearranged(t1.signals, t2.signals)
  <2>1. Rearranged(head, head)
    BY RearrangedSame
  <2>2. RearrangedOfConcat(head, head, m1, m2)
    BY <1>3, <1>6, <1>7, <2>1, RearrangedConcat
  <2>3. head \o m1 \in Seq(U) /\ head \o m2 \in Seq(U)
    BY <1>3, <1>6
  <2> QED
    BY <1>5, <2>2, <2>3 DEF RearrangedOfConcat
<1> DEFINE f1 == Families(U, t1.signals)
           f2 == Families(U, t2.signals)
<1>9. EvidenceOf(event, items) = Map(k, f1) /\ EvidenceOf(event, other) = Map(k, f2)
  BY <1>8, EvidenceIs DEF EvidenceOf, t1, t2, k
<1>10. f1 \in Seq(U) /\ f2 \in Seq(U) /\ Rearranged(f1, f2)
  <2>1. f1 \in Seq(U) /\ f2 \in Seq(U)
    BY <1>8, KeepOfFamilies
  <2>2. RearrangedFamilies(U, t1.signals, t2.signals)
    BY <1>8, FamiliesRearranged
  <2> QED
    BY <2>1, <2>2 DEF RearrangedFamilies
<1> HIDE DEF f1, f2
<1>11. RearrangedImages(U, R, k, f1, f2)
  BY <1>4, <1>10, RearrangedMap
<1> QED
  BY <1>9, <1>11 DEF RearrangedImages

\* The same evidence in another order gives the same matches in another order.
LEMMA EvidenceMatchesRearranged ==
  ASSUME NEW e1, IsSequence(e1), NEW e2, IsSequence(e2), Rearranged(e1, e2),
         NEW event, NEW decisions, IsSequence(decisions)
  PROVE  LET a == EvidenceMatches(e1, event, decisions)
             b == EvidenceMatches(e2, event, decisions)
         IN IsSequence(a) /\ IsSequence(b) /\ Rearranged(a, b)
<1> DEFINE E == ToSet(e1)
           P == PresentOf(E)
           h == [x \in P |-> ClassifyEvidence(x, event, decisions)]
           M == UNION {ToSet(h[x]) : x \in P}
           p1 == Present(e1)
           p2 == Present(e2)
<1>1. e1 \in Seq(E) /\ e2 \in Seq(E)
  <2>1. e1 \in Seq(ToSet(e1)) /\ e2 \in Seq(ToSet(e2))
    BY DEF IsSequence
  <2>2. ToSet(e1) = ToSet(e2)
    <3> DEFINE A == ToSet(e1)
               B == ToSet(e2)
    <3>1. e1 \in Seq(A) /\ e2 \in Seq(B)
      BY <2>1
    <3> HIDE DEF A, B
    <3> QED
      BY <3>1, RearrangedElements
  <2> QED
    BY <2>1, <2>2
<1>2. \A x \in P : h[x] \in Seq(M)
  <2>1. ASSUME NEW x \in P PROVE IsSequence(h[x])
    <3>1. x \in ToSet(e1) /\ x.status = "present"
      BY DEF PresentOf
    <3>2. IsSequence(ClassifyEvidence(x, event, decisions))
      BY <3>1, ClassifiedAreGrounded
    <3> QED
      BY <3>2
  <2>2. ASSUME NEW x \in P PROVE ToSet(h[x]) \subseteq M
    OBVIOUS
  <2> HIDE DEF h, M, P
  <2>3. ASSUME NEW x \in P PROVE h[x] \in Seq(M)
    <3>1. h[x] \in Seq(ToSet(h[x])) /\ ToSet(h[x]) \subseteq M
      BY <2>1, <2>2 DEF IsSequence
    <3>2. \A A, B : A \subseteq B => Seq(A) \subseteq Seq(B)
      OBVIOUS
    <3> QED
      BY <3>1, <3>2
  <2> QED
    BY <2>3
<1>3. h \in [P -> Seq(M)]
  <2>1. DOMAIN h = P
    OBVIOUS
  <2> HIDE DEF M
  <2> QED
    BY <1>2, <2>1
<1>4. /\ p1 = Keep(e1, P) /\ p2 = Keep(e2, P)
  BY <1>1, PresentItemsAre DEF Present, PresentItems
<1>5. p1 \in Seq(P) /\ p2 \in Seq(P)
  <2>1. ASSUME NEW e \in Seq(E) PROVE Keep(e, P) \in Seq(P)
    <3> DEFINE I == {i \in DOMAIN e : e[i] \in P}
    <3>1. IsSequence(e)
      <4> HIDE DEF E
      <4> QED
        BY SequencesAre
    <3>2. IsSequence(Keep(e, P)) /\ ToSet(Keep(e, P)) = {e[i] : i \in I}
      <4>1. I \subseteq DOMAIN e
        OBVIOUS
      <4> HIDE DEF I
      <4>2. IsSequence(AtPlaces(e, I)) /\ ToSet(AtPlaces(e, I)) = {e[i] : i \in I}
        BY <3>1, <4>1, FilteredSequence
      <4> QED
        BY <4>2 DEF Keep, I
    <3>3. ToSet(Keep(e, P)) \subseteq P
      BY <3>2
    <3> DEFINE z == Keep(e, P)
    <3> HIDE DEF z, P
    <3>4. z \in Seq(ToSet(z)) /\ ToSet(z) \subseteq P
      BY <3>2, <3>3 DEF z, IsSequence
    <3>5. z \in Seq(P)
      <4>1. \A A, B : A \subseteq B => Seq(A) \subseteq Seq(B)
        OBVIOUS
      <4> QED
        BY <3>4, <4>1
    <3> QED
      BY <3>5 DEF z
  <2> HIDE DEF p1, p2, P
  <2> QED
    BY <1>1, <1>4, <2>1
<1>6. Rearranged(p1, p2)
  <2> HIDE DEF P, p1, p2, E
  <2>1. Rearranged(Keep(e1, P), Keep(e2, P))
    BY <1>1, RearrangedKeep
  <2> QED
    BY <1>4, <2>1
<1>7. ASSUME NEW p \in Seq(P)
      PROVE  FlatMap(h, p)
               = FlattenSeq([i \in DOMAIN p |-> ClassifyEvidence(p[i], event, decisions)])
  <2>1. \A i \in 1..Len(p) : p[i] \in P
    OBVIOUS
  <2>2. DOMAIN p = 1..Len(p)
    OBVIOUS
  <2>3. Map(h, p) = [i \in DOMAIN p |-> ClassifyEvidence(p[i], event, decisions)]
    <3>1. \A i \in 1..Len(p) : h[p[i]] = ClassifyEvidence(p[i], event, decisions)
      BY <2>1
    <3> HIDE DEF h
    <3> QED
      BY <2>2, <3>1 DEF Map
  <2> QED
    BY <2>3 DEF FlatMap
<1> DEFINE c1 == FlatMap(h, p1)
           c2 == FlatMap(h, p2)
<1>8. EvidenceMatches(e1, event, decisions) = c1 /\ EvidenceMatches(e2, event, decisions) = c2
  <2> HIDE DEF h, P
  <2> QED
    BY <1>5, <1>7 DEF EvidenceMatches
<1> HIDE DEF P, h, M, p1, p2
<1>9. c1 \in Seq(M) /\ c2 \in Seq(M)
  BY <1>3, <1>5, FlatMapType
<1>10. Rearranged(c1, c2)
  <2>1. RearrangedArrays(P, M, h, p1, p2)
    BY <1>3, <1>5, <1>6, RearrangedFlatMap
  <2> QED
    BY <2>1 DEF RearrangedArrays
<1> HIDE DEF c1, c2
<1>11. IsSequence(c1) /\ IsSequence(c2)
  BY <1>9, SequencesAre
<1> QED
  BY <1>8, <1>10, <1>11

\* What comes after the matches of the evidence is the same for any order.
Afterwards(event, decisions) == ChangedFileSpread(event) \o PriorDecisionRevisits(event, decisions)

LEMMA MatchesSplit ==
  ASSUME NEW evidence, NEW event, NEW decisions, IsSequence(decisions),
         IsSequence(EvidenceMatches(evidence, event, decisions))
  PROVE  LET a == EvidenceMatches(evidence, event, decisions)
             z == Afterwards(event, decisions)
             m == Matches(evidence, event, decisions)
         IN m = a \o z /\ a \in Seq(ToSet(m)) /\ z \in Seq(ToSet(m))
<1> DEFINE spread == ChangedFileSpread(event)
           old == PriorDecisionRevisits(event, decisions)
           a == EvidenceMatches(evidence, event, decisions)
           z == spread \o old
<1>1. IsSequence(spread)
  BY OneElement, EmptySequence DEF ChangedFileSpread
<1>2. IsSequence(old)
  <2> DEFINE text == event.request \cup event.recentWords \cup ChangedWords(event)
             due == Due(decisions, text)
             Lines(i) == Quoting(MatchedCondition(due[i], text))
  <2>1. IsSequence(due)
    BY DueDecisions
  <2>2. old = [i \in DOMAIN due |-> RevisitMatch(due[i], DecisionRef(due[i]), Lines(i))]
    BY DEF PriorDecisionRevisits
  <2> HIDE DEF due, old, Lines
  <2>3. DOMAIN due = 1..Len(due) /\ Len(due) \in Nat
    BY <2>1, DomainOfSequence
  <2>4. old = [i \in 1..Len(due) |-> old[i]]
    BY <2>2, <2>3
  <2> QED
    BY <2>3, <2>4, Tabulated
<1>3. Matches(evidence, event, decisions) = a \o spread \o old
  BY DEF Matches
<1> HIDE DEF spread, old, a
<1>4. IsSequence(z) /\ IsSequence(a)
  BY <1>1, <1>2, Concatenated DEF a
<1>5. a \o spread \o old = a \o z
  <2> DEFINE N == ToSet(a) \cup ToSet(spread) \cup ToSet(old)
  <2>1. \A A, B : A \subseteq B => Seq(A) \subseteq Seq(B)
    OBVIOUS
  <2>2. ToSet(a) \subseteq N /\ ToSet(spread) \subseteq N /\ ToSet(old) \subseteq N
    OBVIOUS
  <2>3. a \in Seq(ToSet(a)) /\ spread \in Seq(ToSet(spread)) /\ old \in Seq(ToSet(old))
    BY <1>1, <1>2, <1>4 DEF IsSequence
  <2> HIDE DEF N
  <2>4. a \in Seq(N) /\ spread \in Seq(N) /\ old \in Seq(N)
    BY <2>1, <2>2, <2>3
  <2> QED
    BY <2>4
<1> HIDE DEF z
<1>6. a \in Seq(ToSet(a \o z)) /\ z \in Seq(ToSet(a \o z))
  <2>1. \A A, B : A \subseteq B => Seq(A) \subseteq Seq(B)
    OBVIOUS
  <2>2. ToSet(a \o z) = ToSet(a) \cup ToSet(z)
    BY <1>4, Concatenated
  <2>3. a \in Seq(ToSet(a)) /\ z \in Seq(ToSet(z))
    BY <1>4 DEF IsSequence
  <2> DEFINE A == ToSet(a)
             Z == ToSet(z)
             B == ToSet(a \o z)
  <2>4. A \subseteq B /\ Z \subseteq B /\ a \in Seq(A) /\ z \in Seq(Z)
    BY <2>2, <2>3
  <2> HIDE DEF A, Z, B
  <2>5. a \in Seq(B) /\ z \in Seq(B)
    BY <2>1, <2>4
  <2> QED
    BY <2>5 DEF B
<1> QED
  BY <1>3, <1>5, <1>6 DEF Afterwards, a, z, spread, old

\* Sources in another order make the same confidence and the same freshness.
LEMMA CombinedAlike ==
  ASSUME NEW S, NEW s \in Seq(S), NEW t \in Seq(S), Rearranged(s, t), NEW conflict
  PROVE  /\ CombineConfidence(s, conflict) = CombineConfidence(t, conflict)
         /\ CombineFreshness(s) = CombineFreshness(t)
<1>1. ToSet(s) = ToSet(t)
  BY RearrangedElements
<1>2. \A V : Cardinality({i \in DOMAIN s : s[i] \in V}) = Cardinality({i \in DOMAIN t : t[i] \in V})
  <2> TAKE V
  <2>1. HowMany(s, V) = Cardinality({i \in DOMAIN s : s[i] \in V})
    BY CountIs
  <2>2. HowMany(t, V) = Cardinality({i \in DOMAIN t : t[i] \in V})
    BY CountIs
  <2> QED
    BY <2>1, <2>2 DEF Rearranged
<1>3. CombineFreshness(s) = CombineFreshness(t)
  BY <1>1 DEF CombineFreshness
<1> DEFINE all == ToSet(s)
           strong == {x \in all : x.category \in StrongCategories}
           high == {x \in all : x.confidence = "high"}
           fresh == \A x \in strong : x.freshness # "stale"
           claimed == \E x \in strong : x.category = "architecture_claim"
           sure == {x \in all : x.confidence # "low"}
           Of(u, V) == Cardinality({i \in DOMAIN u : u[i] \in V})
           Combined(u) == IF all = {} \/ conflict THEN "low"
                          ELSE IF (Of(u, strong) >= 2 \/ claimed) /\ high # {} /\ fresh
                               THEN "high"
                          ELSE IF strong # {} \/ Of(u, sure) >= 2 THEN "medium"
                          ELSE "low"
<1>4. CombineConfidence(s, conflict) = Combined(s)
  BY DEF CombineConfidence
<1>5. CombineConfidence(t, conflict) = Combined(t)
  BY <1>1 DEF CombineConfidence
<1>6. Of(s, strong) = Of(t, strong) /\ Of(s, sure) = Of(t, sure)
  BY <1>2
<1> HIDE DEF strong, high, fresh, claimed, sure, Of, all
<1>7. Combined(s) = Combined(t)
  BY <1>6
<1> QED
  BY <1>3, <1>4, <1>5, <1>7

\* What tells the sources of a fact apart.
Keys(sources) == {<<s.source, s.category, s.status>> : s \in sources}

\* A fact keeps one source for each.
LEMMA UniqueKeys ==
  ASSUME NEW sources, IsSequence(sources)
  PROVE  /\ Keys(UniqueSources(sources)) = Keys(ToSet(sources))
         /\ IsFiniteSet(UniqueSources(sources))
         /\ Cardinality(UniqueSources(sources)) = Cardinality(Keys(ToSet(sources)))
<1> DEFINE Key(s) == <<s.source, s.category, s.status>>
           U == UniqueSources(sources)
           T == ToSet(sources)
           f == [s \in U |-> Key(s)]
           n == Len(sources)
<1>1. DOMAIN sources = 1..n /\ n \in Nat
  BY DomainOfSequence
<1>2. U \subseteq T
  BY UniqueSourcesAreSources
<1>3. ASSUME NEW s \in T PROVE \E x \in U : Key(x) = Key(s)
  <2> DEFINE I == {i \in DOMAIN sources : Key(sources[i]) = Key(s)}
             g == [i \in I |-> i]
  <2>1. I # {}
    BY DEF ToSet
  <2>2. g \in [I -> Nat]
    BY <1>1
  <2>3. PICK i \in I : \A j \in I : g[i] <= g[j]
    BY <2>1, <2>2, LeastRank
  <2>4. \A j \in I : i <= j
    BY <2>3
  <2>5. ASSUME NEW k \in 1..(i - 1), Key(sources[k]) = Key(sources[i]) PROVE FALSE
    <3>1. k \in DOMAIN sources /\ k < i
      BY <1>1
    <3>2. k \in I
      BY <2>5, <3>1
    <3> QED
      BY <1>1, <2>4, <3>1, <3>2
  <2>6. sources[i] \in U
    <3>1. ~\E k \in 1..(i - 1) :
             /\ sources[k].source = sources[i].source
             /\ sources[k].category = sources[i].category
             /\ sources[k].status = sources[i].status
      BY <2>5
    <3> QED
      BY <3>1 DEF UniqueSources
  <2> QED
    BY <2>6
<1>4. Keys(U) = Keys(T)
  <2> HIDE DEF U, T
  <2> QED
    BY <1>2, <1>3 DEF Keys
<1>5. \A s, t \in U : Key(s) = Key(t) => s = t
  BY UniqueSourcesDiffer
<1>6. IsFiniteSet(U)
  <2> DEFINE I == {j \in DOMAIN sources : ~\E k \in 1..(j - 1) :
                     /\ sources[k].source = sources[j].source
                     /\ sources[k].category = sources[j].category
                     /\ sources[k].status = sources[j].status}
             h == [i \in I |-> sources[i]]
  <2>1. ArePlaces(I, n)
    BY <1>1 DEF ArePlaces
  <2>2. U = {sources[i] : i \in I}
    BY DEF UniqueSources
  <2> HIDE DEF I, U
  <2>3. IsFiniteSet(I)
    BY <2>1, PlacesFinite
  <2>4. h \in Surjection(I, U)
    BY <2>2 DEF Surjection
  <2> QED
    BY <2>3, <2>4, FS_Surjection
<1> HIDE DEF U
<1>7. f \in Bijection(U, Keys(U))
  <2>1. f \in [U -> Keys(U)]
    BY DEF Keys
  <2>2. \A s, t \in U : f[s] = f[t] => s = t
    BY <1>5
  <2>3. \A k \in Keys(U) : \E s \in U : f[s] = k
    BY DEF Keys
  <2> QED
    BY <2>1, <2>2, <2>3 DEF Bijection, Injection, Surjection, IsInjective
<1>8. ExistsBijection(U, Keys(U))
  BY <1>7 DEF ExistsBijection
<1>9. Cardinality(Keys(U)) = Cardinality(U)
  BY <1>6, <1>8, FS_Bijection
<1> QED
  BY <1>4, <1>6, <1>9 DEF U, T

\* A reading that two facts share.
AlikeFacts(f, g) ==
  /\ f.concern = g.concern /\ f.confidence = g.confidence /\ f.freshness = g.freshness
  /\ Keys(f.sources) = Keys(g.sources)
  /\ Cardinality(f.sources) = Cardinality(g.sources)

\* The lines a draft has to quote.
LinesOf(draft) == FlattenSeq([i \in DOMAIN draft |-> draft[i].lines])

\* All that matches may add to a summary in any order: no more than three lines,
\* or the lines of one match.
Quotable(draft) == Len(LinesOf(draft)) <= 3 \/ Len(draft) <= 1

Lined(S) == \A m \in S : IsSequence(m.lines)

\* The first three of these lines.
Quoted(lines) == UNION {lines[i] : i \in DOMAIN lines \cap 1..3}

\* Matches in another order, before others, bring the same lines in another
\* order, before the same others.
SameLinesBefore(a, b, z, L) ==
  /\ LinesOf(a) \in Seq(L) /\ LinesOf(b) \in Seq(L) /\ LinesOf(z) \in Seq(L)
  /\ Rearranged(LinesOf(a), LinesOf(b))
  /\ LinesOf(a \o z) = LinesOf(a) \o LinesOf(z)
  /\ LinesOf(b \o z) = LinesOf(b) \o LinesOf(z)

LEMMA LinesAlike ==
  ASSUME NEW S, Lined(S), NEW a \in Seq(S), NEW b \in Seq(S), NEW z \in Seq(S),
         Rearranged(a, b)
  PROVE  \E L : SameLinesBefore(a, b, z, L)
<1> DEFINE h == [m \in S |-> m.lines]
           L == UNION {ToSet(h[m]) : m \in S}
<1>1. ASSUME NEW m \in S PROVE h[m] \in Seq(L)
  <2>1. h[m] \in Seq(ToSet(h[m])) /\ ToSet(h[m]) \subseteq L
    BY DEF Lined, IsSequence
  <2>2. \A A, B : A \subseteq B => Seq(A) \subseteq Seq(B)
    OBVIOUS
  <2> HIDE DEF h, L
  <2> QED
    BY <2>1, <2>2
<1>2. h \in [S -> Seq(L)]
  <2>1. DOMAIN h = S
    OBVIOUS
  <2> HIDE DEF L
  <2> QED
    BY <1>1, <2>1
<1>3. ASSUME NEW u \in Seq(S) PROVE LinesOf(u) = FlatMap(h, u)
  <2>1. \A i \in 1..Len(u) : u[i] \in S
    OBVIOUS
  <2>2. DOMAIN u = 1..Len(u)
    OBVIOUS
  <2>3. Map(h, u) = [i \in DOMAIN u |-> u[i].lines]
    <3>1. \A i \in 1..Len(u) : h[u[i]] = u[i].lines
      BY <2>1
    <3> HIDE DEF h
    <3> QED
      BY <2>2, <3>1 DEF Map
  <2> HIDE DEF h
  <2> QED
    BY <2>3 DEF FlatMap, LinesOf
<1> HIDE DEF h, L
<1>4. a \o z \in Seq(S) /\ b \o z \in Seq(S)
  OBVIOUS
<1> DEFINE both == a \o z
           other == b \o z
<1>5. /\ FlatMap(h, both) = FlatMap(h, a) \o FlatMap(h, z)
      /\ FlatMap(h, other) = FlatMap(h, b) \o FlatMap(h, z)
  <2>1. FlatMapConcatenated(S, L, h, a, z) /\ FlatMapConcatenated(S, L, h, b, z)
    BY <1>2, FlatMapConcat
  <2> QED
    BY <2>1 DEF FlatMapConcatenated
<1>6. LinesOf(both) = FlatMap(h, both) /\ LinesOf(other) = FlatMap(h, other)
  BY <1>3, <1>4
<1>7. /\ LinesOf(a) = FlatMap(h, a) /\ LinesOf(b) = FlatMap(h, b)
      /\ LinesOf(z) = FlatMap(h, z)
  BY <1>3
<1>8. FlatMap(h, a) \in Seq(L) /\ FlatMap(h, b) \in Seq(L) /\ FlatMap(h, z) \in Seq(L)
  BY <1>2, FlatMapType
<1>9. Rearranged(FlatMap(h, a), FlatMap(h, b))
  <2>1. RearrangedArrays(S, L, h, a, b)
    BY <1>2, RearrangedFlatMap
  <2> QED
    BY <2>1 DEF RearrangedArrays
<1> HIDE DEF both, other
<1>10. LinesOf(both) = LinesOf(a) \o LinesOf(z) /\ LinesOf(other) = LinesOf(b) \o LinesOf(z)
  BY <1>5, <1>6, <1>7
<1>11. SameLinesBefore(a, b, z, L)
  BY <1>7, <1>8, <1>9, <1>10 DEF SameLinesBefore, both, other
<1> QED
  BY <1>11

\* When all that they add is quoted, or they are one, so are the first three.
LEMMA QuotedAlike ==
  ASSUME NEW S, Lined(S), NEW a \in Seq(S), NEW b \in Seq(S), NEW z \in Seq(S),
         Rearranged(a, b), Quotable(a)
  PROVE  Quoted(LinesOf(a \o z)) = Quoted(LinesOf(b \o z))
<1>1. ToSet(a) = ToSet(b) /\ Len(a) = Len(b)
  BY RearrangedElements
<1>2. CASE Len(a) <= 1
  <2>1. Len(a) \in Nat /\ DOMAIN a = 1..Len(a) /\ DOMAIN b = 1..Len(b)
    OBVIOUS
  <2>2. CASE Len(a) = 0
    <3>1. \A s \in Seq(S) : Len(s) = 0 => s = <<>>
      OBVIOUS
    <3>2. a = <<>> /\ b = <<>>
      BY <1>1, <2>2, <3>1
    <3>3. a = b
      BY <3>2
    <3> QED
      BY <3>3
  <2>3. CASE Len(a) = 1
    <3>1. ToSet(a) = {a[1]} /\ ToSet(b) = {b[1]}
      BY <1>1, <2>1, <2>3 DEF ToSet
    <3>2. a[1] = b[1]
      <4>1. a[1] \in {b[1]}
        BY <1>1, <3>1, Zenon
      <4> QED
        BY <4>1
    <3>3. a = b
      BY <1>1, <2>1, <2>3, <3>2
    <3> QED
      BY <3>3
  <2> QED
    BY <1>2, <2>1, <2>2, <2>3
<1>3. CASE Len(LinesOf(a)) <= 3
  <2>1. PICK L : SameLinesBefore(a, b, z, L)
    BY LinesAlike
  <2> DEFINE la == LinesOf(a)
             lb == LinesOf(b)
             lz == LinesOf(z)
             n == Len(la)
             Rest == UNION {lz[j] : j \in {k \in DOMAIN lz : k + n <= 3}}
  <2> HIDE DEF la, lb, lz
  <2>2. la \in Seq(L) /\ lb \in Seq(L) /\ lz \in Seq(L) /\ Rearranged(la, lb)
    BY <2>1 DEF la, lb, lz, SameLinesBefore
  <2>3. ToSet(la) = ToSet(lb) /\ Len(la) = Len(lb) /\ n <= 3
    BY <1>3, <2>2, RearrangedElements DEF la
  <2>4. ASSUME NEW u \in Seq(L), Len(u) = n
        PROVE  Quoted(u \o lz) = (UNION ToSet(u)) \cup Rest
    <3> DEFINE w == u \o lz
    <3>0. w \in Seq(L) /\ Len(w) = Len(u) + Len(lz)
      <4>1. u \in Seq(L) /\ lz \in Seq(L)
        BY <2>2, <2>4
      <4> QED
        BY <4>1
    <3>1. /\ DOMAIN w = 1..(n + Len(lz)) /\ n \in Nat /\ Len(lz) \in Nat
          /\ DOMAIN lz = 1..Len(lz) /\ DOMAIN u = 1..n
      <4>1. Len(u) \in Nat /\ DOMAIN u = 1..Len(u)
        BY <2>4
      <4>2. Len(lz) \in Nat /\ DOMAIN lz = 1..Len(lz)
        BY <2>2
      <4>3. DOMAIN w = 1..Len(w)
        <5> HIDE DEF w
        <5> QED
          BY <3>0
      <4> HIDE DEF w
      <4> QED
        BY <2>4, <3>0, <4>1, <4>2, <4>3
    <3>2. \A i \in 1..n : w[i] = u[i]
      BY <2>2, <2>4
    <3>3. \A j \in 1..Len(lz) : w[j + n] = lz[j]
      BY <2>2, <2>4
    <3> HIDE DEF w
    <3>4. ASSUME NEW x \in Quoted(w) PROVE x \in (UNION ToSet(u)) \cup Rest
      <4>1. PICK i \in DOMAIN w \cap 1..3 : x \in w[i]
        BY DEF Quoted
      <4>2. CASE i <= n
        BY <3>1, <3>2, <4>1, <4>2 DEF ToSet
      <4>3. CASE i > n
        <5>1. i - n \in 1..Len(lz) /\ (i - n) + n = i /\ (i - n) + n <= 3
          BY <3>1, <4>1, <4>3
        <5>2. w[i] = lz[i - n]
          BY <3>3, <5>1
        <5> QED
          BY <3>1, <4>1, <5>1, <5>2
      <4> QED
        BY <3>1, <4>1, <4>2, <4>3
    <3>5. ASSUME NEW x \in UNION ToSet(u) PROVE x \in Quoted(w)
      <4>1. PICK i \in 1..n : x \in u[i]
        BY <3>1 DEF ToSet
      <4>2. i \in DOMAIN w \cap 1..3 /\ w[i] = u[i]
        BY <2>3, <3>1, <3>2
      <4> QED
        BY <4>1, <4>2 DEF Quoted
    <3>6. ASSUME NEW x \in Rest PROVE x \in Quoted(w)
      <4>1. PICK j \in DOMAIN lz : j + n <= 3 /\ x \in lz[j]
        OBVIOUS
      <4>2. j + n \in DOMAIN w \cap 1..3 /\ w[j + n] = lz[j]
        BY <3>1, <3>3, <4>1
      <4> QED
        BY <4>1, <4>2 DEF Quoted
    <3> QED
      BY <3>4, <3>5, <3>6 DEF w
  <2> HIDE DEF Rest
  <2>5. Quoted(la \o lz) = Quoted(lb \o lz)
    BY <2>2, <2>3, <2>4
  <2> QED
    BY <2>1, <2>5 DEF la, lb, lz, SameLinesBefore
<1> QED
  BY <1>2, <1>3 DEF Quotable

\* Matches in another order, before others, make alike facts, of the same text
\* when all that they add is quoted.
LEMMA FactsAlike ==
  ASSUME NEW S, Lined(S), NEW a \in Seq(S), NEW b \in Seq(S), NEW z \in Seq(S),
         Rearranged(a, b), NEW concern
  PROVE  /\ AlikeFacts(FactOf(a \o z, concern), FactOf(b \o z, concern))
         /\ Quotable(a) => FactOf(a \o z, concern).words = FactOf(b \o z, concern).words
<1> DEFINE src == [m \in S |-> m.source]
           R == {m.source : m \in S}
           Sources(u) == [i \in DOMAIN u |-> u[i].source]
           Conflict(u) == \E i \in DOMAIN u : u[i].conflict
           Labels(u) == UNION {u[i].label : i \in DOMAIN u}
           Text(u) == Quoted(LinesOf(u))
           d == a \o z
           e == b \o z
<1>0. d \in Seq(S) /\ e \in Seq(S) /\ Rearranged(d, e)
  <2>1. Rearranged(z, z)
    BY RearrangedSame
  <2>2. RearrangedOfConcat(a, b, z, z)
    BY <2>1, RearrangedConcat
  <2> QED
    BY <2>2 DEF RearrangedOfConcat
<1>6. Quotable(a) => Text(d) = Text(e)
  BY QuotedAlike
<1> HIDE DEF d, e
<1>1. ToSet(d) = ToSet(e)
  BY <1>0, RearrangedElements
<1>2. ASSUME NEW u \in Seq(S) PROVE Sources(u) = Map(src, u) /\ Sources(u) \in Seq(R)
  <2>1. \A i \in DOMAIN u : u[i] \in S
    OBVIOUS
  <2>2. DOMAIN u = 1..Len(u)
    OBVIOUS
  <2>3. Sources(u) = Map(src, u)
    <3>1. \A i \in 1..Len(u) : src[u[i]] = u[i].source
      BY <2>1
    <3> HIDE DEF src
    <3> QED
      BY <2>2, <3>1 DEF Map
  <2>4. src \in [S -> R]
    OBVIOUS
  <2> HIDE DEF src, R
  <2>5. Map(src, u) \in Seq(R)
    BY <2>4, MapType
  <2> QED
    BY <2>3, <2>5
<1>3. Rearranged(Sources(d), Sources(e))
  <2>1. src \in [S -> R]
    OBVIOUS
  <2> HIDE DEF src, R
  <2>2. RearrangedImages(S, R, src, d, e)
    BY <1>0, <2>1, RearrangedMap
  <2> QED
    BY <1>0, <1>2, <2>2 DEF RearrangedImages
<1>4. Conflict(d) <=> Conflict(e)
  <2>1. \A u : Conflict(u) <=> \E m \in ToSet(u) : m.conflict
    BY DEF ToSet
  <2> HIDE DEF Conflict
  <2> QED
    BY <1>1, <2>1
<1>5. Labels(d) = Labels(e)
  <2>1. \A u : Labels(u) = UNION {m.label : m \in ToSet(u)}
    BY DEF ToSet
  <2> HIDE DEF Labels
  <2> QED
    BY <1>1, <2>1
<1>8. ASSUME NEW u
      PROVE  FactOf(u, concern) =
               [concern |-> concern, confidence |-> CombineConfidence(Sources(u), Conflict(u)),
                freshness |-> CombineFreshness(Sources(u)),
                sources |-> UniqueSources(Sources(u)), words |-> Labels(u) \cup Text(u)]
  BY Zenon DEF FactOf, LinesOf, Quoted
<1> DEFINE s == Sources(d)
           t == Sources(e)
           f == FactOf(d, concern)
           g == FactOf(e, concern)
<1>9. /\ f.concern = concern /\ f.confidence = CombineConfidence(s, Conflict(d))
      /\ f.freshness = CombineFreshness(s) /\ f.sources = UniqueSources(s)
      /\ f.words = Labels(d) \cup Text(d)
  <2> HIDE DEF Sources, Conflict, Labels, Text
  <2> QED
    BY <1>8
<1>10. /\ g.concern = concern /\ g.confidence = CombineConfidence(t, Conflict(e))
       /\ g.freshness = CombineFreshness(t) /\ g.sources = UniqueSources(t)
       /\ g.words = Labels(e) \cup Text(e)
  <2> HIDE DEF Sources, Conflict, Labels, Text
  <2> QED
    BY <1>8
<1> HIDE DEF f, g, Labels, Text
<1>11. s \in Seq(R) /\ t \in Seq(R) /\ Rearranged(s, t)
  BY <1>0, <1>2, <1>3
<1> HIDE DEF s, t, R, src
<1>12. ToSet(s) = ToSet(t)
  BY <1>11, RearrangedElements
<1>13. IsSequence(s) /\ IsSequence(t)
  BY <1>11, SequencesAre
<1>14. /\ Keys(UniqueSources(s)) = Keys(UniqueSources(t))
       /\ Cardinality(UniqueSources(s)) = Cardinality(UniqueSources(t))
  BY <1>12, <1>13, UniqueKeys
<1> DEFINE cd == Conflict(d)
           ce == Conflict(e)
<1>15. cd = ce
  BY <1>4
<1> HIDE DEF cd, ce
<1>16. /\ CombineConfidence(s, cd) = CombineConfidence(t, ce)
       /\ CombineFreshness(s) = CombineFreshness(t)
  BY <1>11, <1>15, CombinedAlike
<1>17. AlikeFacts(f, g)
  BY <1>9, <1>10, <1>14, <1>16 DEF AlikeFacts, cd, ce
<1>18. ASSUME Quotable(a) PROVE f.words = g.words
  BY <1>5, <1>6, <1>9, <1>10, <1>18
<1> QED
  BY <1>17, <1>18 DEF f, g, d, e

\* The drafts of a concern, from matches in another order, before others.
SameDraftsBefore(a, b, z, concern, S) ==
  /\ DraftOf(a, concern) \in Seq(S) /\ DraftOf(b, concern) \in Seq(S)
  /\ DraftOf(z, concern) \in Seq(S)
  /\ Rearranged(DraftOf(a, concern), DraftOf(b, concern))
  /\ DraftOf(a \o z, concern) = DraftOf(a, concern) \o DraftOf(z, concern)
  /\ DraftOf(b \o z, concern) = DraftOf(b, concern) \o DraftOf(z, concern)

LEMMA DraftsRearranged ==
  ASSUME NEW S, NEW a \in Seq(S), NEW b \in Seq(S), NEW z \in Seq(S), Rearranged(a, b),
         NEW concern
  PROVE  SameDraftsBefore(a, b, z, concern, S)
<1> DEFINE V == {x \in S : x.concern = concern}
           both == a \o z
           other == b \o z
<1>1. ASSUME NEW m \in Seq(S) PROVE DraftOf(m, concern) = Keep(m, V)
  <2>1. {i \in DOMAIN m : m[i].concern = concern} = {i \in DOMAIN m : m[i] \in V}
    OBVIOUS
  <2> HIDE DEF V
  <2> QED
    BY <2>1 DEF DraftOf, Keep
<1> HIDE DEF V
<1>2. both \in Seq(S) /\ other \in Seq(S)
  OBVIOUS
<1>3. /\ Keep(both, V) = Keep(a, V) \o Keep(z, V)
      /\ Keep(other, V) = Keep(b, V) \o Keep(z, V)
  BY KeepConcat
<1> HIDE DEF both, other
<1>4. Keep(a, V) \in Seq(S) /\ Keep(b, V) \in Seq(S) /\ Keep(z, V) \in Seq(S)
  BY KeepType
<1>5. Rearranged(Keep(a, V), Keep(b, V))
  BY RearrangedKeep
<1>6. DraftOf(both, concern) = Keep(both, V) /\ DraftOf(other, concern) = Keep(other, V)
  BY <1>1, <1>2
<1>7. /\ DraftOf(a, concern) = Keep(a, V) /\ DraftOf(b, concern) = Keep(b, V)
      /\ DraftOf(z, concern) = Keep(z, V)
  BY <1>1
<1> QED
  BY <1>3, <1>4, <1>5, <1>6, <1>7 DEF SameDraftsBefore, both, other

\* What two sets of facts share.
SameReading(F, G) ==
  /\ \A f \in F : \E g \in G : AlikeFacts(f, g)
  /\ \A g \in G : \E f \in F : AlikeFacts(f, g)

\* One fact like another makes the same confidence.
LEMMA OneFactAlike ==
  ASSUME NEW f, NEW g, AlikeFacts(f, g)
  PROVE  CombineFactConfidence({f}) = CombineFactConfidence({g})
<1>1. Cardinality({f}) = 1 /\ Cardinality({g}) = 1
  BY FS_Singleton
<1>2. ASSUME NEW F, NEW G, Keys(F) = Keys(G), NEW s \in F
      PROVE  \E t \in G : t.category = s.category
  <2>1. <<s.source, s.category, s.status>> \in Keys(G)
    BY <1>2 DEF Keys
  <2>2. PICK t \in G : <<s.source, s.category, s.status>> = <<t.source, t.category, t.status>>
    BY <2>1 DEF Keys
  <2> QED
    BY <2>2
<1>3. Keys(f.sources) = Keys(g.sources)
  BY DEF AlikeFacts
<1> DEFINE Claimed(x) == \E s \in x.sources : s.category = "architecture_claim"
           Reading(x) == IF x.confidence = "high" /\ (Claimed(x) \/ Cardinality(x.sources) >= 2)
                         THEN "high" ELSE IF x.confidence # "low" THEN "medium" ELSE "low"
<1>4. Claimed(f) <=> Claimed(g)
  BY <1>2, <1>3
<1>5. ASSUME NEW x, Cardinality({x}) = 1
      PROVE  CombineFactConfidence({x}) = Reading(x)
  <2> DEFINE high == {y \in {x} : y.confidence = "high"}
  <2>1. CASE x.confidence = "high"
    <3>1. high = {x}
      BY <2>1
    <3>2. /\ (\E y \in high : \E s \in y.sources : s.category = "architecture_claim") <=> Claimed(x)
          /\ (\E y \in high : Cardinality(y.sources) >= 2) <=> Cardinality(x.sources) >= 2
      BY <3>1
    <3>3. (\E y \in {x} : y.confidence # "low") <=> x.confidence # "low"
      OBVIOUS
    <3> HIDE DEF high, Claimed
    <3>4. ~(Cardinality({x}) >= 2)
      BY <1>5
    <3> QED
      BY <2>1, <3>2, <3>3, <3>4 DEF CombineFactConfidence, high, Claimed
  <2>2. CASE x.confidence # "high"
    <3>1. high = {}
      BY <2>2
    <3>2. (\E y \in {x} : y.confidence # "low") <=> x.confidence # "low"
      OBVIOUS
    <3> QED
      BY <2>2, <3>1, <3>2 DEF CombineFactConfidence
  <2> QED
    BY <2>1, <2>2
<1> HIDE DEF Claimed
<1> QED
  BY <1>1, <1>4, <1>5 DEF AlikeFacts

\* A concern that is read alike, and a reading that two entries share.
ReadAlike(c, d) ==
  /\ c.concern = d.concern /\ c.confidence = d.confidence /\ c.thresholds = d.thresholds
  /\ c.complexity = d.complexity /\ SameReading(c.facts, d.facts)

\* What the matches of a concern say of it does not depend on their order.
LEMMA ConcernDraftsAlike ==
  ASSUME NEW S, Lined(S), NEW a \in Seq(S), NEW b \in Seq(S), NEW z \in Seq(S),
         Rearranged(a, b), NEW concern
  PROVE  LET c == ConcernDraft(concern, a \o z)
             d == ConcernDraft(concern, b \o z)
         IN /\ ReadAlike(c, d)
            /\ c.facts = {} <=> d.facts = {}
            /\ Quotable(DraftOf(a, concern)) => TextOf(c.facts) = TextOf(d.facts)
<1> DEFINE m1 == a \o z
           m2 == b \o z
           d1 == DraftOf(m1, concern)
           d2 == DraftOf(m2, concern)
           f1 == FactOf(d1, concern)
           f2 == FactOf(d2, concern)
           F(d, f) == IF d = <<>> THEN {} ELSE {f}
           Axes(d) == {"unknown"} \cup {d[i].complexity : i \in DOMAIN d}
           Top(d) == CHOOSE x \in Axes(d) : \A y \in Axes(d) : AxisRank[y] <= AxisRank[x]
           Crossed(d) == UNION {d[i].thresholds : i \in DOMAIN d}
<1>0. /\ DraftOf(a, concern) \in Seq(S) /\ DraftOf(b, concern) \in Seq(S)
      /\ DraftOf(z, concern) \in Seq(S)
      /\ Rearranged(DraftOf(a, concern), DraftOf(b, concern))
      /\ d1 = DraftOf(a, concern) \o DraftOf(z, concern)
      /\ d2 = DraftOf(b, concern) \o DraftOf(z, concern)
  <2>1. SameDraftsBefore(a, b, z, concern, S)
    BY DraftsRearranged
  <2> QED
    BY <2>1 DEF SameDraftsBefore
<1> HIDE DEF m1, m2
<1>1. d1 \in Seq(S) /\ d2 \in Seq(S) /\ Rearranged(d1, d2)
  <2> DEFINE p == DraftOf(a, concern)
             q == DraftOf(b, concern)
             r == DraftOf(z, concern)
  <2>1. /\ p \in Seq(S) /\ q \in Seq(S) /\ r \in Seq(S) /\ Rearranged(p, q)
        /\ d1 = p \o r /\ d2 = q \o r
    BY <1>0
  <2> HIDE DEF p, q, r, d1, d2
  <2>2. RearrangedOfConcat(p, q, r, r)
    BY <2>1, RearrangedSame, RearrangedConcat
  <2> QED
    BY <2>1, <2>2 DEF RearrangedOfConcat
<1>2. ASSUME NEW m
      PROVE  ConcernDraft(concern, m) =
               [concern |-> concern, facts |-> F(DraftOf(m, concern), FactOf(DraftOf(m, concern), concern)),
                confidence |-> CombineFactConfidence(F(DraftOf(m, concern), FactOf(DraftOf(m, concern), concern))),
                thresholds |-> Crossed(DraftOf(m, concern)), complexity |-> Top(DraftOf(m, concern))]
  BY DEF ConcernDraft
<1> DEFINE c == ConcernDraft(concern, m1)
           d == ConcernDraft(concern, m2)
<1>3. /\ c.concern = concern /\ c.facts = F(d1, f1)
      /\ c.confidence = CombineFactConfidence(F(d1, f1))
      /\ c.thresholds = Crossed(d1) /\ c.complexity = Top(d1)
  <2> HIDE DEF F, Crossed, Top
  <2> QED
    BY <1>2
<1>4. /\ d.concern = concern /\ d.facts = F(d2, f2)
      /\ d.confidence = CombineFactConfidence(F(d2, f2))
      /\ d.thresholds = Crossed(d2) /\ d.complexity = Top(d2)
  <2> HIDE DEF F, Crossed, Top
  <2> QED
    BY <1>2
<1>5. ToSet(d1) = ToSet(d2) /\ Len(d1) = Len(d2)
  BY <1>1, RearrangedElements
<1>6. /\ AlikeFacts(f1, f2)
      /\ Quotable(DraftOf(a, concern)) => f1.words = f2.words
  <2> DEFINE p == DraftOf(a, concern)
             q == DraftOf(b, concern)
             r == DraftOf(z, concern)
  <2>1. /\ p \in Seq(S) /\ q \in Seq(S) /\ r \in Seq(S) /\ Rearranged(p, q)
        /\ d1 = p \o r /\ d2 = q \o r
    BY <1>0
  <2> HIDE DEF p, q, r, d1, d2
  <2>2. /\ AlikeFacts(FactOf(p \o r, concern), FactOf(q \o r, concern))
        /\ Quotable(p) => FactOf(p \o r, concern).words = FactOf(q \o r, concern).words
    BY <2>1, FactsAlike
  <2> QED
    BY <2>1, <2>2 DEF p
<1> HIDE DEF c, d, f1, f2, d1, d2
<1>7. Crossed(d1) = Crossed(d2)
  <2>1. \A x : Crossed(x) = UNION {m.thresholds : m \in ToSet(x)}
    BY DEF ToSet
  <2> HIDE DEF Crossed
  <2> QED
    BY <1>5, <2>1
<1>8. Top(d1) = Top(d2)
  <2>1. \A x : Axes(x) = {"unknown"} \cup {m.complexity : m \in ToSet(x)}
    BY DEF ToSet
  <2> HIDE DEF Axes
  <2>2. Axes(d1) = Axes(d2)
    BY <1>5, <2>1
  <2> QED
    BY <2>2
<1> HIDE DEF Crossed, Top
<1>9. d1 = <<>> <=> d2 = <<>>
  BY <1>1, <1>5
<1>10. CASE d1 = <<>>
  <2>1. c.facts = {} /\ d.facts = {}
    BY <1>3, <1>4, <1>9, <1>10
  <2>2. ReadAlike(c, d)
    BY <1>3, <1>4, <1>7, <1>8, <2>1 DEF ReadAlike, SameReading
  <2> QED
    BY <2>1, <2>2 DEF c, d, m1, m2
<1>11. CASE d1 # <<>>
  <2>1. c.facts = {f1} /\ d.facts = {f2}
    BY <1>3, <1>4, <1>9, <1>11
  <2>2. c.confidence = d.confidence
    BY <1>3, <1>4, <1>6, <2>1, OneFactAlike
  <2>3. SameReading(c.facts, d.facts)
    BY <1>6, <2>1 DEF SameReading
  <2>4. ReadAlike(c, d)
    BY <1>3, <1>4, <1>7, <1>8, <2>2, <2>3 DEF ReadAlike
  <2>5. ASSUME Quotable(DraftOf(a, concern)) PROVE TextOf(c.facts) = TextOf(d.facts)
    BY <1>6, <2>1, <2>5 DEF TextOf
  <2> QED
    BY <2>1, <2>4, <2>5 DEF c, d, m1, m2
<1> QED
  BY <1>10, <1>11

\* What is read alike and of the same text is pressed and supported alike.
LEMMA AdequaciesAlike ==
  ASSUME NEW c, NEW d, ReadAlike(c, d), TextOf(c.facts) = TextOf(d.facts)
  PROVE  AdequacyOf(c) = AdequacyOf(d)
<1>1. /\ c.concern = d.concern /\ c.confidence = d.confidence
      /\ c.thresholds = d.thresholds /\ c.complexity = d.complexity
      /\ SameReading(c.facts, d.facts)
  BY DEF ReadAlike
<1>2. c.facts = {} <=> d.facts = {}
  BY <1>1 DEF SameReading
<1>3. SourceNames(c.facts) = SourceNames(d.facts)
  <2> DEFINE Names(F) == {k[1] : k \in UNION {Keys(f.sources) : f \in F}}
  <2>1. ASSUME NEW F PROVE SourceNames(F) = Names(F)
    <3>1. ASSUME NEW x \in SourceNames(F) PROVE x \in Names(F)
      <4>0. PICK f \in F : \E s \in f.sources : s.source = x
        BY <3>1 DEF SourceNames
      <4>1. PICK s \in f.sources : s.source = x
        BY <4>0
      <4>2. <<s.source, s.category, s.status>> \in UNION {Keys(g.sources) : g \in F}
        BY <4>1 DEF Keys
      <4>3. <<s.source, s.category, s.status>>[1] = x
        BY <4>1
      <4> QED
        BY <4>2, <4>3
    <3>2. ASSUME NEW x \in Names(F) PROVE x \in SourceNames(F)
      <4>0. PICK f \in F : \E k \in Keys(f.sources) : k[1] = x
        BY <3>2
      <4>1. PICK k \in Keys(f.sources) : k[1] = x
        BY <4>0
      <4>2. PICK s \in f.sources : k = <<s.source, s.category, s.status>>
        BY <4>1 DEF Keys
      <4>3. s.source = x
        BY <4>1, <4>2
      <4> QED
        BY <4>1, <4>2, <4>3 DEF SourceNames
    <3> QED
      BY <3>1, <3>2
  <2>2. {Keys(f.sources) : f \in c.facts} = {Keys(g.sources) : g \in d.facts}
    <3>1. /\ \A f \in c.facts : \E g \in d.facts : Keys(f.sources) = Keys(g.sources)
          /\ \A g \in d.facts : \E f \in c.facts : Keys(f.sources) = Keys(g.sources)
      BY <1>1 DEF SameReading, AlikeFacts
    <3> QED
      BY <3>1
  <2>3. Names(c.facts) = Names(d.facts)
    BY <2>2
  <2> HIDE DEF Names
  <2> QED
    BY <2>1, <2>3
<1>4. DriversOf(c) = DriversOf(d)
  BY <1>1 DEF DriversOf
<1>5. ASSUME NEW drivers
      PROVE  /\ LevelOfPressure(c, drivers) = LevelOfPressure(d, drivers)
             /\ IsProvisional(c, drivers) = IsProvisional(d, drivers)
  <2>1. LevelOfPressure(c, drivers) = LevelOfPressure(d, drivers)
    BY <1>1, <1>2 DEF LevelOfPressure
  <2>2. IsProvisional(c, drivers) = IsProvisional(d, drivers)
    BY <1>1, <1>3, Zenon DEF IsProvisional
  <2> QED
    BY <2>1, <2>2
<1>6. PressureOf(c) = PressureOf(d)
  <2> DEFINE p == IsProvisional(c, DriversOf(c))
             q == IsProvisional(d, DriversOf(d))
  <2>1. p = q
    BY <1>4, <1>5, Zenon
  <2>2. LevelOfPressure(c, DriversOf(c)) = LevelOfPressure(d, DriversOf(d))
    BY <1>4, <1>5, Zenon
  <2> HIDE DEF p, q
  <2>3. PressureOf(c) = [level |-> LevelOfPressure(c, DriversOf(c)), provisional |-> p,
                         confidence |-> IF p THEN "low" ELSE c.confidence]
    BY DEF PressureOf, p
  <2>4. PressureOf(d) = [level |-> LevelOfPressure(d, DriversOf(d)), provisional |-> q,
                         confidence |-> IF q THEN "low" ELSE d.confidence]
    BY DEF PressureOf, q
  <2> QED
    BY <1>1, <2>1, <2>2, <2>3, <2>4, Zenon
<1>7. SupportOf(c) = SupportOf(d)
  BY <1>1, <1>2 DEF SupportOf
<1> QED
  BY <1>1, <1>6, <1>7, Zenon DEF AdequacyOf

\* The same state, confidence, thresholds, axis and sources; and the same
\* adequacy and text when all of it is quoted.
EntriesAlike(c, d, quoted) ==
  /\ ReadAlike(c, d) /\ c.state = d.state
  /\ quoted => c.adequacy = d.adequacy /\ TextOf(c.facts) = TextOf(d.facts)

\* So the entry of a concern does not depend on the order of the matches.
LEMMA ConcernsAlike ==
  ASSUME NEW S, Lined(S), NEW a \in Seq(S), NEW b \in Seq(S), NEW z \in Seq(S),
         Rearranged(a, b), NEW concern, NEW decisions
  PROVE  EntriesAlike(ConcernOf(concern, a \o z, decisions),
                      ConcernOf(concern, b \o z, decisions), Quotable(DraftOf(a, concern)))
<1> DEFINE m1 == a \o z
           m2 == b \o z
           c == ConcernDraft(concern, m1)
           d == ConcernDraft(concern, m2)
           few == Quotable(DraftOf(a, concern))
           Whole(x) == [concern |-> concern, facts |-> x.facts, confidence |-> x.confidence,
                        thresholds |-> x.thresholds, complexity |-> x.complexity,
                        state |-> Maturity(x, decisions), adequacy |-> AdequacyOf(x)]
<1>1. /\ ReadAlike(c, d)
      /\ c.facts = {} <=> d.facts = {}
      /\ few => TextOf(c.facts) = TextOf(d.facts)
  BY ConcernDraftsAlike
<1> HIDE DEF m1, m2
<1>2. c.concern = concern /\ d.concern = concern
  BY DEF ConcernDraft
<1>3. ConcernOf(concern, m1, decisions) = Whole(c) /\ ConcernOf(concern, m2, decisions) = Whole(d)
  BY DEF ConcernOf
<1> HIDE DEF c, d, few
<1>4. Maturity(c, decisions) = Maturity(d, decisions)
  BY <1>1 DEF Maturity, ReadAlike
<1>5. few => AdequacyOf(c) = AdequacyOf(d)
  BY <1>1, AdequaciesAlike
<1>6. ReadAlike(Whole(c), Whole(d))
  BY <1>1 DEF ReadAlike
<1>7. EntriesAlike(Whole(c), Whole(d), few)
  BY <1>1, <1>4, <1>5, <1>6 DEF EntriesAlike
<1> QED
  BY <1>3, <1>7 DEF few, m1, m2

\* The concerns of a baseline: those the matches speak of, and those tracked
\* though unknown.
LEMMA ConcernsOfBaseline ==
  ASSUME NEW items, NEW matches, IsSequence(matches),
         \A x \in ToSet(matches) : x.concern \in Concerns
  PROVE  ToSet(BaselineConcernOrder(items, matches))
           = {m.concern : m \in ToSet(matches)}
               \cup {c \in ToSet(ConcernOrder) \ {"unknown"} : c \in AlwaysTracked \/ items = <<>>}
<1> DEFINE I == {i \in DOMAIN matches :
                   ~\E j \in 1..(i - 1) : matches[j].concern = matches[i].concern}
           Spoken == {m.concern : m \in ToSet(matches)}
           opening == AtPlaces(matches, I)
           known == [i \in DOMAIN opening |-> opening[i].concern]
           unknown == {c \in Concerns \ (ToSet(known) \cup {"unknown"}) :
                         c \in AlwaysTracked \/ items = <<>>}
           K == {k \in DOMAIN ConcernOrder : ConcernOrder[k] \in unknown}
           rest == AtPlaces(ConcernOrder, K)
<1>1. BaselineConcernOrder(items, matches) = known \o rest
  BY DEF BaselineConcernOrder
<1>2. IsSequence(opening) /\ ToSet(opening) = {matches[i] : i \in I}
  BY FilteredSequence
<1>3. \A i \in I : matches[i] \in ToSet(matches)
  BY DEF ToSet
<1>4. IsSequence(rest) /\ ToSet(rest) = {ConcernOrder[k] : k \in K}
  BY FilteredSequence, ConcernOrderIsOfConcerns
<1>5. \A m \in ToSet(matches) : m.concern \in ToSet(BaselineConcernOrder(items, matches))
  BY OrderCovers
<1>6. ToSet(rest) = ToSet(ConcernOrder) \cap unknown
  <2> HIDE DEF unknown, rest
  <2> QED
    BY <1>4 DEF ToSet
<1> HIDE DEF rest, opening
<1>7. DOMAIN opening = 1..Len(opening) /\ Len(opening) \in Nat
  BY <1>2, DomainOfSequence
<1>8. IsSequence(known) /\ ToSet(known) = {known[i] : i \in 1..Len(opening)}
  BY <1>7, Tabulated
<1>9. \A i \in DOMAIN opening : opening[i].concern \in Spoken
  BY <1>2, <1>3 DEF ToSet
<1> HIDE DEF Spoken
<1>10. ToSet(known) \subseteq Spoken
  BY <1>7, <1>8, <1>9
<1> HIDE DEF known
<1>11. ToSet(known \o rest) = ToSet(known) \cup ToSet(rest)
  BY <1>4, <1>8, Concatenated
<1>12. Spoken \subseteq ToSet(known) \cup ToSet(rest)
  BY <1>1, <1>5, <1>11 DEF Spoken
<1>13. ToSet(ConcernOrder) \subseteq Concerns
  BY ConcernOrderIsOfConcerns
<1>14. ToSet(rest) \subseteq {c \in ToSet(ConcernOrder) \ {"unknown"} : c \in AlwaysTracked \/ items = <<>>}
  BY <1>6
<1>15. {c \in ToSet(ConcernOrder) \ {"unknown"} : c \in AlwaysTracked \/ items = <<>>}
         \subseteq ToSet(known) \cup ToSet(rest)
  BY <1>6, <1>13
<1> QED
  BY <1>1, <1>10, <1>11, <1>12, <1>14, <1>15 DEF Spoken

\* Evidence in another order makes a baseline of the same entries.
BaselinesAlike(B, C, matches) ==
  /\ \A c \in ToSet(B) : \E d \in ToSet(C) :
       EntriesAlike(c, d, Quotable(DraftOf(matches, c.concern)))
  /\ \A d \in ToSet(C) : \E c \in ToSet(B) : c.concern = d.concern

LEMMA BaselineAlike ==
  ASSUME NEW e1, IsSequence(e1), NEW e2, IsSequence(e2), Rearranged(e1, e2),
         \A e \in ToSet(e1) : IsSequence(e.lines),
         NEW event, IsSequence(event.changed.files), NEW decisions, IsSequence(decisions)
  PROVE  BaselinesAlike(BaselineOf(e1, event, decisions), BaselineOf(e2, event, decisions),
                        EvidenceMatches(e1, event, decisions))
<1> DEFINE m1 == Matches(e1, event, decisions)
           m2 == Matches(e2, event, decisions)
           a == EvidenceMatches(e1, event, decisions)
           b == EvidenceMatches(e2, event, decisions)
           z == Afterwards(event, decisions)
           o1 == BaselineConcernOrder(e1, m1)
           o2 == BaselineConcernOrder(e2, m2)
           S == ToSet(m1)
           b1 == [i \in DOMAIN o1 |-> ConcernOf(o1[i], m1, decisions)]
           b2 == [i \in DOMAIN o2 |-> ConcernOf(o2[i], m2, decisions)]
<1>0. IsSequence(a) /\ IsSequence(b) /\ Rearranged(a, b)
  BY EvidenceMatchesRearranged
<1>1. /\ IsSequence(m1) /\ \A m \in ToSet(m1) : m.concern \in Concerns
      /\ IsSequence(m2) /\ \A m \in ToSet(m2) : m.concern \in Concerns
  BY MatchesAreGrounded DEF Grounded
<1>l. Lined(S)
  <2>1. \A m \in ToSet(m1) : Quotes(m, e1, event)
    BY MatchesAreGrounded
  <2> HIDE DEF m1
  <2> QED
    BY <2>1 DEF Quotes, Lined
<1>m. /\ m1 = a \o z /\ a \in Seq(ToSet(m1)) /\ z \in Seq(ToSet(m1))
      /\ m2 = b \o z /\ b \in Seq(ToSet(m2)) /\ z \in Seq(ToSet(m2))
  <2>1. m1 = a \o z /\ a \in Seq(ToSet(m1)) /\ z \in Seq(ToSet(m1))
    BY <1>0, MatchesSplit
  <2>2. m2 = b \o z /\ b \in Seq(ToSet(m2)) /\ z \in Seq(ToSet(m2))
    BY <1>0, MatchesSplit
  <2> QED
    BY <2>1, <2>2
<1>3. BaselineOf(e1, event, decisions) = b1 /\ BaselineOf(e2, event, decisions) = b2
  BY DEF BaselineOf
<1> HIDE DEF m1, m2, a, b, z
<1>4. m1 \in Seq(ToSet(m1)) /\ m2 \in Seq(ToSet(m2))
  BY <1>1 DEF IsSequence
<1>2. Rearranged(m1, m2)
  <2> DEFINE T == ToSet(m1) \cup ToSet(m2)
             A == ToSet(m1)
             B == ToSet(m2)
  <2>1. a \in Seq(A) /\ z \in Seq(A) /\ b \in Seq(B) /\ A \subseteq T /\ B \subseteq T
    BY <1>m
  <2> HIDE DEF A, B, T
  <2>2. \A P, Q : P \subseteq Q => Seq(P) \subseteq Seq(Q)
    OBVIOUS
  <2>3. a \in Seq(T) /\ b \in Seq(T) /\ z \in Seq(T)
    BY <2>1, <2>2
  <2>4. RearrangedOfConcat(a, b, z, z)
    BY <1>0, <2>3, RearrangedSame, RearrangedConcat
  <2> QED
    BY <1>m, <2>4 DEF RearrangedOfConcat
<1>5. ToSet(m1) = ToSet(m2)
  BY <1>2, <1>4, RearrangedElements
<1>6. e1 = <<>> <=> e2 = <<>>
  <2>1. e1 \in Seq(ToSet(e1)) /\ e2 \in Seq(ToSet(e2))
    BY DEF IsSequence
  <2>2. Len(e1) = Len(e2)
    BY <2>1, RearrangedElements
  <2> QED
    BY <2>1, <2>2
<1>7. ToSet(o1) = ToSet(o2)
  <2> DEFINE Tracked(e) == {c \in ToSet(ConcernOrder) \ {"unknown"} : c \in AlwaysTracked \/ e = <<>>}
  <2>1. ToSet(o1) = {m.concern : m \in ToSet(m1)} \cup Tracked(e1)
    BY <1>1, ConcernsOfBaseline
  <2>2. ToSet(o2) = {m.concern : m \in ToSet(m2)} \cup Tracked(e2)
    BY <1>1, ConcernsOfBaseline
  <2>3. Tracked(e1) = Tracked(e2)
    BY <1>6
  <2> HIDE DEF Tracked, o1, o2
  <2> QED
    BY <1>5, <2>1, <2>2, <2>3
<1>8. IsSequence(o1) /\ IsSequence(o2)
  BY <1>1, BaselineOrder
<1> HIDE DEF o1, o2
<1>9. a \in Seq(S) /\ b \in Seq(S) /\ z \in Seq(S)
  BY <1>m, <1>5
<1> HIDE DEF S
<1>10. DOMAIN b1 = DOMAIN o1 /\ DOMAIN b2 = DOMAIN o2
  OBVIOUS
<1>11. ASSUME NEW c \in ToSet(b1)
       PROVE  \E d \in ToSet(b2) :
                EntriesAlike(c, d, Quotable(DraftOf(a, c.concern)))
  <2>1. PICK i \in DOMAIN o1 : c = ConcernOf(o1[i], m1, decisions)
    BY <1>11 DEF ToSet
  <2>2. PICK j \in DOMAIN o2 : o2[j] = o1[i]
    BY <1>7 DEF ToSet
  <2> DEFINE d == ConcernOf(o2[j], m2, decisions)
  <2>3. d \in ToSet(b2)
    BY <2>2 DEF ToSet
  <2>4. c.concern = o1[i]
    BY <2>1 DEF ConcernOf
  <2>5. EntriesAlike(ConcernOf(o1[i], m1, decisions), ConcernOf(o1[i], m2, decisions),
                     Quotable(DraftOf(a, o1[i])))
    <3>1. EntriesAlike(ConcernOf(o1[i], a \o z, decisions), ConcernOf(o1[i], b \o z, decisions),
                       Quotable(DraftOf(a, o1[i])))
      BY <1>0, <1>l, <1>9, ConcernsAlike
    <3> QED
      BY <1>m, <3>1
  <2> HIDE DEF d, b2
  <2>6. EntriesAlike(c, d, Quotable(DraftOf(a, c.concern)))
    BY <2>1, <2>2, <2>4, <2>5 DEF d
  <2> QED
    BY <2>3, <2>6
<1>12. ASSUME NEW d \in ToSet(b2) PROVE \E c \in ToSet(b1) : c.concern = d.concern
  <2>1. PICK j \in DOMAIN o2 : d = ConcernOf(o2[j], m2, decisions)
    BY <1>12 DEF ToSet
  <2>2. PICK i \in DOMAIN o1 : o1[i] = o2[j]
    BY <1>7 DEF ToSet
  <2>3. ConcernOf(o1[i], m1, decisions) \in ToSet(b1)
    BY <2>2 DEF ToSet
  <2>4. d.concern = o2[j] /\ ConcernOf(o1[i], m1, decisions).concern = o1[i]
    BY <2>1 DEF ConcernOf
  <2> HIDE DEF b1
  <2> QED
    BY <2>2, <2>3, <2>4
<1> QED
  BY <1>3, <1>11, <1>12 DEF BaselinesAlike, a

\* What the evidence of the assessment in hand brings, were its items these.
MatchesOf(event, items, memory) ==
  EvidenceMatches(EvidenceOf(event, items), event, PriorDecisions(event, memory))

\* The entries of the baseline in hand do not depend on the order in which the
\* items came: from the same items in any other order the baseline has the same
\* concerns, each with the same confidence, thresholds, complexity, state and
\* sources, and its fact with the same confidence and freshness; and, when its
\* evidence has no more than three lines to quote, or is of one match, with the
\* same adequacy.
OrderOfItemsDoesNotMatter ==
  Assessed =>
    \A p \in Bijection(DOMAIN basis.items, DOMAIN basis.items) :
      BaselinesAlike(result.baseline,
                     AssessmentOf(basis.event, Permuted(basis.items, p), records).baseline,
                     MatchesOf(basis.event, basis.items, records))

\* Collectors run in whatever order they are registered: what is read of a
\* concern is the same for every order of their items, for any events, any
\* outcomes and any memory.
THEOREM OrderOfItems == Spec => []OrderOfItemsDoesNotMatter
<1>1. SessionInv => OrderOfItemsDoesNotMatter
  <2> SUFFICES ASSUME SessionInv, Assessed, NEW p \in Bijection(DOMAIN basis.items, DOMAIN basis.items)
               PROVE  BaselinesAlike(result.baseline,
                        AssessmentOf(basis.event, Permuted(basis.items, p), records).baseline,
                        MatchesOf(basis.event, basis.items, records))
    BY DEF OrderOfItemsDoesNotMatter
  <2> DEFINE event == basis.event
             items == basis.items
             other == Permuted(items, p)
             decisions == PriorDecisions(event, records)
  <2>1. InHand /\ IsSequence(records)
    BY DEF SessionInv, Assessed
  <2>2. event \in Events /\ IsSequence(items) /\ result = AssessmentOf(event, items, records)
    BY <2>1 DEF InHand
  <2>3. IsSequence(decisions)
    BY <2>1, <2>2, PriorDecisionsAre
  <2>4. IsSequence(other) /\ Rearranged(items, other)
    BY <2>2, PermutedIsRearranged
  <2> HIDE DEF event, other, items
  <2>5. Rearranged(EvidenceOf(event, items), EvidenceOf(event, other))
    BY <2>2, <2>4, EvidenceRearranged
  <2>6. IsSequence(EvidenceOf(event, items)) /\ IsSequence(EvidenceOf(event, other))
    BY <2>2, <2>4, EvidenceOfItems
  <2>7. result.baseline = BaselineOf(EvidenceOf(event, items), event, decisions)
    BY <2>2, AssessmentParts DEF decisions
  <2>8. AssessmentOf(event, other, records).baseline
          = BaselineOf(EvidenceOf(event, other), event, decisions)
    BY AssessmentParts DEF decisions
  <2> HIDE DEF decisions
  <2>9. BaselinesAlike(BaselineOf(EvidenceOf(event, items), event, decisions),
                       BaselineOf(EvidenceOf(event, other), event, decisions),
                       EvidenceMatches(EvidenceOf(event, items), event, decisions))
    <3>1. IsSequence(event.changed.files)
      BY <2>2, EventsAssumption DEF IsSequence
    <3>2. \A e \in ToSet(EvidenceOf(event, items)) : IsSequence(e.lines)
      BY <2>2, EvidenceOfItems
    <3> QED
      BY <2>3, <2>5, <2>6, <3>1, <3>2, BaselineAlike
  <2> QED
    BY <2>7, <2>8, <2>9 DEF MatchesOf, event, items, decisions, other
<1> QED
  BY <1>1, SessionInvAlways, PTL

-----------------------------------------------------------------------------
(***************************************************************************)
(* The nodes of the evidence graph: the first of each line that is read.   *)
(***************************************************************************)
IsNode(n) == n = [concern |-> n.concern, family |-> n.family, words |-> n.words,
                  confidence |-> n.confidence]
LineOf(n) == <<n.concern, n.family, n.words>>

\* Two nodes of one line, however sure they are of it.
Alike(n, m) == n = [m EXCEPT !.confidence = n.confidence]

\* The nodes that no earlier one is alike.
Firsts(nodes) ==
  {nodes[i] : i \in {j \in DOMAIN nodes : ~\E k \in 1..(j - 1) : Alike(nodes[k], nodes[j])}}

\* What is read first stands; of the rest, only what was not read yet.
Merged(F, G) == F \cup {n \in G : ~\E m \in F : LineOf(m) = LineOf(n)}

\* Nodes are alike exactly when they are of one line.
LEMMA AlikeNodes ==
  ASSUME NEW n, IsNode(n), NEW m, IsNode(m)
  PROVE  Alike(n, m) <=> LineOf(n) = LineOf(m)
<1> DEFINE k == [m EXCEPT !.confidence = n.confidence]
<1>1. k = [concern |-> m.concern, family |-> m.family, words |-> m.words,
           confidence |-> n.confidence]
  BY DEF IsNode
<1>2. n = [concern |-> n.concern, family |-> n.family, words |-> n.words,
           confidence |-> n.confidence]
  BY DEF IsNode
<1>3. Alike(n, m) <=> n = k
  BY DEF Alike
<1> HIDE DEF k
<1>4. n = k => LineOf(n) = LineOf(m)
  BY <1>1, <1>2 DEF LineOf
<1>5. LineOf(n) = LineOf(m) => n = k
  <2>1. SUFFICES ASSUME LineOf(n) = LineOf(m) PROVE n = k
    OBVIOUS
  <2>2. n.concern = m.concern /\ n.family = m.family /\ n.words = m.words
    BY <2>1 DEF LineOf
  <2> QED
    BY <1>1, <1>2, <2>2
<1> QED
  BY <1>3, <1>4, <1>5

\* Every node of a sequence has the line of a first one, and of no other.
LEMMA FirstOfALine ==
  ASSUME NEW R, \A n \in R : IsNode(n), NEW s \in Seq(R)
  PROVE  /\ Firsts(s) \subseteq ToSet(s)
         /\ \A n \in ToSet(s) : \E m \in Firsts(s) : LineOf(m) = LineOf(n)
         /\ \A n, m \in Firsts(s) : LineOf(n) = LineOf(m) => n = m
<1> DEFINE IsFirst(j) == ~\E k \in 1..(j - 1) : Alike(s[k], s[j])
<1>1. DOMAIN s = 1..Len(s) /\ Len(s) \in Nat /\ \A i \in 1..Len(s) : s[i] \in R
  OBVIOUS
<1>2. \A i, j \in 1..Len(s) : Alike(s[i], s[j]) <=> LineOf(s[i]) = LineOf(s[j])
  BY <1>1, AlikeNodes
<1>3. Firsts(s) = {s[i] : i \in {j \in 1..Len(s) : IsFirst(j)}}
  BY <1>1 DEF Firsts
<1>4. ASSUME NEW j \in 1..Len(s)
      PROVE  IsFirst(j) <=> \A k \in 1..Len(s) : k < j => LineOf(s[k]) # LineOf(s[j])
  <2>1. \A k : k \in 1..(j - 1) <=> k \in 1..Len(s) /\ k < j
    BY <1>1
  <2> QED
    BY <1>2, <2>1
<1>5. Firsts(s) \subseteq ToSet(s)
  BY <1>1, <1>3 DEF ToSet
<1> HIDE DEF IsFirst
<1>6. ASSUME NEW n \in ToSet(s) PROVE \E m \in Firsts(s) : LineOf(m) = LineOf(n)
  <2> DEFINE P == {i \in 1..Len(s) : LineOf(s[i]) = LineOf(n)}
             f == [i \in P |-> i]
  <2>1. P # {}
    BY <1>1 DEF ToSet
  <2>2. f \in [P -> Nat]
    BY <1>1
  <2>3. PICK j \in P : \A k \in P : f[j] <= f[k]
    <3> HIDE DEF P, f
    <3> QED
      BY <2>1, <2>2, LeastRank
  <2>4. \A k \in 1..Len(s) : k < j => LineOf(s[k]) # LineOf(s[j])
    BY <1>1, <2>3
  <2> QED
    BY <1>3, <1>4, <2>3, <2>4
<1>7. ASSUME NEW n \in Firsts(s), NEW m \in Firsts(s), LineOf(n) = LineOf(m)
      PROVE  n = m
  <2>1. PICK i \in 1..Len(s) : IsFirst(i) /\ n = s[i]
    BY <1>3
  <2>2. PICK j \in 1..Len(s) : IsFirst(j) /\ m = s[j]
    BY <1>3
  <2>3. ~(i < j) /\ ~(j < i)
    BY <1>4, <1>7, <2>1, <2>2
  <2>4. i = j
    BY <1>1, <2>3
  <2> QED
    BY <2>1, <2>2, <2>4
<1> QED
  BY <1>5, <1>6, <1>7

\* The first ones of two sequences put together.
FirstsMerge(s, t) == Firsts(s \o t) = Merged(Firsts(s), Firsts(t))

\* Reading two sequences one after the other merges what is read of each.
LEMMA FirstsOfConcat ==
  ASSUME NEW R, \A n \in R : IsNode(n), NEW s \in Seq(R), NEW t \in Seq(R)
  PROVE  FirstsMerge(s, t)
<1> DEFINE u == s \o t
           l == Len(s)
           IsFirst(z, j) == \A k \in 1..Len(z) : k < j => LineOf(z[k]) # LineOf(z[j])
           First(z) == {z[i] : i \in {j \in 1..Len(z) : IsFirst(z, j)}}
<1>1. /\ u \in Seq(R) /\ l \in Nat /\ Len(t) \in Nat /\ Len(u) = l + Len(t)
      /\ \A i \in 1..l : u[i] = s[i]
      /\ \A i \in 1..Len(t) : u[l + i] = t[i]
  OBVIOUS
<1>2. ASSUME NEW z \in Seq(R) PROVE Firsts(z) = First(z)
  <2>1. DOMAIN z = 1..Len(z) /\ Len(z) \in Nat /\ \A i \in 1..Len(z) : z[i] \in R
    OBVIOUS
  <2>2. \A i, j \in 1..Len(z) : Alike(z[i], z[j]) <=> LineOf(z[i]) = LineOf(z[j])
    BY <2>1, AlikeNodes
  <2>3. ASSUME NEW j \in 1..Len(z)
        PROVE  (~\E k \in 1..(j - 1) : Alike(z[k], z[j])) <=> IsFirst(z, j)
    <3>1. \A k : k \in 1..(j - 1) <=> k \in 1..Len(z) /\ k < j
      BY <2>1
    <3> QED
      BY <2>2, <3>1
  <2>4. {j \in DOMAIN z : ~\E k \in 1..(j - 1) : Alike(z[k], z[j])}
          = {j \in 1..Len(z) : IsFirst(z, j)}
    BY <2>1, <2>3
  <2> QED
    BY <2>4 DEF Firsts
<1>3. \A k \in 1..Len(u) : k \in 1..l \/ (k - l \in 1..Len(t) /\ u[k] = t[k - l])
  <2>1. ASSUME NEW k \in 1..Len(u), k \notin 1..l PROVE k - l \in 1..Len(t) /\ l + (k - l) = k
    BY <1>1, <2>1
  <2> QED
    BY <1>1, <2>1
<1> HIDE DEF u, l
<1>4. ASSUME NEW j \in 1..l PROVE IsFirst(u, j) <=> IsFirst(s, j)
  <2>1. \A k : k \in 1..Len(u) /\ k < j <=> k \in 1..Len(s) /\ k < j
    <3>1. l = Len(s)
      BY DEF l
    <3> QED
      BY <1>1, <3>1
  <2>2. \A k \in 1..Len(s) : u[k] = s[k]
    BY <1>1 DEF l
  <2>3. j \in 1..Len(s)
    BY DEF l
  <2> QED
    BY <2>1, <2>2, <2>3
<1>5. ASSUME NEW j \in 1..Len(t)
      PROVE  IsFirst(u, l + j) <=> IsFirst(t, j) /\ \A n \in ToSet(s) : LineOf(n) # LineOf(t[j])
  <2>1. l + j \in 1..Len(u) /\ u[l + j] = t[j]
    BY <1>1
  <2>2. ASSUME IsFirst(u, l + j) PROVE IsFirst(t, j)
    <3>1. ASSUME NEW k \in 1..Len(t), k < j PROVE LineOf(t[k]) # LineOf(t[j])
      <4>1. l + k \in 1..Len(u) /\ l + k < l + j /\ u[l + k] = t[k]
        BY <1>1, <3>1
      <4> QED
        BY <2>1, <2>2, <4>1
    <3> QED
      BY <3>1
  <2>3. ASSUME IsFirst(u, l + j), NEW n \in ToSet(s) PROVE LineOf(n) # LineOf(t[j])
    <3>1. PICK k \in 1..l : n = s[k]
      BY DEF ToSet, l
    <3>2. k \in 1..Len(u) /\ k < l + j /\ u[k] = s[k]
      BY <1>1, <3>1
    <3> QED
      BY <2>1, <2>3, <3>1, <3>2
  <2>4. ASSUME IsFirst(t, j), \A n \in ToSet(s) : LineOf(n) # LineOf(t[j])
        PROVE  IsFirst(u, l + j)
    <3>1. ASSUME NEW k \in 1..Len(u), k < l + j PROVE LineOf(u[k]) # LineOf(t[j])
      <4>1. CASE k \in 1..l
        <5>1. u[k] = s[k] /\ s[k] \in ToSet(s)
          BY <1>1, <4>1 DEF ToSet, l
        <5> QED
          BY <2>4, <5>1
      <4>2. CASE k - l \in 1..Len(t) /\ u[k] = t[k - l]
        <5>1. k - l < j
          BY <1>1, <3>1
        <5> QED
          BY <2>4, <4>2, <5>1
      <4> QED
        BY <1>3, <4>1, <4>2
    <3> QED
      BY <2>1, <3>1
  <2> HIDE DEF IsFirst
  <2> QED
    BY <2>2, <2>3, <2>4
<1>6. \A n : (\E m \in Firsts(s) : LineOf(m) = LineOf(n)) <=> (\E m \in ToSet(s) : LineOf(m) = LineOf(n))
  BY FirstOfALine
<1>7. Firsts(u) = First(u) /\ Firsts(s) = First(s) /\ Firsts(t) = First(t)
  BY <1>1, <1>2
<1> HIDE DEF IsFirst
<1>8. ASSUME NEW n \in First(u) PROVE n \in Merged(Firsts(s), Firsts(t))
  <2>1. PICK k \in 1..Len(u) : IsFirst(u, k) /\ n = u[k]
    OBVIOUS
  <2>2. CASE k \in 1..l
    <3>1. n \in First(s)
      BY <1>1, <1>4, <2>1, <2>2 DEF l
    <3> QED
      BY <1>7, <3>1 DEF Merged
  <2>3. CASE k - l \in 1..Len(t) /\ u[k] = t[k - l]
    <3>1. k = l + (k - l)
      BY <1>1
    <3>2. IsFirst(t, k - l) /\ \A m \in ToSet(s) : LineOf(m) # LineOf(t[k - l])
      BY <1>5, <2>1, <2>3, <3>1
    <3>3. n \in First(t)
      BY <2>1, <2>3, <3>2
    <3>4. ~\E m \in Firsts(s) : LineOf(m) = LineOf(n)
      BY <1>6, <2>1, <2>3, <3>2
    <3> QED
      BY <1>7, <3>3, <3>4 DEF Merged
  <2> QED
    BY <1>3, <2>2, <2>3
<1>9. ASSUME NEW n \in Merged(Firsts(s), Firsts(t)) PROVE n \in First(u)
  <2>1. CASE n \in First(s)
    <3>1. PICK k \in 1..l : IsFirst(s, k) /\ n = s[k]
      BY <2>1 DEF l
    <3>2. k \in 1..Len(u) /\ u[k] = n /\ IsFirst(u, k)
      BY <1>1, <1>4, <3>1
    <3> QED
      BY <3>2
  <2>2. CASE n \in First(t) /\ ~\E m \in Firsts(s) : LineOf(m) = LineOf(n)
    <3>1. PICK k \in 1..Len(t) : IsFirst(t, k) /\ n = t[k]
      BY <2>2
    <3>2. \A m \in ToSet(s) : LineOf(m) # LineOf(t[k])
      BY <1>6, <2>2, <3>1
    <3>3. l + k \in 1..Len(u) /\ u[l + k] = n /\ IsFirst(u, l + k)
      BY <1>1, <1>5, <3>1, <3>2
    <3> QED
      BY <3>3
  <2> QED
    BY <1>7, <1>9, <2>1, <2>2 DEF Merged
<1> HIDE DEF First
<1>10. Firsts(u) = Merged(Firsts(s), Firsts(t))
  BY <1>7, <1>8, <1>9
<1> QED
  BY <1>10 DEF FirstsMerge, u

-----------------------------------------------------------------------------
(***************************************************************************)
(* What the graph reads of a list of signals, family by family.            *)
(***************************************************************************)
NodesOf(s) == Firsts(FactNodes(s) \o TextNodes(s))
NodeFun(U) == [s \in U |-> FactNodes(s) \o TextNodes(s)]
AllNodes(U) == UNION {ToSet(FactNodes(s) \o TextNodes(s)) : s \in U}
Graphed(U, z) ==
  Keep(z, OfFamily(U, "repository")) \o Keep(z, OfFamily(U, "change"))
    \o Keep(z, OfFamily(U, "test")) \o Keep(z, OfFamily(U, "memory"))
    \o Keep(z, OfFamily(U, "runtime"))
FirstsRead(U, z) == Firsts(FlatMap(NodeFun(U), z))

\* Signals that read the same line are as sure of it.
AgreeAmong(V) ==
  \A x, y \in V : \A n \in NodesOf(x), m \in NodesOf(y) : Alike(n, m) => n = m

\* A signal brings a list of nodes.
LEMMA NodesAreNodes ==
  ASSUME NEW U, Lined(U)
  PROVE  /\ NodeFun(U) \in [U -> Seq(AllNodes(U))]
         /\ \A n \in AllNodes(U) : IsNode(n)
<1> DEFINE N(s) == FactNodes(s) \o TextNodes(s)
<1>1. ASSUME NEW s \in U PROVE IsSequence(N(s)) /\ \A n \in ToSet(N(s)) : IsNode(n)
  <2>1. /\ IsSequence(FactNodes(s)) /\ \A n \in ToSet(FactNodes(s)) : IsNode(n)
    <3> DEFINE n == [concern |-> s.details.concern, family |-> s.details.family,
                     words |-> s.words, confidence |-> s.details.confidence]
    <3>1. IsNode(n)
      BY DEF IsNode
    <3>2. FactNodes(s) = <<>> \/ FactNodes(s) = <<n>>
      BY DEF FactNodes
    <3> HIDE DEF n
    <3>3. IsSequence(<<n>>) /\ ToSet(<<n>>) = {n}
      BY OneElement
    <3> QED
      BY <3>1, <3>2, <3>3, EmptySequence
  <2>2. /\ IsSequence(TextNodes(s)) /\ \A n \in ToSet(TextNodes(s)) : IsNode(n)
    <3> DEFINE brought == [i \in DOMAIN s.lines |-> TextNode(s.lines[i], s.confidence)]
               l == Len(s.lines)
    <3>1. IsSequence(s.lines)
      BY DEF Lined
    <3>2. DOMAIN s.lines = 1..l /\ l \in Nat
      BY <3>1, DomainOfSequence
    <3>3. ASSUME NEW line
          PROVE  /\ IsSequence(TextNode(line, s.confidence))
                 /\ \A n \in ToSet(TextNode(line, s.confidence)) : IsNode(n)
      <4> DEFINE n == [concern |-> ConcernFromText(line), family |-> FamilyFromText(line),
                       words |-> line, confidence |-> s.confidence]
      <4>1. IsNode(n)
        BY DEF IsNode
      <4>2. TextNode(line, s.confidence) = <<>> \/ TextNode(line, s.confidence) = <<n>>
        BY DEF TextNode
      <4> HIDE DEF n
      <4>3. IsSequence(<<n>>) /\ ToSet(<<n>>) = {n}
        BY OneElement
      <4> QED
        BY <4>1, <4>2, <4>3, EmptySequence
    <3>4. \A i \in 1..l : brought[i] = TextNode(s.lines[i], s.confidence)
      BY <3>2
    <3>5. TextNodes(s) = FlattenSeq(brought)
      BY DEF TextNodes
    <3>6. brought = [i \in 1..l |-> brought[i]]
      BY <3>2
    <3> HIDE DEF brought, l
    <3>7. /\ IsSequence(FlattenSeq(brought))
          /\ ToSet(FlattenSeq(brought)) = UNION {ToSet(brought[i]) : i \in 1..l}
      BY <3>2, <3>3, <3>4, <3>6, Flattened
    <3> QED
      BY <3>3, <3>4, <3>5, <3>7
  <2>3. /\ IsSequence(N(s)) /\ ToSet(N(s)) = ToSet(FactNodes(s)) \cup ToSet(TextNodes(s))
    BY <2>1, <2>2, Concatenated
  <2> QED
    BY <2>1, <2>2, <2>3
<1>2. AllNodes(U) = UNION {ToSet(N(s)) : s \in U} /\ NodeFun(U) = [s \in U |-> N(s)]
  BY DEF AllNodes, NodeFun
<1> HIDE DEF N
<1>3. ASSUME NEW s \in U PROVE N(s) \in Seq(AllNodes(U))
  <2> DEFINE A == AllNodes(U)
             B == ToSet(N(s))
  <2>1. B \subseteq A /\ N(s) \in Seq(B)
    BY <1>1, <1>2 DEF IsSequence
  <2> HIDE DEF A, B
  <2>2. N(s) \in Seq(A)
    BY <2>1
  <2> QED
    BY <2>2 DEF A
<1> QED
  BY <1>1, <1>2, <1>3

\* The graph is the first nodes that the five families of signals bring.
LEMMA GraphIs ==
  ASSUME NEW U, NEW bundle, bundle.signals \in Seq(U)
  PROVE  /\ EvidenceGraph(bundle) = FirstsRead(U, Graphed(U, bundle.signals))
         /\ Graphed(U, bundle.signals) \in Seq(U)
<1> DEFINE z == bundle.signals
           all == Graphed(U, z)
           nodes == FlattenSeq([i \in DOMAIN all |-> FactNodes(all[i]) \o TextNodes(all[i])])
<1>1. ASSUME NEW name PROVE FamilyOf(bundle, name) = Keep(z, OfFamily(U, name))
  <2> DEFINE I == {i \in DOMAIN z : z[i].family = name}
             J == {i \in DOMAIN z : z[i] \in OfFamily(U, name)}
  <2>1. \A i \in DOMAIN z : z[i] \in U
    OBVIOUS
  <2>2. I = J
    <3> HIDE DEF z
    <3> QED
      BY <2>1 DEF OfFamily
  <2>3. FamilyOf(bundle, name) = AtPlaces(z, I)
    BY DEF FamilyOf
  <2>4. Keep(z, OfFamily(U, name)) = AtPlaces(z, J)
    BY DEF Keep
  <2> HIDE DEF I, J, z
  <2> QED
    BY <2>2, <2>3, <2>4
<1>2. z \in Seq(U)
  OBVIOUS
<1> HIDE DEF z
<1>3. all \in Seq(U)
  <2>1. ASSUME NEW name PROVE Keep(z, OfFamily(U, name)) \in Seq(U)
    BY <1>2, KeepType
  <2> QED
    BY <2>1 DEF Graphed
<1>4. FamilyOf(bundle, "repository") \o FamilyOf(bundle, "change") \o FamilyOf(bundle, "test")
        \o FamilyOf(bundle, "memory") \o FamilyOf(bundle, "runtime") = all
  BY <1>1 DEF Graphed
<1> HIDE DEF all
<1>5. EvidenceGraph(bundle) = Firsts(nodes)
  BY <1>4 DEF EvidenceGraph, Firsts, Alike
<1>6. nodes = FlatMap(NodeFun(U), all)
  <2>1. DOMAIN all = 1..Len(all) /\ \A i \in 1..Len(all) : all[i] \in U
    BY <1>3
  <2>2. \A i \in 1..Len(all) : NodeFun(U)[all[i]] = FactNodes(all[i]) \o TextNodes(all[i])
    BY <2>1 DEF NodeFun
  <2>3. [i \in DOMAIN all |-> FactNodes(all[i]) \o TextNodes(all[i])] = Map(NodeFun(U), all)
    BY <2>1, <2>2 DEF Map
  <2> QED
    BY <2>3 DEF FlatMap
<1> QED
  BY <1>3, <1>5, <1>6 DEF all, z, FirstsRead

\* What is read of two lists of signals, the second after the first.
ReadMerges(U, s, t) == FirstsRead(U, s \o t) = Merged(FirstsRead(U, s), FirstsRead(U, t))

\* So does reading two lists of signals one after the other.
LEMMA ReadOfConcat ==
  ASSUME NEW U, Lined(U), NEW s \in Seq(U), NEW t \in Seq(U)
  PROVE  ReadMerges(U, s, t)
<1> DEFINE h == NodeFun(U)
           R == AllNodes(U)
           a == FlatMap(h, s)
           b == FlatMap(h, t)
<1>1. h \in [U -> Seq(R)] /\ \A n \in R : IsNode(n)
  BY NodesAreNodes
<1> HIDE DEF h, R
<1>2. a \in Seq(R) /\ b \in Seq(R)
  BY <1>1, FlatMapType
<1>3. FlatMapConcatenated(U, R, h, s, t)
  BY <1>1, FlatMapConcat
<1>4. FlatMap(h, s \o t) = a \o b
  BY <1>3 DEF FlatMapConcatenated
<1>5. FirstsMerge(a, b)
  <2> HIDE DEF a, b
  <2> QED
    BY <1>1, <1>2, FirstsOfConcat
<1> QED
  BY <1>4, <1>5 DEF ReadMerges, FirstsRead, FirstsMerge, h

\* Signals that agree bring what each of them brings alone.
LEMMA ReadOfAgreeing ==
  ASSUME NEW U, Lined(U), NEW W, W \subseteq U, AgreeAmong(W), NEW s \in Seq(W)
  PROVE  FirstsRead(U, s) = UNION {NodesOf(x) : x \in ToSet(s)}
<1> DEFINE h == NodeFun(U)
           R == AllNodes(U)
           Said(z) == UNION {NodesOf(x) : x \in ToSet(z)}
           T == {z \in Seq(W) : FirstsRead(U, z) = Said(z)}
<1>1. h \in [U -> Seq(R)] /\ \A n \in R : IsNode(n)
  BY NodesAreNodes
<1>2. <<>> \in T
  <2>1. FlatMap(h, <<>>) = <<>>
    <3>1. Map(h, <<>>) = <<>>
      BY DEF Map
    <3>2. FlattenSeq(<<>>) = <<>>
      BY DEF FlattenSeq
    <3> QED
      BY <3>1, <3>2 DEF FlatMap
  <2>2. Firsts(<<>>) = {}
    BY DEF Firsts
  <2>3. Said(<<>>) = {}
    BY EmptySequence
  <2>4. <<>> \in Seq(W)
    OBVIOUS
  <2> QED
    BY <2>1, <2>2, <2>3, <2>4 DEF FirstsRead
<1>3. ASSUME NEW z \in Seq(W), NEW x \in W, z \in T PROVE Append(z, x) \in T
  <2>1. z \in Seq(U) /\ x \in U
    OBVIOUS
  <2>2. FlatMapAppended(U, R, h, z, x)
    <3> HIDE DEF h, R
    <3> QED
      BY <1>1, <2>1, FlatMapAppend
  <2> DEFINE a == FlatMap(h, z)
             b == FactNodes(x) \o TextNodes(x)
  <2>3. h[x] = b
    BY <2>1 DEF NodeFun
  <2>4. a \in Seq(R) /\ b \in Seq(R)
    <3>1. h[x] \in Seq(R)
      BY <1>1, <2>1
    <3> HIDE DEF h, R, b
    <3>2. a \in Seq(R)
      BY <1>1, <2>1, FlatMapType
    <3> QED
      BY <2>3, <3>1, <3>2
  <2>5. FirstsMerge(a, b)
    <3> HIDE DEF a, b, R
    <3> QED
      BY <1>1, <2>4, FirstsOfConcat
  <2>6. FirstsRead(U, Append(z, x)) = Merged(FirstsRead(U, z), NodesOf(x))
    BY <2>2, <2>3, <2>5 DEF FlatMapAppended, FirstsMerge, FirstsRead, NodesOf
  <2>7. FirstsRead(U, z) = Said(z)
    BY <1>3
  <2>8. NodesOf(x) \subseteq R
    <3>1. Firsts(b) \subseteq ToSet(b)
      <4> HIDE DEF b, R
      <4> QED
        BY <1>1, <2>4, FirstOfALine
    <3>2. ToSet(b) \subseteq R
      BY <2>1 DEF AllNodes
    <3> QED
      BY <3>1, <3>2 DEF NodesOf
  <2>9. Said(z) \subseteq R
    <3>1. Firsts(a) \subseteq ToSet(a)
      <4> HIDE DEF a, R
      <4> QED
        BY <1>1, <2>4, FirstOfALine
    <3>2. ToSet(a) \subseteq R
      <4> HIDE DEF a, R
      <4> QED
        BY <2>4, SequencesAre
    <3> QED
      BY <2>7, <3>1, <3>2 DEF FirstsRead
  <2>10. ASSUME NEW n \in NodesOf(x), NEW m \in Said(z), LineOf(m) = LineOf(n)
         PROVE  n = m
    <3>1. PICK y \in ToSet(z) : m \in NodesOf(y)
      OBVIOUS
    <3>2. y \in W
      BY SequencesAre
    <3>3. IsNode(n) /\ IsNode(m)
      BY <1>1, <2>8, <2>9
    <3>4. Alike(n, m)
      BY <2>10, <3>3, AlikeNodes
    <3> QED
      BY <3>1, <3>2, <3>4 DEF AgreeAmong
  <2>11. Merged(Said(z), NodesOf(x)) = Said(z) \cup NodesOf(x)
    <3> HIDE DEF Said
    <3> QED
      BY <2>10 DEF Merged
  <2>12. Said(Append(z, x)) = Said(z) \cup NodesOf(x)
    <3>1. IsSequence(z)
      BY SequencesAre
    <3>2. ToSet(Append(z, x)) = ToSet(z) \cup {x}
      BY <3>1, Appended
    <3> QED
      BY <3>2
  <2>13. Append(z, x) \in Seq(W)
    OBVIOUS
  <2> HIDE DEF Said
  <2> QED
    BY <2>6, <2>7, <2>11, <2>12, <2>13
<1> HIDE DEF T
<1>4. Seq(W) \subseteq T
  BY <1>2, <1>3, SequenceInduction
<1> QED
  BY <1>4 DEF T

-----------------------------------------------------------------------------
\* The signals of some items, and that those of one family agree.
SignalsOf(items) == {SignalOf(i) : i \in ToSet(items)}
GraphFamilies == {"repository", "change", "test", "memory", "runtime"}
SureAlike(items) == \A name \in GraphFamilies : AgreeAmong(OfFamily(SignalsOf(items), name))

\* Lists of the same signals, each of a family that agrees, read the same after
\* the same start.
LEMMA ReadAfter ==
  ASSUME NEW U, Lined(U), NEW V, NEW h \in Seq(U), NEW s \in Seq(U), NEW t \in Seq(U),
         ToSet(s) = ToSet(t), AgreeAmong(ToSet(s) \cap V)
  PROVE  FirstsRead(U, Keep(h \o s, V)) = FirstsRead(U, Keep(h \o t, V))
<1>1. ASSUME NEW r \in Seq(U)
      PROVE  /\ Keep(r, V) \in Seq(U)
             /\ ToSet(Keep(r, V)) = ToSet(r) \cap V
  <2>1. Keep(r, V) \in Seq(U)
    BY KeepType
  <2>2. ToSet(Keep(r, V)) = {r[i] : i \in {j \in DOMAIN r : r[j] \in V}}
    <3> DEFINE I == {j \in DOMAIN r : r[j] \in V}
    <3>1. I \subseteq DOMAIN r /\ IsSequence(r)
      BY SequencesAre
    <3> HIDE DEF I
    <3>2. ToSet(AtPlaces(r, I)) = {r[i] : i \in I}
      BY <3>1, FilteredSequence
    <3> QED
      BY <3>2 DEF I, Keep
  <2> QED
    BY <2>1, <2>2 DEF ToSet
<1> DEFINE W == ToSet(s) \cap V
<1>2. W \subseteq U
  BY SequencesAre
<1>3. ASSUME NEW r \in Seq(U), ToSet(r) = ToSet(s)
      PROVE  FirstsRead(U, Keep(r, V)) = UNION {NodesOf(x) : x \in W}
  <2> DEFINE k == Keep(r, V)
  <2>1. k \in Seq(U) /\ ToSet(k) = W
    BY <1>1, <1>3
  <2> HIDE DEF k, W
  <2>2. k \in Seq(ToSet(k))
    BY <2>1, SequencesAre DEF IsSequence
  <2>3. k \in Seq(W) /\ AgreeAmong(W)
    BY <2>1, <2>2 DEF W
  <2>4. FirstsRead(U, k) = UNION {NodesOf(x) : x \in ToSet(k)}
    BY <1>2, <2>3, ReadOfAgreeing
  <2> QED
    BY <2>1, <2>4 DEF k
<1> HIDE DEF W
<1>4. ASSUME NEW r \in Seq(U), ToSet(r) = ToSet(s)
      PROVE  FirstsRead(U, Keep(h \o r, V))
               = Merged(FirstsRead(U, Keep(h, V)), UNION {NodesOf(x) : x \in W})
  <2> DEFINE a == Keep(h, V)
             b == Keep(r, V)
  <2>1. a \in Seq(U) /\ b \in Seq(U)
    BY <1>1
  <2>2. Keep(h \o r, V) = a \o b
    BY KeepConcat
  <2>3. FirstsRead(U, b) = UNION {NodesOf(x) : x \in W}
    BY <1>3, <1>4
  <2> HIDE DEF a, b
  <2>4. ReadMerges(U, a, b)
    BY <2>1, ReadOfConcat
  <2> QED
    BY <2>2, <2>3, <2>4 DEF ReadMerges, a
<1> QED
  BY <1>4

\* Items in another order make the same evidence graph, unless two items of one
\* family are not equally sure of a line, and so the same claims.
LEMMA GraphsAlike ==
  ASSUME NEW event, IsSequence(event.priors), IsSequence(event.changed.files),
         NEW items, IsSequence(items), NEW other, IsSequence(other), ToSet(items) = ToSet(other), SureAlike(items)
  PROVE  EvidenceGraph(TelemetryOf(event, items)) = EvidenceGraph(TelemetryOf(event, other))
<1> DEFINE S == ToSet(items)
           M == SignalsOf(items)
           h == EventHead(event)
           U == ToSet(h) \cup M
           s == Map(SignalFun(S), items)
           t == Map(SignalFun(S), other)
<1>1. items \in Seq(S) /\ other \in Seq(S)
  BY DEF IsSequence
<1>2. SignalFun(S) \in [S -> M]
  BY DEF SignalFun, SignalsOf
<1>3. ASSUME NEW r \in Seq(S), ToSet(r) = S
      PROVE  Map(SignalFun(S), r) \in Seq(U) /\ ToSet(Map(SignalFun(S), r)) = M
  <2> DEFINE k == Map(SignalFun(S), r)
  <2>1. k \in Seq(M)
    <3> HIDE DEF S, M
    <3> QED
      BY <1>2, <1>3, MapType
  <2>2. k = [i \in 1..Len(r) |-> SignalOf(r[i])]
    <3>1. \A i \in 1..Len(r) : SignalFun(S)[r[i]] = SignalOf(r[i])
      <4>1. \A i \in 1..Len(r) : r[i] \in S
        BY <1>3
      <4> HIDE DEF S
      <4> QED
        BY <4>1 DEF SignalFun
    <3> QED
      BY <3>1 DEF Map
  <2>3. ToSet(k) = {SignalOf(r[i]) : i \in 1..Len(r)}
    BY <2>2 DEF ToSet
  <2>4. ToSet(r) = {r[i] : i \in 1..Len(r)}
    BY <1>3 DEF ToSet
  <2>5. M = {SignalOf(i) : i \in ToSet(r)}
    BY <1>3 DEF SignalsOf
  <2> HIDE DEF k, S, M
  <2>6. k \in Seq(U)
    BY <2>1
  <2>7. ToSet(k) = M
    BY <2>3, <2>4, <2>5
  <2> QED
    BY <2>6, <2>7 DEF k
<1>4. s \in Seq(U) /\ ToSet(s) = M /\ t \in Seq(U) /\ ToSet(t) = M
  <2> HIDE DEF M, U
  <2> QED
    BY <1>1, <1>3
<1>5. h \in Seq(U)
  <2> DEFINE H == ToSet(h)
  <2>1. h \in Seq(H)
    BY HeadIsSequence DEF IsSequence
  <2> HIDE DEF H, M, h
  <2>2. h \in Seq(H \cup M)
    BY <2>1
  <2> QED
    BY <2>2 DEF H
<1>6. TelemetryOf(event, items).signals = h \o s /\ TelemetryOf(event, other).signals = h \o t
  BY <1>1, SignalsAre
<1>l. Lined(U)
  <2> DEFINE signals == TelemetryOf(event, items).signals
  <2>1. \A x \in ToSet(signals) : IsSequence(x.lines)
    BY EventSignals DEF TelemetryOf
  <2>2. IsSequence(h) /\ IsSequence(s)
    BY <1>4, <1>5, SequencesAre
  <2> HIDE DEF h, s, U, M, signals
  <2>3. ToSet(h \o s) = ToSet(h) \cup ToSet(s)
    BY <2>2, Concatenated
  <2>4. ToSet(signals) = U
    BY <1>4, <1>6, <2>3 DEF signals, U
  <2> QED
    BY <2>1, <2>4 DEF Lined
<1> HIDE DEF S, s, t, h, U
<1>7. h \o s \in Seq(U) /\ h \o t \in Seq(U)
  BY <1>4, <1>5
<1>8. ASSUME NEW name \in GraphFamilies
      PROVE  FirstsRead(U, Keep(h \o s, OfFamily(U, name))) = FirstsRead(U, Keep(h \o t, OfFamily(U, name)))
  <2> DEFINE V == OfFamily(U, name)
  <2>1. M \cap V = OfFamily(M, name)
    BY DEF OfFamily, U
  <2>2. AgreeAmong(OfFamily(M, name))
    BY DEF SureAlike
  <2> HIDE DEF V, M
  <2>3. AgreeAmong(ToSet(s) \cap V)
    BY <1>4, <2>1, <2>2
  <2> QED
    BY <1>4, <1>5, <1>l, <2>3, ReadAfter DEF V
<1> HIDE DEF M
<1>9. ASSUME NEW z \in Seq(U)
      PROVE  FirstsRead(U, Graphed(U, z))
               = Merged(Merged(Merged(Merged(FirstsRead(U, Keep(z, OfFamily(U, "repository"))),
                                             FirstsRead(U, Keep(z, OfFamily(U, "change")))),
                                      FirstsRead(U, Keep(z, OfFamily(U, "test")))),
                               FirstsRead(U, Keep(z, OfFamily(U, "memory")))),
                        FirstsRead(U, Keep(z, OfFamily(U, "runtime"))))
  <2> DEFINE a == Keep(z, OfFamily(U, "repository"))
             b == Keep(z, OfFamily(U, "change"))
             c == Keep(z, OfFamily(U, "test"))
             d == Keep(z, OfFamily(U, "memory"))
             e == Keep(z, OfFamily(U, "runtime"))
  <2>1. a \in Seq(U) /\ b \in Seq(U) /\ c \in Seq(U) /\ d \in Seq(U) /\ e \in Seq(U)
    BY <1>9, KeepType
  <2>2. Graphed(U, z) = a \o b \o c \o d \o e
    BY DEF Graphed
  <2> HIDE DEF a, b, c, d, e
  <2>3. a \o b \in Seq(U) /\ a \o b \o c \in Seq(U) /\ a \o b \o c \o d \in Seq(U)
    BY <2>1
  <2>4. /\ ReadMerges(U, a, b) /\ ReadMerges(U, a \o b, c)
        /\ ReadMerges(U, a \o b \o c, d) /\ ReadMerges(U, a \o b \o c \o d, e)
    BY <1>l, <2>1, <2>3, ReadOfConcat
  <2>5. FirstsRead(U, a \o b) = Merged(FirstsRead(U, a), FirstsRead(U, b))
    BY <2>4, Zenon DEF ReadMerges
  <2>6. FirstsRead(U, a \o b \o c) = Merged(FirstsRead(U, a \o b), FirstsRead(U, c))
    BY <2>4, Zenon DEF ReadMerges
  <2>7. FirstsRead(U, a \o b \o c \o d) = Merged(FirstsRead(U, a \o b \o c), FirstsRead(U, d))
    BY <2>4, Zenon DEF ReadMerges
  <2>8. FirstsRead(U, a \o b \o c \o d \o e)
          = Merged(FirstsRead(U, a \o b \o c \o d), FirstsRead(U, e))
    BY <2>4, Zenon DEF ReadMerges
  <2> QED
    BY <2>2, <2>5, <2>6, <2>7, <2>8, Zenon DEF a, b, c, d, e
<1>10. FirstsRead(U, Graphed(U, h \o s)) = FirstsRead(U, Graphed(U, h \o t))
  <2> DEFINE u == h \o s
             v == h \o t
  <2>1. u \in Seq(U) /\ v \in Seq(U)
    BY <1>7
  <2>2. ASSUME NEW name \in GraphFamilies
        PROVE  FirstsRead(U, Keep(u, OfFamily(U, name))) = FirstsRead(U, Keep(v, OfFamily(U, name)))
    BY <1>8
  <2> HIDE DEF u, v
  <2>3. /\ "repository" \in GraphFamilies /\ "change" \in GraphFamilies /\ "test" \in GraphFamilies
        /\ "memory" \in GraphFamilies /\ "runtime" \in GraphFamilies
    BY DEF GraphFamilies
  <2>4. FirstsRead(U, Graphed(U, u)) = FirstsRead(U, Graphed(U, v))
    BY <1>9, <2>1, <2>2, <2>3, Zenon
  <2> QED
    BY <2>4 DEF u, v
<1>11. EvidenceGraph(TelemetryOf(event, items)) = FirstsRead(U, Graphed(U, h \o s))
  <2> DEFINE b == TelemetryOf(event, items)
  <2>1. b.signals \in Seq(U)
    BY <1>6, <1>7
  <2> HIDE DEF b
  <2>2. EvidenceGraph(b) = FirstsRead(U, Graphed(U, b.signals))
    BY <2>1, GraphIs
  <2> QED
    BY <1>6, <2>2 DEF b
<1>12. EvidenceGraph(TelemetryOf(event, other)) = FirstsRead(U, Graphed(U, h \o t))
  <2> DEFINE b == TelemetryOf(event, other)
  <2>1. b.signals \in Seq(U)
    BY <1>6, <1>7
  <2> HIDE DEF b
  <2>2. EvidenceGraph(b) = FirstsRead(U, Graphed(U, b.signals))
    BY <2>1, GraphIs
  <2> QED
    BY <1>6, <2>2 DEF b
<1> QED
  BY <1>10, <1>11, <1>12

\* What the rest of the assessment reads of the telemetry is the same.
LEMMA TelemetryAlike ==
  ASSUME NEW event, IsSequence(event.priors), NEW items, IsSequence(items),
         NEW other, IsSequence(other), ToSet(items) = ToSet(other)
  PROVE  /\ ToSet(TelemetryOf(event, items).signals) = ToSet(TelemetryOf(event, other).signals)
         /\ TelemetryOf(event, items).diagnostics = TelemetryOf(event, other).diagnostics
<1> DEFINE S == ToSet(items)
           h == EventHead(event)
           Sig(r) == [i \in 1..Len(r) |-> SignalOf(r[i])]
           M == {SignalOf(i) : i \in S}
<1>1. ASSUME NEW r, IsSequence(r), ToSet(r) = S
      PROVE  /\ IsSequence(Sig(r)) /\ ToSet(Sig(r)) = M
             /\ TelemetryOf(event, r).signals = h \o Sig(r)
  <2>1. DOMAIN r = 1..Len(r) /\ Len(r) \in Nat
    BY <1>1, DomainOfSequence
  <2> DEFINE k == Sig(r)
  <2>2. k = [i \in 1..Len(r) |-> k[i]]
    OBVIOUS
  <2>3. IsSequence(k) /\ ToSet(k) = {k[i] : i \in 1..Len(r)}
    <3> HIDE DEF k
    <3> QED
      BY <2>1, <2>2, Tabulated
  <2>4. ToSet(r) = {r[i] : i \in 1..Len(r)}
    BY <2>1 DEF ToSet
  <2>5. {k[i] : i \in 1..Len(r)} = {SignalOf(x) : x \in ToSet(r)}
    <3>1. \A i \in 1..Len(r) : k[i] = SignalOf(r[i])
      OBVIOUS
    <3> HIDE DEF k
    <3> QED
      BY <2>4, <3>1
  <2>6. TelemetryOf(event, r).signals = h \o Sig(r)
    <3>1. r \in Seq(S)
      BY <1>1 DEF IsSequence
    <3>2. \A i \in 1..Len(r) : r[i] \in S
      BY <3>1
    <3>3. Map(SignalFun(S), r) = Sig(r)
      <4> HIDE DEF S
      <4>1. \A i \in 1..Len(r) : SignalFun(S)[r[i]] = SignalOf(r[i])
        BY <3>2 DEF SignalFun
      <4> QED
        BY <4>1 DEF Map
    <3>4. TelemetryOf(event, r).signals = EventHead(event) \o Map(SignalFun(S), r)
      <4> HIDE DEF S
      <4> QED
        BY <3>1, SignalsAre
    <3> QED
      BY <3>3, <3>4
  <2> QED
    BY <1>1, <2>3, <2>5, <2>6
<1>2. IsSequence(h)
  BY HeadIsSequence
<1>3. ASSUME NEW r, IsSequence(r), ToSet(r) = S
      PROVE  ToSet(TelemetryOf(event, r).signals) = ToSet(h) \cup M
  <2> DEFINE k == Sig(r)
  <2>1. IsSequence(k) /\ ToSet(k) = M /\ TelemetryOf(event, r).signals = h \o k
    BY <1>1, <1>3
  <2> HIDE DEF h, k, M, S
  <2>2. ToSet(h \o k) = ToSet(h) \cup ToSet(k)
    BY <1>2, <2>1, Concatenated
  <2> QED
    BY <2>1, <2>2
<1>4. ASSUME NEW r, IsSequence(r), ToSet(r) = S
      PROVE  DiagnosticsOf(Sig(r)) = {NotPresent(x) : x \in {y \in M : y.status # "present"}}
  <2>1. ToSet(Sig(r)) = M
    BY <1>1, <1>4
  <2> DEFINE k == Sig(r)
  <2> HIDE DEF k, M
  <2> QED
    BY <2>1 DEF DiagnosticsOf, ToSet, k
<1>5. DiagnosticsOf(Sig(items)) = DiagnosticsOf(Sig(other))
  BY <1>4
<1>6. ASSUME NEW r
      PROVE  TelemetryOf(event, r).diagnostics
               = DiagnosticsOf(Sig(r)) \cup
                   IF ReadStatus(event.repoStatus) = "present" THEN {}
                   ELSE {[severity |-> IF ReadStatus(event.repoStatus) = "failed" THEN "warning" ELSE "info",
                          family |-> "repository", source |-> "repoSignals",
                          about |-> "repo_summary"]}
  BY DEF TelemetryOf, TelemetryFromEvent, TelemetryFromEvidence
<1>7. TelemetryOf(event, items).diagnostics = TelemetryOf(event, other).diagnostics
  <2> HIDE DEF Sig
  <2> QED
    BY <1>5, <1>6
<1> QED
  BY <1>3, <1>7

-----------------------------------------------------------------------------
\* Every entry of one baseline is read as one of the other.
CoveredBy(B, C, quoted) == \A c \in B : \E d \in C : EntriesAlike(c, d, quoted)
SameEntries(B, C, quoted) == CoveredBy(B, C, quoted) /\ CoveredBy(C, B, quoted)

\* Reading alike is symmetric.
LEMMA AlikeBothWays ==
  ASSUME NEW c, NEW d, NEW quoted, EntriesAlike(c, d, quoted)
  PROVE  EntriesAlike(d, c, quoted)
<1>1. ASSUME NEW f, NEW g, AlikeFacts(f, g) PROVE AlikeFacts(g, f)
  BY <1>1 DEF AlikeFacts
<1>2. ReadAlike(c, d)
  BY DEF EntriesAlike
<1>3. SameReading(d.facts, c.facts)
  BY <1>1, <1>2 DEF ReadAlike, SameReading
<1>4. ReadAlike(d, c)
  BY <1>2, <1>3 DEF ReadAlike
<1> QED
  BY <1>4 DEF EntriesAlike

\* No entry has more lines than its fact quotes.
FewLinesOf(B, matches) ==
  \A c \in B : Quotable(DraftOf(matches, c.concern))

\* In well made baselines that are alike the entries are the same, both ways.
LEMMA EntriesAreSame ==
  ASSUME NEW B, NEW C, NEW matches, BaselinesAlike(B, C, matches), WellMade(ToSet(C))
  PROVE  SameEntries(ToSet(B), ToSet(C), FewLinesOf(ToSet(B), matches))
<1> DEFINE few == FewLinesOf(ToSet(B), matches)
<1>1. ASSUME NEW c \in ToSet(B) PROVE \E d \in ToSet(C) : EntriesAlike(c, d, few)
  <2> DEFINE fewer == Quotable(DraftOf(matches, c.concern))
  <2>1. PICK d \in ToSet(C) : EntriesAlike(c, d, fewer)
    BY DEF BaselinesAlike
  <2>2. few => fewer
    BY DEF FewLinesOf
  <2> HIDE DEF few, fewer
  <2> QED
    BY <2>1, <2>2 DEF EntriesAlike
<1> HIDE DEF few
<1>2. ASSUME NEW d \in ToSet(C) PROVE \E c \in ToSet(B) : EntriesAlike(d, c, few)
  <2>1. PICK c \in ToSet(B) : c.concern = d.concern
    BY DEF BaselinesAlike
  <2>2. PICK e \in ToSet(C) : EntriesAlike(c, e, few)
    BY <1>1
  <2>3. e.concern = d.concern
    BY <2>1, <2>2 DEF EntriesAlike, ReadAlike
  <2>4. e = d
    BY <2>3 DEF WellMade
  <2> QED
    BY <2>2, <2>4, AlikeBothWays
<1> QED
  BY <1>1, <1>2 DEF SameEntries, CoveredBy, few

-----------------------------------------------------------------------------
\* A fact is as worth a question as one that is alike.
SameScore(f, g, c, d, t1, t2) ==
  /\ ShouldAskAboutFact(f) <=> ShouldAskAboutFact(g)
  /\ ScoreFact(f, c, t1) = ScoreFact(g, d, t2)

\* Alike facts of entries with one set of thresholds score the same against the
\* same signals.
LEMMA ScoresAlike ==
  ASSUME NEW f, NEW g, AlikeFacts(f, g), NEW c, NEW d, c.thresholds = d.thresholds,
         NEW t1, NEW t2, ToSet(t1.signals) = ToSet(t2.signals)
  PROVE  SameScore(f, g, c, d, t1, t2)
<1>1. /\ f.concern = g.concern /\ f.confidence = g.confidence /\ f.freshness = g.freshness
      /\ Keys(f.sources) = Keys(g.sources)
  BY DEF AlikeFacts
<1>2. ShouldAskAboutFact(f) <=> ShouldAskAboutFact(g)
  BY <1>1 DEF ShouldAskAboutFact, Inferred
<1> DEFINE Related(x, signal) == \E s \in x.sources :
             \/ s.source = signal.source
             \/ signal.family \notin {"lifecycle", "memory"} /\ s.category = signal.category
           Anyhow(x, t) == \E i \in DOMAIN t.signals : Related(x, t.signals[i])
           Some(x, t) == \E signal \in ToSet(t.signals) : Related(x, signal)
           confidence == [low |-> 30, medium |-> 20, high |-> 0]
<1>3. ASSUME NEW x, NEW y, Keys(x.sources) = Keys(y.sources), NEW signal, Related(x, signal)
      PROVE  Related(y, signal)
  <2>1. PICK s \in x.sources :
          \/ s.source = signal.source
          \/ signal.family \notin {"lifecycle", "memory"} /\ s.category = signal.category
    BY <1>3
  <2>2. <<s.source, s.category, s.status>> \in Keys(y.sources)
    BY <1>3 DEF Keys
  <2>3. PICK r \in y.sources : <<s.source, s.category, s.status>> = <<r.source, r.category, r.status>>
    BY <2>2 DEF Keys
  <2>4. s.source = r.source /\ s.category = r.category
    BY <2>3
  <2> QED
    BY <2>1, <2>4
<1>4. \A x, t : Anyhow(x, t) <=> Some(x, t)
  <2> HIDE DEF Related
  <2> QED
    BY DEF ToSet
<1>5. Some(f, t1) <=> Some(g, t2)
  <2>1. \A signal : Related(f, signal) <=> Related(g, signal)
    BY <1>1, <1>3
  <2> HIDE DEF Related
  <2> QED
    BY <2>1
<1>6. Anyhow(f, t1) <=> Anyhow(g, t2)
  <2> HIDE DEF Anyhow, Some
  <2> QED
    BY <1>4, <1>5
<1>7. ASSUME NEW x, NEW y, NEW t
      PROVE  ScoreFact(x, y, t)
               = ConcernPriority[x.concern] + confidence[x.confidence]
                   + (IF x.confidence = "low" THEN 25 ELSE 0)
                   + (IF x.freshness = "stale" THEN 15 ELSE 0)
                   + Cardinality(y.thresholds) * 6 + (IF Anyhow(x, t) THEN 4 ELSE 0)
  BY DEF ScoreFact, Inferred
<1> HIDE DEF Anyhow, confidence
<1>8. ScoreFact(f, c, t1) = ScoreFact(g, d, t2)
  BY <1>1, <1>6, <1>7
<1> QED
  BY <1>2, <1>8 DEF SameScore

\* So what is asked about the facts of one baseline is asked about the other's.
LEMMA FactQuestionsCovered ==
  ASSUME NEW b1, NEW b2, NEW quoted, CoveredBy(ToSet(b1), ToSet(b2), quoted),
         NEW t1, NEW t2, ToSet(t1.signals) = ToSet(t2.signals), NEW claims
  PROVE  FactQuestions(b1, t1, claims) \subseteq FactQuestions(b2, t2, claims)
<1> SUFFICES ASSUME NEW q \in FactQuestions(b1, t1, claims)
             PROVE  q \in FactQuestions(b2, t2, claims)
  OBVIOUS
<1> DEFINE Q(f, c, t) == [kind |-> "fact", concern |-> c.concern, about |-> <<"fact">>,
                          score |-> ScoreFact(f, c, t)]
<1>1. ASSUME NEW b, NEW t
      PROVE  FactQuestions(b, t, claims)
               = UNION {{Q(f, c, t) : f \in {g \in c.facts : ShouldAskAboutFact(g)}} :
                        c \in {d \in ToSet(b) : ~SuppressedByClaim(d.concern, claims)}}
  BY DEF FactQuestions
<1> HIDE DEF Q
<1>2. PICK c \in ToSet(b1) :
        /\ ~SuppressedByClaim(c.concern, claims)
        /\ \E f \in c.facts : ShouldAskAboutFact(f) /\ q = Q(f, c, t1)
  BY <1>1
<1>3. PICK f \in c.facts : ShouldAskAboutFact(f) /\ q = Q(f, c, t1)
  BY <1>2
<1>4. PICK d \in ToSet(b2) : EntriesAlike(c, d, quoted)
  BY DEF CoveredBy
<1>5. c.concern = d.concern /\ c.thresholds = d.thresholds /\ SameReading(c.facts, d.facts)
  BY <1>4 DEF EntriesAlike, ReadAlike
<1>6. PICK g \in d.facts : AlikeFacts(f, g)
  BY <1>5 DEF SameReading
<1>7. SameScore(f, g, c, d, t1, t2)
  BY <1>5, <1>6, ScoresAlike
<1>8. ShouldAskAboutFact(g) /\ q = Q(g, d, t2)
  BY <1>3, <1>5, <1>7 DEF SameScore, Q
<1>9. ~SuppressedByClaim(d.concern, claims)
  BY <1>2, <1>5
<1> QED
  BY <1>1, <1>8, <1>9

\* Neither baseline has a fact, or both have.
LEMMA FactsOfSame ==
  ASSUME NEW b1, NEW b2, NEW quoted, SameEntries(ToSet(b1), ToSet(b2), quoted)
  PROVE  Facts(b1) = {} <=> Facts(b2) = {}
<1>1. \A c, d : EntriesAlike(c, d, quoted) => (c.facts = {} <=> d.facts = {})
  BY DEF EntriesAlike, ReadAlike, SameReading
<1>2. ASSUME NEW b PROVE Facts(b) = {} <=> \A c \in ToSet(b) : c.facts = {}
  BY DEF Facts, ToSet
<1> QED
  BY <1>1, <1>2 DEF SameEntries, CoveredBy

\* The interview does not depend on the order.
LEMMA QuestionsAlike ==
  ASSUME NEW b1, NEW b2, NEW quoted, SameEntries(ToSet(b1), ToSet(b2), quoted),
         NEW t1, NEW t2, ToSet(t1.signals) = ToSet(t2.signals), t1.diagnostics = t2.diagnostics,
         NEW claims, NEW context
  PROVE  PlanQuestions(b1, t1, claims, context) = PlanQuestions(b2, t2, claims, context)
<1>1. FactQuestions(b1, t1, claims) = FactQuestions(b2, t2, claims)
  <2>1. FactQuestions(b1, t1, claims) \subseteq FactQuestions(b2, t2, claims)
    BY FactQuestionsCovered DEF SameEntries
  <2>2. FactQuestions(b2, t2, claims) \subseteq FactQuestions(b1, t1, claims)
    BY FactQuestionsCovered DEF SameEntries
  <2> QED
    BY <2>1, <2>2
<1>2. Facts(b1) = {} <=> Facts(b2) = {}
  BY FactsOfSame
<1>3. SignalQuestions(b1, t1) = SignalQuestions(b2, t2)
  BY <1>2 DEF SignalQuestions
<1>4. LowSignalGreenfield(b1, t1) <=> LowSignalGreenfield(b2, t2)
  <2>1. ASSUME NEW t
        PROVE  (\A i \in DOMAIN t.signals : t.signals[i].status # "present")
                 <=> \A s \in ToSet(t.signals) : s.status # "present"
    BY DEF ToSet
  <2> QED
    BY <1>2, <2>1 DEF LowSignalGreenfield
<1> DEFINE Candidates(b, t) == FactQuestions(b, t, claims) \cup SignalQuestions(b, t) \cup ClaimQuestions(claims)
           Asked(S) == CHOOSE h : h = [n \in 0..DefaultQuestionLimit |->
                                         IF n = 0 THEN <<>> ELSE AskNext(S, h[n - 1])]
<1>5. ASSUME NEW b, NEW t
      PROVE  PlanQuestions(b, t, claims, context)
               = IF context = "passive_baseline" \/ LowSignalGreenfield(b, t) THEN <<>>
                 ELSE Asked(Candidates(b, t))[DefaultQuestionLimit]
  BY Zenon DEF PlanQuestions
<1>6. Candidates(b1, t1) = Candidates(b2, t2)
  BY <1>1, <1>3
<1> HIDE DEF Candidates, Asked
<1> QED
  BY <1>4, <1>5, <1>6

-----------------------------------------------------------------------------
(***************************************************************************)
(* Baselines whose entries read the same, with all their text.             *)
(***************************************************************************)
Twins(c, d) == EntriesAlike(c, d, TRUE)

\* A baseline as ConcernOf makes its entries.
IsBaseline(b) ==
  IsSequence(b) /\ WellMade(ToSet(b)) /\ \A c \in ToSet(b) : c.concern \in Concerns

\* Baselines that an order of the evidence may exchange for one another.
Interchangeable(b1, b2) ==
  IsBaseline(b1) /\ IsBaseline(b2) /\ SameEntries(ToSet(b1), ToSet(b2), TRUE)

\* Being interchangeable is symmetric.
LEMMA OtherWay ==
  ASSUME NEW b1, NEW b2, Interchangeable(b1, b2)
  PROVE  Interchangeable(b2, b1)
BY DEF Interchangeable, SameEntries

\* What the policy looks at is the same for twins.
LEMMA TwinsShare ==
  ASSUME NEW c, NEW d, Twins(c, d)
  PROVE  /\ c.concern = d.concern /\ c.confidence = d.confidence
         /\ c.thresholds = d.thresholds /\ c.state = d.state
         /\ c.adequacy = d.adequacy /\ TextOf(c.facts) = TextOf(d.facts)
         /\ SameReading(c.facts, d.facts) /\ (c.facts = {} <=> d.facts = {})
BY DEF Twins, EntriesAlike, ReadAlike, SameReading

\* Every entry has a twin, which is the entry of its concern.
LEMMA TwinOf ==
  ASSUME NEW b1, NEW b2, Interchangeable(b1, b2), NEW c \in ToSet(b1)
  PROVE  /\ \E d \in ToSet(b2) : Twins(c, d)
         /\ \A d \in ToSet(b2) : d.concern = c.concern => Twins(c, d)
<1>1. PICK e \in ToSet(b2) : Twins(c, e)
  BY DEF Interchangeable, SameEntries, CoveredBy, Twins
<1>2. e.concern = c.concern
  BY <1>1, TwinsShare
<1> QED
  BY <1>1, <1>2 DEF Interchangeable, IsBaseline, WellMade

-----------------------------------------------------------------------------
\* Twins are behind alike, so what a debt raises is the same.
LEMMA DebtAlertsAlike ==
  ASSUME NEW b1, NEW b2, Interchangeable(b1, b2), NEW decision
  PROVE  AdequacyAlerts(decision, b1) = AdequacyAlerts(decision, b2)
<1> DEFINE x == decision.concern
           c1 == BehindOn(x, b1)
           c2 == BehindOn(x, b2)
<1>1. ASSUME NEW b, NEW r, Interchangeable(b, r), BehindOn(x, b) # <<>>
      PROVE  /\ BehindOn(x, r) # <<>>
             /\ Head(BehindOn(x, b)).adequacy = Head(BehindOn(x, r)).adequacy
  <2>1. IsBaseline(b) /\ IsBaseline(r)
    BY <1>1 DEF Interchangeable
  <2>2. PICK c \in ToSet(b) : /\ c.concern = x /\ c.adequacy.status = "under_structured"
                              /\ c = Head(BehindOn(x, b))
    BY <1>1, <2>1, TheOneBehind DEF IsBaseline
  <2>3. PICK d \in ToSet(r) : Twins(c, d)
    BY <1>1, TwinOf
  <2>4. d.concern = x /\ d.adequacy = c.adequacy
    BY <2>2, <2>3, TwinsShare
  <2>5. BehindOn(x, r) # <<>> /\ d = Head(BehindOn(x, r))
    BY <2>1, <2>2, <2>4, TheOneBehind DEF IsBaseline
  <2> QED
    BY <2>2, <2>4, <2>5
<1>2. Interchangeable(b2, b1)
  BY OtherWay
<1>3. /\ c1 = <<>> <=> c2 = <<>>
      /\ c1 # <<>> => Head(c1).adequacy = Head(c2).adequacy
  BY <1>1, <1>2
<1> DEFINE Raised(now) ==
             (IF PressureRank[now.pressure] > PressureRank[decision.pressure]
              THEN << Alert(decision, "pressure increased", decision.adviceStatus = "handled") >>
              ELSE <<>>)
               \o IF SupportRank[now.support] < SupportRank[decision.support]
                  THEN << Alert(decision, "support weakened", decision.adviceStatus = "handled") >>
                  ELSE <<>>
<1>4. ASSUME NEW b
      PROVE  AdequacyAlerts(decision, b)
               = IF \/ decision.kind # "accepted_debt" \/ decision.concern \notin Concerns
                    \/ decision.adviceStatus = "superseded" \/ BehindOn(x, b) = <<>>
                 THEN <<>> ELSE Raised(Head(BehindOn(x, b)).adequacy)
  BY DEF AdequacyAlerts
<1> HIDE DEF Raised, c1, c2
<1> QED
  BY <1>3, <1>4 DEF c1, c2

\* The alerts of two baselines, from the same evidence of today.
LEMMA AlertsAlike ==
  ASSUME NEW b1, NEW b2, Interchangeable(b1, b2),
         NEW t1, NEW t2, ToSet(t1.signals) = ToSet(t2.signals), NEW event, NEW memory
  PROVE  CheckRevisit(event, memory, t1, b1) = CheckRevisit(event, memory, t2, b2)
<1> DEFINE all == memory \o event.priors
           decisions == AtPlaces(all, {i \in DOMAIN all : all[i].revisitIf # <<>>})
           Raised(t, b) == FlattenSeq([i \in DOMAIN decisions |->
                             ConditionAlerts(decisions[i], CurrentEvidence(event, t))
                               \o AdequacyAlerts(decisions[i], b)])
           Once(alerts) == AtPlaces(alerts,
             {i \in DOMAIN alerts : ~\E j \in 1..(i - 1) :
                alerts[j].decision = alerts[i].decision /\ alerts[j].condition = alerts[i].condition})
<1>1. CurrentEvidence(event, t1) = CurrentEvidence(event, t2)
  <2>1. ASSUME NEW t
        PROVE  {ToSet(t.signals[i].lines) :
                  i \in {j \in DOMAIN t.signals :
                           t.signals[j].family \notin {"lifecycle", "memory"}}}
                 = {ToSet(s.lines) : s \in {r \in ToSet(t.signals) : r.family \notin {"lifecycle", "memory"}}}
    BY DEF ToSet
  <2> QED
    BY <2>1 DEF CurrentEvidence
<1>2. \A decision : AdequacyAlerts(decision, b1) = AdequacyAlerts(decision, b2)
  BY DebtAlertsAlike
<1>3. \A t, b : CheckRevisit(event, memory, t, b) = Once(Raised(t, b))
  BY DEF CheckRevisit
<1> HIDE DEF Once, decisions
<1>4. Raised(t1, b1) = Raised(t2, b2)
  BY <1>1, <1>2
<1> HIDE DEF Raised
<1> QED
  BY <1>3, <1>4

-----------------------------------------------------------------------------
\* Twins are advised the same principles and patterns.
LEMMA GuidanceOfTwins ==
  ASSUME NEW c, NEW d, Twins(c, d)
  PROVE  Principles(c) = Principles(d) /\ Patterns(c) = Patterns(d)
<1>1. /\ c.concern = d.concern /\ c.confidence = d.confidence
      /\ c.thresholds = d.thresholds /\ c.state = d.state
      /\ TextOf(c.facts) = TextOf(d.facts) /\ SameReading(c.facts, d.facts)
  BY TwinsShare
<1>2. Principles(c) = Principles(d)
  BY <1>1 DEF Principles
<1>3. /\ (\E f \in c.facts : f.confidence = "low" \/ f.freshness # "current")
           <=> (\E f \in d.facts : f.confidence = "low" \/ f.freshness # "current")
      /\ (\E f \in c.facts : f.confidence = "high") <=> (\E f \in d.facts : f.confidence = "high")
  BY <1>1 DEF SameReading, AlikeFacts
<1>4. GuidanceConfidence(c) = GuidanceConfidence(d)
  BY <1>1, <1>3 DEF GuidanceConfidence
<1>5. ConcernPatterns(c) = ConcernPatterns(d)
  BY <1>1, <1>4 DEF ConcernPatterns
<1>6. Patterns(c) = Patterns(d)
  BY <1>1, <1>2, <1>4, <1>5 DEF Patterns
<1> QED
  BY <1>2, <1>6

\* Interchangeable baselines have the same principle guidance.
LEMMA GuidanceAlike ==
  ASSUME NEW b1, NEW b2, Interchangeable(b1, b2)
  PROVE  PrincipleGuidance(b1) = PrincipleGuidance(b2)
<1>1. ASSUME NEW b, NEW r, Interchangeable(b, r), NEW g \in PrincipleGuidance(b)
      PROVE  g \in PrincipleGuidance(r)
  <2>1. PICK c \in ToSet(b) :
          /\ c.facts # {} /\ Principles(c) # {}
          /\ g = [concern |-> c.concern, principles |-> Principles(c), patterns |-> Patterns(c)]
    BY <1>1 DEF PrincipleGuidance
  <2>2. PICK d \in ToSet(r) : Twins(c, d)
    BY <1>1, TwinOf
  <2>3. c.concern = d.concern /\ Principles(c) = Principles(d) /\ Patterns(c) = Patterns(d) /\ d.facts # {}
    BY <2>1, <2>2, TwinsShare, GuidanceOfTwins
  <2> QED
    BY <2>1, <2>3 DEF PrincipleGuidance
<1>2. Interchangeable(b2, b1)
  BY OtherWay
<1> QED
  BY <1>1, <1>2

-----------------------------------------------------------------------------
(***************************************************************************)
(* The rules of the policy on interchangeable baselines.                   *)
(***************************************************************************)
SameEntry(S, T) ==
  /\ S = {} <=> T = {}
  /\ S # {} => The(S).concern = The(T).concern /\ The(S).confidence = The(T).confidence
                 /\ The(S).thresholds = The(T).thresholds

\* The entry of a concern, if it has one.
LEMMA EntriesOfConcern ==
  ASSUME NEW b1, NEW b2, Interchangeable(b1, b2), NEW concern
  PROVE  SameEntry(Entry(ToSet(b1), concern), Entry(ToSet(b2), concern))
<1> DEFINE S == Entry(ToSet(b1), concern)
           T == Entry(ToSet(b2), concern)
<1>1. ASSUME NEW b, NEW r, Interchangeable(b, r), NEW c \in Entry(ToSet(b), concern)
      PROVE  \E d \in Entry(ToSet(r), concern) : Twins(c, d)
  <2>1. c \in ToSet(b) /\ c.concern = concern
    BY DEF Entry
  <2>2. PICK d \in ToSet(r) : Twins(c, d)
    BY <1>1, <2>1, TwinOf
  <2>3. d.concern = concern
    BY <2>1, <2>2, TwinsShare
  <2> QED
    BY <2>2, <2>3 DEF Entry
<1>2. Interchangeable(b2, b1)
  BY OtherWay
<1>3. S = {} <=> T = {}
  BY <1>1, <1>2
<1>4. \A d, e \in T : d = e
  BY DEF Interchangeable, IsBaseline, WellMade, Entry
<1>5. ASSUME NEW c \in S, NEW d \in T PROVE Twins(c, d)
  BY <1>1, <1>4
<1>6. S # {} => The(S) \in S
  BY DEF The
<1>7. T # {} => The(T) \in T
  BY DEF The
<1> HIDE DEF S, T
<1> QED
  BY <1>3, <1>5, <1>6, <1>7, TwinsShare DEF SameEntry, S, T

\* Interchangeable baselines have the same explicit risk.
LEMMA RisksAlike ==
  ASSUME NEW b1, NEW b2, Interchangeable(b1, b2)
  PROVE  SameEntry(ExplicitRisk(b1), ExplicitRisk(b2))
<1> DEFINE Raised(f) == \E s \in f.sources : s.category \in {"changed_file_spread", "diagnostic"}
<1>1. ASSUME NEW f, NEW g, AlikeFacts(f, g), Raised(f) PROVE Raised(g)
  <2>1. PICK s \in f.sources : s.category \in {"changed_file_spread", "diagnostic"}
    BY <1>1
  <2>2. <<s.source, s.category, s.status>> \in Keys(g.sources)
    BY <1>1 DEF AlikeFacts, Keys
  <2>3. PICK t \in g.sources : <<s.source, s.category, s.status>> = <<t.source, t.category, t.status>>
    BY <2>2 DEF Keys
  <2>4. t.category = s.category
    BY <2>3
  <2> QED
    BY <2>1, <2>4
<1>2. ASSUME NEW b
      PROVE  ExplicitRisk(b) = {c \in ToSet(b) : /\ c.concern = "risk_hotspot"
                                                 /\ "blast_radius" \in c.thresholds
                                                 /\ \E f \in c.facts : Raised(f)}
  BY DEF ExplicitRisk, Entry
<1> HIDE DEF Raised
<1>3. ASSUME NEW b, NEW r, Interchangeable(b, r), NEW c \in ExplicitRisk(b)
      PROVE  \E d \in ExplicitRisk(r) : Twins(c, d)
  <2>1. /\ c \in ToSet(b) /\ c.concern = "risk_hotspot" /\ "blast_radius" \in c.thresholds
        /\ \E f \in c.facts : Raised(f)
    BY <1>2, <1>3
  <2>2. PICK d \in ToSet(r) : Twins(c, d)
    BY <1>3, <2>1, TwinOf
  <2>3. d.concern = c.concern /\ d.thresholds = c.thresholds /\ SameReading(c.facts, d.facts)
    BY <2>2, TwinsShare
  <2>4. \E f \in d.facts : Raised(f)
    BY <1>1, <2>1, <2>3 DEF SameReading
  <2> QED
    BY <1>2, <2>1, <2>2, <2>3, <2>4
<1>4. Interchangeable(b2, b1)
  BY OtherWay
<1> DEFINE S == ExplicitRisk(b1)
           T == ExplicitRisk(b2)
<1>5. S = {} <=> T = {}
  BY <1>3, <1>4
<1>6. \A d, e \in T : d = e
  BY <1>2 DEF Interchangeable, IsBaseline, WellMade
<1>7. ASSUME NEW c \in S, NEW d \in T PROVE Twins(c, d)
  BY <1>3, <1>6
<1>8. S # {} => The(S) \in S
  BY DEF The
<1>9. T # {} => The(T) \in T
  BY DEF The
<1> HIDE DEF S, T
<1> QED
  BY <1>5, <1>7, <1>8, <1>9, TwinsShare DEF SameEntry, S, T

\* The rank of an under-structured concern tells which one it is.
LEMMA RankTellsConcern ==
  ASSUME NEW c, c.concern \in Concerns, c.confidence \in Levels,
         NEW d, d.concern \in Concerns, d.confidence \in Levels,
         AdequacyRank(c) = AdequacyRank(d)
  PROVE  c.concern = d.concern
<1> DEFINE text == [medium |-> 2, low |-> 1, high |-> 0]
           p == AdequacyPriority(c.concern)
           q == AdequacyPriority(d.concern)
           s == text[c.confidence]
           t == text[d.confidence]
           n == NameRank(c.concern)
           m == NameRank(d.concern)
<1>1. p \in 0..4 /\ q \in 0..4
  BY DEF AdequacyPriority
<1>2. s \in 0..2 /\ t \in 0..2
  BY DEF Levels
<1>3. n \in 1..14 /\ m \in 1..14
  BY NameRankIsPlace
<1>4. 100 * p + 20 * s - n = 100 * q + 20 * t - m
  BY DEF AdequacyRank
<1> HIDE DEF p, q, s, t, n, m
<1>5. n = m
  BY <1>1, <1>2, <1>3, <1>4
<1>6. \A x \in Concerns : NameOrder[NameRank(x)] = x
  <2>1. \A x \in Concerns : \E i \in DOMAIN NameOrder : NameOrder[i] = x
    BY DEF NameOrder, Concerns
  <2> HIDE DEF NameOrder
  <2> QED
    BY <2>1 DEF NameRank
<1> QED
  BY <1>5, <1>6 DEF n, m

\* The most urgent of two sets of entries are twins.
SameUrgency(S, T) ==
  /\ S = {} <=> T = {}
  /\ S # {} => Twins(MostUrgent(S), MostUrgent(T))

\* Interchangeable baselines have the same most urgent under-structured concern:
\* the rank of an entry tells its concern.
LEMMA UrgencyAlike ==
  ASSUME NEW b1, NEW b2, Interchangeable(b1, b2)
  PROVE  SameUrgency(UnderStructured(b1), UnderStructured(b2))
<1>1. ASSUME NEW b, NEW r, Interchangeable(b, r), NEW c \in UnderStructured(b)
      PROVE  \E d \in UnderStructured(r) : Twins(c, d)
  <2>1. /\ c \in ToSet(b) /\ c.concern \in Concerns \ {"risk_hotspot"}
        /\ c.adequacy.status = "under_structured"
    BY <1>1 DEF UnderStructured
  <2>2. PICK d \in ToSet(r) : Twins(c, d)
    BY <1>1, <2>1, TwinOf
  <2>3. d.concern = c.concern /\ d.adequacy = c.adequacy
    BY <2>2, TwinsShare
  <2> QED
    BY <2>1, <2>2, <2>3 DEF UnderStructured
<1>2. Interchangeable(b2, b1)
  BY OtherWay
<1> DEFINE S == UnderStructured(b1)
           T == UnderStructured(b2)
<1>3. S = {} <=> T = {}
  BY <1>1, <1>2
<1>4. ASSUME NEW b, IsBaseline(b), NEW c \in UnderStructured(b)
      PROVE  c \in ToSet(b) /\ c.concern \in Concerns /\ c.confidence \in Levels
  BY <1>4 DEF UnderStructured, IsBaseline, WellMade
<1>5. /\ \A c \in S : c \in ToSet(b1) /\ c.concern \in Concerns /\ c.confidence \in Levels
      /\ \A c \in T : c \in ToSet(b2) /\ c.concern \in Concerns /\ c.confidence \in Levels
  BY <1>4 DEF Interchangeable
<1>6. ASSUME NEW c, NEW d, Twins(c, d) PROVE AdequacyRank(c) = AdequacyRank(d)
  BY <1>6, TwinsShare DEF AdequacyRank
<1>7. \A c \in S : \E d \in T : Twins(c, d)
  BY <1>1
<1>8. \A d \in T : \E c \in S : Twins(d, c)
  BY <1>1, <1>2
<1> HIDE DEF S, T
<1>9. ASSUME S # {} PROVE Twins(MostUrgent(S), MostUrgent(T))
  <2> DEFINE u == MostUrgent(S)
             v == MostUrgent(T)
  <2>1. u \in S /\ \A c \in S : AdequacyRank(c) <= AdequacyRank(u)
    BY <1>5, <1>9, MostUrgentIsOneOfThem
  <2>2. v \in T /\ \A d \in T : AdequacyRank(d) <= AdequacyRank(v)
    BY <1>3, <1>5, <1>9, MostUrgentIsOneOfThem
  <2> HIDE DEF u, v
  <2>3. AdequacyRank(u) <= AdequacyRank(v)
    BY <1>6, <1>7, <2>1, <2>2
  <2>4. AdequacyRank(v) <= AdequacyRank(u)
    BY <1>6, <1>8, <2>1, <2>2
  <2>5. AdequacyRank(u) \in -14..439 /\ AdequacyRank(v) \in -14..439
    BY <1>5, <2>1, <2>2, AdequacyRankIsBounded
  <2>6. AdequacyRank(u) = AdequacyRank(v)
    <3> DEFINE k == AdequacyRank(u)
               l == AdequacyRank(v)
    <3> HIDE DEF k, l
    <3>1. k <= l /\ l <= k /\ k \in -14..439 /\ l \in -14..439
      BY <2>3, <2>4, <2>5 DEF k, l
    <3>2. k = l
      BY <3>1
    <3> QED
      BY <3>2 DEF k, l
  <2>7. u.concern = v.concern
    BY <1>5, <2>1, <2>2, <2>6, RankTellsConcern
  <2>8. u \in ToSet(b1) /\ v \in ToSet(b2)
    BY <1>5, <2>1, <2>2
  <2> QED
    BY <2>7, <2>8, TwinOf DEF u, v
<1> QED
  BY <1>3, <1>9 DEF SameUrgency, S, T

\* Both of two interchangeable baselines show a package boundary, or neither.
LEMMA PackagesAlike ==
  ASSUME NEW b1, NEW b2, Interchangeable(b1, b2)
  PROVE  SurePackage(b1) = {} <=> SurePackage(b2) = {}
<1>1. ASSUME NEW b, NEW r, Interchangeable(b, r), NEW c \in SurePackage(b)
      PROVE  SurePackage(r) # {}
  <2>1. c \in ToSet(b) /\ c.concern = "package_boundary" /\ c.facts # {} /\ c.confidence # "low"
    BY <1>1 DEF SurePackage, Entry
  <2>2. PICK d \in ToSet(r) : Twins(c, d)
    BY <1>1, <2>1, TwinOf
  <2>3. d.concern = c.concern /\ d.confidence = c.confidence /\ d.facts # {}
    BY <2>1, <2>2, TwinsShare
  <2> QED
    BY <2>1, <2>2, <2>3 DEF SurePackage, Entry
<1>2. Interchangeable(b2, b1)
  BY OtherWay
<1> QED
  BY <1>1, <1>2

-----------------------------------------------------------------------------
\* The first of a list of entries, when the list names one entry.
SameFirst(s, t) ==
  /\ s = <<>> <=> t = <<>>
  /\ s # <<>> /\ (\A c, d \in ToSet(s) : c = d) => s[1].concern = t[1].concern

\* Of two lists of twins, the first entries are twins when all entries are one.
LEMMA FirstOfTwins ==
  ASSUME NEW s, IsSequence(s), NEW t, IsSequence(t),
         \A c \in ToSet(s) : \E d \in ToSet(t) : Twins(c, d),
         \A d \in ToSet(t) : \E c \in ToSet(s) : Twins(d, c)
  PROVE  SameFirst(s, t)
<1> DEFINE S == ToSet(s)
           T == ToSet(t)
<1>1. s \in Seq(S) /\ t \in Seq(T)
  BY DEF IsSequence
<1>2. (s = <<>> <=> S = {}) /\ (t = <<>> <=> T = {})
  <2>1. ASSUME NEW r, IsSequence(r), r # <<>> PROVE ToSet(r) # {} /\ r[1] \in ToSet(r)
    <3>1. r \in Seq(ToSet(r))
      BY <2>1 DEF IsSequence
    <3> DEFINE R == ToSet(r)
    <3>2. r \in Seq(R)
      BY <3>1
    <3> HIDE DEF R
    <3>3. r[1] \in R
      BY <2>1, <3>2
    <3> QED
      BY <3>3 DEF R
  <2> QED
    BY <2>1, EmptySequence
<1> HIDE DEF S, T
<1>3. s # <<>> => s[1] \in S
  BY <1>1
<1>4. t # <<>> => t[1] \in T
  BY <1>1
<1>5. s = <<>> <=> t = <<>>
  BY <1>2 DEF S, T
<1>6. ASSUME s # <<>>, \A c, d \in S : c = d PROVE s[1].concern = t[1].concern
  <2>1. t[1] \in T /\ s[1] \in S
    BY <1>3, <1>4, <1>5, <1>6
  <2>2. PICK c \in S : Twins(t[1], c)
    BY <2>1 DEF S, T
  <2>3. c = s[1]
    BY <1>6, <2>1, <2>2
  <2> QED
    BY <2>2, <2>3, TwinsShare
<1> QED
  BY <1>5, <1>6 DEF SameFirst, S

\* The entries that crossed the revisit threshold, in order.
DueAgain(baseline) ==
  AtPlaces(baseline, {i \in DOMAIN baseline : "revisit" \in baseline[i].thresholds})

\* The rules that take the first of the baseline find something in both of two
\* interchangeable baselines or in neither, and the same if there is only one.
LEMMA FilteredAlike ==
  ASSUME NEW b1, NEW b2, Interchangeable(b1, b2)
  PROVE  /\ SameFirst(OverStructured(b1), OverStructured(b2))
         /\ SameFirst(LoadBearing(b1), LoadBearing(b2))
         /\ SameFirst(DueAgain(b1), DueAgain(b2))
         /\ ToSet(OverStructured(b1)) = {c \in ToSet(b1) : c.adequacy.status = "over_structured"}
         /\ ToSet(LoadBearing(b1)) = {c \in ToSet(b1) : c.state \in {"LoadBearing", "Revisit"}}
         /\ ToSet(DueAgain(b1)) = {c \in ToSet(b1) : "revisit" \in c.thresholds}
<1>1. ASSUME NEW b, IsSequence(b), NEW I, I \subseteq DOMAIN b
      PROVE  IsSequence(AtPlaces(b, I)) /\ ToSet(AtPlaces(b, I)) = {b[i] : i \in I}
  BY <1>1, FilteredSequence
<1>2. ASSUME NEW b, IsSequence(b)
      PROVE  /\ IsSequence(OverStructured(b))
             /\ ToSet(OverStructured(b)) = {c \in ToSet(b) : c.adequacy.status = "over_structured"}
  <2> DEFINE I == {i \in DOMAIN b : b[i].adequacy.status = "over_structured"}
  <2>1. I \subseteq DOMAIN b
    OBVIOUS
  <2>2. {b[i] : i \in I} = {c \in ToSet(b) : c.adequacy.status = "over_structured"}
    BY DEF ToSet
  <2>3. OverStructured(b) = AtPlaces(b, I)
    BY DEF OverStructured
  <2> HIDE DEF I
  <2> QED
    BY <1>1, <1>2, <2>1, <2>2, <2>3
<1>3. ASSUME NEW b, IsSequence(b)
      PROVE  /\ IsSequence(LoadBearing(b))
             /\ ToSet(LoadBearing(b)) = {c \in ToSet(b) : c.state \in {"LoadBearing", "Revisit"}}
  <2> DEFINE I == {i \in DOMAIN b : b[i].state \in {"LoadBearing", "Revisit"}}
  <2>1. I \subseteq DOMAIN b
    OBVIOUS
  <2>2. {b[i] : i \in I} = {c \in ToSet(b) : c.state \in {"LoadBearing", "Revisit"}}
    BY DEF ToSet
  <2>3. LoadBearing(b) = AtPlaces(b, I)
    BY DEF LoadBearing
  <2> HIDE DEF I
  <2> QED
    BY <1>1, <1>3, <2>1, <2>2, <2>3
<1>4. ASSUME NEW b, IsSequence(b)
      PROVE  /\ IsSequence(DueAgain(b))
             /\ ToSet(DueAgain(b)) = {c \in ToSet(b) : "revisit" \in c.thresholds}
  <2> DEFINE I == {i \in DOMAIN b : "revisit" \in b[i].thresholds}
  <2>1. I \subseteq DOMAIN b
    OBVIOUS
  <2>2. {b[i] : i \in I} = {c \in ToSet(b) : "revisit" \in c.thresholds}
    BY DEF ToSet
  <2>3. DueAgain(b) = AtPlaces(b, I)
    BY DEF DueAgain
  <2> HIDE DEF I
  <2> QED
    BY <1>1, <1>4, <2>1, <2>2, <2>3
<1>5. IsSequence(b1) /\ IsSequence(b2) /\ Interchangeable(b2, b1)
  BY OtherWay DEF Interchangeable, IsBaseline
<1>6. ASSUME NEW b, NEW r, IsSequence(b), IsSequence(r), Interchangeable(b, r)
      PROVE  /\ \A c \in ToSet(OverStructured(b)) : \E d \in ToSet(OverStructured(r)) : Twins(c, d)
             /\ \A c \in ToSet(LoadBearing(b)) : \E d \in ToSet(LoadBearing(r)) : Twins(c, d)
             /\ \A c \in ToSet(DueAgain(b)) : \E d \in ToSet(DueAgain(r)) : Twins(c, d)
  <2>1. \A c \in ToSet(b) : \E d \in ToSet(r) :
          /\ Twins(c, d) /\ c.adequacy = d.adequacy
          /\ c.state = d.state /\ c.thresholds = d.thresholds
    BY <1>6, TwinOf, TwinsShare
  <2> QED
    BY <1>2, <1>3, <1>4, <1>6, <2>1
<1>7. SameFirst(OverStructured(b1), OverStructured(b2))
  BY <1>2, <1>5, <1>6, FirstOfTwins
<1>8. SameFirst(LoadBearing(b1), LoadBearing(b2))
  BY <1>3, <1>5, <1>6, FirstOfTwins
<1>9. SameFirst(DueAgain(b1), DueAgain(b2))
  BY <1>4, <1>5, <1>6, FirstOfTwins
<1> QED
  BY <1>2, <1>3, <1>4, <1>5, <1>7, <1>8, <1>9

\* The entries between which the order of the baseline chooses: three rules
\* take the first one that qualifies.
Contenders(selected, baseline, alerts) ==
  CASE selected.reason = "over-structured" ->
         {c \in ToSet(baseline) : c.adequacy.status = "over_structured"}
    [] selected.reason = "load-bearing" ->
         {c \in ToSet(baseline) : c.state \in {"LoadBearing", "Revisit"}}
    [] /\ selected.reason = "revisit"
       /\ Entry(ToSet(baseline), DecisionTextConcern(alerts[1].concern)) = {} ->
         {c \in ToSet(baseline) : "revisit" \in c.thresholds}
    [] OTHER -> {}

Uncontended(selected, baseline, alerts) ==
  \A c, d \in Contenders(selected, baseline, alerts) : c = d

\* Advice of one rule, and the same advice if the rule had no choice.
SameAdvice(s, t, sole) == s.reason = t.reason /\ (sole => s = t)

\* The policy selects by the same rule, and the same action unless the rule takes
\* the first of several entries.
LEMMA SelectedAlike ==
  ASSUME NEW b1, NEW b2, Interchangeable(b1, b2),
         NEW questions, NEW alerts, NEW guidance, NEW context, NEW brief
  PROVE  LET s == SelectPolicyAction(b1, questions, alerts, guidance, context, brief)
             t == SelectPolicyAction(b2, questions, alerts, guidance, context, brief)
         IN SameAdvice(s, t, Uncontended(s, b1, alerts))
<1> DEFINE Act(b) == SelectPolicyAction(b, questions, alerts, guidance, context, brief)
           sole == Uncontended(Act(b1), b1, alerts)
           Passive == Selected("baseline captured", "none", "Continue", "note", guidance, FALSE, FALSE)
           Revisit(b) == Selected("revisit", ConcernForAlert(b, alerts[1]), alerts[1].action,
                                  "decision-required", guidance, questions # <<>>, FALSE)
           Risk(b) == Selected("risk", "risk_hotspot", "Run review",
                               RiskIntervention(The(ExplicitRisk(b))), guidance,
                               HasConcern(questions, "risk_hotspot"),
                               The(ExplicitRisk(b)).confidence = "low")
           Under(b) == UnderStructuredAction(MostUrgent(UnderStructured(b)), questions, guidance)
           Over(b) == Selected("over-structured", OverStructured(b)[1].concern, "Localize", "note",
                               guidance, FALSE, FALSE)
           Package == Selected("package boundary", "package_boundary", "Add test harness",
                               "recommend", guidance, HasConcern(questions, "package_boundary"),
                               FALSE)
           Offered == HighValuePatterns(guidance, context)
           Offer(b) == PatternAction(FirstHighValuePattern(Offered), b, questions, guidance)
           Assume == Selected("assumptions", questions[1].concern, "Record decision",
                              IF questions[1].concern \in HighRisk THEN "interview-required"
                              ELSE "recommend", guidance, TRUE, FALSE)
           Bearing(b) == Selected("load-bearing", LoadBearing(b)[1].concern,
                                  ActionForConcern(LoadBearing(b)[1].concern), "recommend",
                                  guidance, FALSE, FALSE)
           Nothing == Selected("nothing pressing", "none", "Continue", "note", guidance, FALSE, FALSE)
<1>1. ASSUME NEW b
      PROVE  Act(b) =
               IF context = "passive_baseline" THEN Passive
               ELSE IF alerts # <<>> THEN Revisit(b)
               ELSE IF ExplicitRisk(b) # {} /\ ~RiskIsOnlyTemporalNoise(brief) THEN Risk(b)
               ELSE IF UnderStructured(b) # {} THEN Under(b)
               ELSE IF OverStructured(b) # <<>> THEN Over(b)
               ELSE IF SurePackage(b) # {} /\ BoundaryGuidanceAllowed(context) THEN Package
               ELSE IF Offered # {} THEN Offer(b)
               ELSE IF questions # <<>> THEN Assume
               ELSE IF LoadBearing(b) # <<>> THEN Bearing(b) ELSE Nothing
  BY Zenon DEF SelectPolicyAction
<1>2. /\ SameEntry(ExplicitRisk(b1), ExplicitRisk(b2))
      /\ SameUrgency(UnderStructured(b1), UnderStructured(b2))
      /\ SurePackage(b1) = {} <=> SurePackage(b2) = {}
  BY RisksAlike, UrgencyAlike, PackagesAlike
<1>3. /\ SameFirst(OverStructured(b1), OverStructured(b2))
      /\ SameFirst(LoadBearing(b1), LoadBearing(b2))
      /\ SameFirst(DueAgain(b1), DueAgain(b2))
      /\ ToSet(OverStructured(b1)) = {c \in ToSet(b1) : c.adequacy.status = "over_structured"}
      /\ ToSet(LoadBearing(b1)) = {c \in ToSet(b1) : c.state \in {"LoadBearing", "Revisit"}}
      /\ ToSet(DueAgain(b1)) = {c \in ToSet(b1) : "revisit" \in c.thresholds}
  BY FilteredAlike
<1>4. ASSUME ExplicitRisk(b1) # {} PROVE Risk(b1) = Risk(b2)
  BY <1>2, <1>4 DEF SameEntry, RiskIntervention
<1>5. ASSUME UnderStructured(b1) # {} PROVE Under(b1) = Under(b2)
  <2> DEFINE u == MostUrgent(UnderStructured(b1))
             v == MostUrgent(UnderStructured(b2))
  <2>1. Twins(u, v)
    BY <1>2, <1>5 DEF SameUrgency
  <2> HIDE DEF u, v
  <2>2. u.concern = v.concern /\ u.adequacy = v.adequacy
    BY <2>1, TwinsShare
  <2>3. UnderStructuredAction(u, questions, guidance) = UnderStructuredAction(v, questions, guidance)
    BY <2>2 DEF UnderStructuredAction
  <2> QED
    BY <2>3 DEF u, v
<1>6. Offer(b1) = Offer(b2)
  <2> DEFINE best == FirstHighValuePattern(Offered)
             e1 == Entry(ToSet(b1), best.concern)
             e2 == Entry(ToSet(b2), best.concern)
  <2>1. SameEntry(e1, e2)
    BY EntriesOfConcern
  <2> HIDE DEF best, e1, e2
  <2>2. e1 = {} \/ e2 = {} => e1 = e2
    BY <2>1 DEF SameEntry
  <2>3. InterventionForConcern(The(e1), questions) = InterventionForConcern(The(e2), questions)
    BY <2>1, <2>2 DEF SameEntry, InterventionForConcern
  <2>4. PatternAction(best, b1, questions, guidance) = PatternAction(best, b2, questions, guidance)
    BY <2>3 DEF PatternAction, e1, e2
  <2> QED
    BY <2>4 DEF best
<1>7. /\ Passive.reason = "baseline captured" /\ Package.reason = "package boundary"
      /\ Assume.reason = "assumptions" /\ Nothing.reason = "nothing pressing"
  BY DEF Selected
<1>8. ASSUME NEW b
      PROVE  /\ Revisit(b).reason = "revisit" /\ Over(b).reason = "over-structured"
             /\ Bearing(b).reason = "load-bearing"
  BY DEF Selected
<1> HIDE DEF Passive, Revisit, Risk, Under, Over, Package, Offered, Offer, Assume, Bearing, Nothing
<1>9. ASSUME Act(b1) = Over(b1), OverStructured(b1) # <<>>, sole PROVE Over(b1) = Over(b2)
  <2>1. Contenders(Act(b1), b1, alerts) = ToSet(OverStructured(b1))
    <3> HIDE DEF Act
    <3> QED
      BY <1>3, <1>8, <1>9 DEF Contenders
  <2>2. \A c, d \in ToSet(OverStructured(b1)) : c = d
    BY <1>9, <2>1 DEF Uncontended
  <2>3. OverStructured(b1)[1].concern = OverStructured(b2)[1].concern
    BY <1>3, <1>9, <2>2 DEF SameFirst
  <2> QED
    BY <2>3 DEF Over
<1>10. ASSUME Act(b1) = Bearing(b1), LoadBearing(b1) # <<>>, sole PROVE Bearing(b1) = Bearing(b2)
  <2>1. Contenders(Act(b1), b1, alerts) = ToSet(LoadBearing(b1))
    <3> HIDE DEF Act
    <3> QED
      BY <1>3, <1>8, <1>10 DEF Contenders
  <2>2. \A c, d \in ToSet(LoadBearing(b1)) : c = d
    BY <1>10, <2>1 DEF Uncontended
  <2>3. LoadBearing(b1)[1].concern = LoadBearing(b2)[1].concern
    BY <1>3, <1>10, <2>2 DEF SameFirst
  <2> QED
    BY <2>3 DEF Bearing
<1>11. ASSUME Act(b1) = Revisit(b1), sole PROVE Revisit(b1) = Revisit(b2)
  <2> DEFINE mapped == DecisionTextConcern(alerts[1].concern)
             e1 == Entry(ToSet(b1), mapped)
             e2 == Entry(ToSet(b2), mapped)
  <2>1. SameEntry(e1, e2)
    BY EntriesOfConcern
  <2>2. ASSUME NEW b
        PROVE  ConcernForAlert(b, alerts[1])
                 = IF Entry(ToSet(b), mapped) # {} THEN mapped
                   ELSE IF DueAgain(b) = <<>> THEN "none" ELSE DueAgain(b)[1].concern
    BY DEF ConcernForAlert, DueAgain
  <2>3. CASE e1 # {}
    <3>1. ConcernForAlert(b1, alerts[1]) = mapped /\ ConcernForAlert(b2, alerts[1]) = mapped
      BY <2>1, <2>2, <2>3 DEF SameEntry
    <3> QED
      BY <3>1 DEF Revisit
  <2>4. CASE e1 = {}
    <3>1. Contenders(Act(b1), b1, alerts) = ToSet(DueAgain(b1))
      <4> HIDE DEF Act
      <4> QED
        BY <1>3, <1>8, <1>11, <2>4 DEF Contenders
    <3>2. \A c, d \in ToSet(DueAgain(b1)) : c = d
      BY <1>11, <3>1 DEF Uncontended
    <3>3. /\ DueAgain(b1) = <<>> <=> DueAgain(b2) = <<>>
          /\ DueAgain(b1) # <<>> => DueAgain(b1)[1].concern = DueAgain(b2)[1].concern
      BY <1>3, <3>2 DEF SameFirst
    <3>4. e2 = {}
      BY <2>1, <2>4 DEF SameEntry
    <3>5. ConcernForAlert(b1, alerts[1]) = ConcernForAlert(b2, alerts[1])
      <4> HIDE DEF mapped
      <4> QED
        BY <2>2, <2>4, <3>3, <3>4
    <3> QED
      BY <3>5 DEF Revisit
  <2> QED
    BY <2>3, <2>4
<1> HIDE DEF sole
<1>12. SameAdvice(Act(b1), Act(b2), sole)
  <2>1. /\ ExplicitRisk(b1) = {} <=> ExplicitRisk(b2) = {}
        /\ UnderStructured(b1) = {} <=> UnderStructured(b2) = {}
        /\ OverStructured(b1) = <<>> <=> OverStructured(b2) = <<>>
        /\ SurePackage(b1) = {} <=> SurePackage(b2) = {}
        /\ LoadBearing(b1) = <<>> <=> LoadBearing(b2) = <<>>
    BY <1>2, <1>3 DEF SameEntry, SameUrgency, SameFirst
  <2> DEFINE x1 == Act(b1)
             x2 == Act(b2)
  <2>2. \/ x1 = x2
        \/ x1 = Revisit(b1) /\ x2 = Revisit(b2)
        \/ x1 = Over(b1) /\ x2 = Over(b2) /\ OverStructured(b1) # <<>>
        \/ x1 = Bearing(b1) /\ x2 = Bearing(b2) /\ LoadBearing(b1) # <<>>
    <3> HIDE DEF Act
    <3> QED
      BY <1>1, <1>4, <1>5, <1>6, <2>1, Zenon
  <2> HIDE DEF Act
  <2> QED
    BY <1>8, <1>9, <1>10, <1>11, <2>2 DEF SameAdvice
<1> QED
  BY <1>12 DEF sole

-----------------------------------------------------------------------------
\* What an assessment is made of besides AssessmentParts.
LEMMA OtherParts ==
  ASSUME NEW event, NEW items, NEW memory
  PROVE  LET r == AssessmentOf(event, items, memory)
             t == TelemetryOf(event, items)
         IN /\ r.context = ClassifyInteractionContext(event)
            /\ r.claims = ClaimsForTelemetry(t)
            /\ r.guidance = PrincipleGuidance(r.baseline)
BY DEF AssessmentOf, AdviceFrom, Advice, TelemetryOf

\* Two results, from the same items in two orders.
SameQuestions(r, q) == q.questions = r.questions /\ q.claims = r.claims
SameCounsel(r, q) ==
  /\ q.alerts = r.alerts /\ q.guidance = r.guidance
  /\ q.selected.reason = r.selected.reason
  /\ Uncontended(r.selected, r.baseline, r.alerts) => q.selected = r.selected

\* Items in another order lead to the same questions and, when all their lines
\* are quoted, to the same alerts, guidance and rule.
LEMMA AssessedAlike ==
  ASSUME NEW event \in Events, NEW memory, IsSequence(memory),
         NEW items, IsSequence(items), NEW other, IsSequence(other), Rearranged(items, other),
         SureAlike(items)
  PROVE  LET r == AssessmentOf(event, items, memory)
             q == AssessmentOf(event, other, memory)
         IN /\ SameQuestions(r, q)
            /\ FewLinesOf(ToSet(r.baseline), MatchesOf(event, items, memory)) => SameCounsel(r, q)
<1> DEFINE r == AssessmentOf(event, items, memory)
           q == AssessmentOf(event, other, memory)
           t1 == TelemetryOf(event, items)
           t2 == TelemetryOf(event, other)
           decisions == PriorDecisions(event, memory)
           e1 == EvidenceOf(event, items)
           e2 == EvidenceOf(event, other)
           matches == MatchesOf(event, items, memory)
           few == FewLinesOf(ToSet(r.baseline), matches)
<1>0. IsSequence(event.changed.files) /\ \A e \in ToSet(e1) : IsSequence(e.lines)
  BY EvidenceOfItems, EventsAssumption DEF IsSequence
<1>1. IsSequence(event.priors) /\ IsSequence(decisions)
  BY PriorDecisionsAre, EventsAssumption DEF IsSequence
<1>2. ToSet(items) = ToSet(other)
  <2>1. items \in Seq(ToSet(items)) /\ other \in Seq(ToSet(other))
    BY DEF IsSequence
  <2> QED
    BY <2>1, RearrangedElements
<1>3. Rearranged(e1, e2) /\ IsSequence(e1) /\ IsSequence(e2)
  BY EvidenceRearranged, EvidenceOfItems
<1>4. ToSet(t1.signals) = ToSet(t2.signals) /\ t1.diagnostics = t2.diagnostics
  BY <1>1, <1>2, TelemetryAlike
<1>5. ClaimsForTelemetry(t1) = ClaimsForTelemetry(t2)
  BY <1>0, <1>1, <1>2, GraphsAlike DEF ClaimsForTelemetry
<1>6. TemporalBrief(t1) = TemporalBrief(t2)
  <2>1. ASSUME NEW t
        PROVE  TemporalBrief(t)
                 = {IF d.timeframe = "none" THEN "uncertain" ELSE d.timeframe :
                      d \in {s.details : s \in {x \in ToSet(t.signals) : x.details.concern # "none"}}}
    <3>1. {t.signals[i].details :
             i \in {j \in DOMAIN t.signals : t.signals[j].details.concern # "none"}}
            = {s.details : s \in {x \in ToSet(t.signals) : x.details.concern # "none"}}
      BY DEF ToSet
    <3> QED
      BY <3>1 DEF TemporalBrief
  <2> HIDE DEF t1, t2
  <2> QED
    BY <1>4, <2>1
<1>7. /\ r.baseline = BaselineOf(e1, event, decisions)
      /\ r.selected = SelectPolicyAction(r.baseline, r.questions, r.alerts,
                        PrincipleGuidance(r.baseline), r.context, TemporalBrief(t1))
      /\ r.alerts = CheckRevisit(event, memory, t1, r.baseline)
      /\ r.questions = PlanQuestions(r.baseline, t1, ClaimsForTelemetry(t1), r.context)
      /\ r.context = ClassifyInteractionContext(event)
      /\ r.claims = ClaimsForTelemetry(t1) /\ r.guidance = PrincipleGuidance(r.baseline)
  BY AssessmentParts, OtherParts
<1>8. /\ q.baseline = BaselineOf(e2, event, decisions)
      /\ q.selected = SelectPolicyAction(q.baseline, q.questions, q.alerts,
                        PrincipleGuidance(q.baseline), q.context, TemporalBrief(t2))
      /\ q.alerts = CheckRevisit(event, memory, t2, q.baseline)
      /\ q.questions = PlanQuestions(q.baseline, t2, ClaimsForTelemetry(t2), q.context)
      /\ q.context = ClassifyInteractionContext(event)
      /\ q.claims = ClaimsForTelemetry(t2) /\ q.guidance = PrincipleGuidance(q.baseline)
  BY AssessmentParts, OtherParts
<1>9. matches = EvidenceMatches(e1, event, decisions)
  BY DEF MatchesOf
<1> HIDE DEF r, q, t1, t2, e1, e2, decisions, matches
<1>10. BaselinesAlike(r.baseline, q.baseline, matches)
  BY <1>0, <1>1, <1>3, <1>7, <1>8, <1>9, BaselineAlike
<1>11. IsBaseline(r.baseline) /\ IsBaseline(q.baseline)
  <2>1. /\ IsSequence(r.baseline) /\ \A c \in ToSet(r.baseline) : c.concern \in Concerns
        /\ IsSequence(q.baseline) /\ \A c \in ToSet(q.baseline) : c.concern \in Concerns
    BY <1>1, <1>3, <1>7, <1>8, BaselineEntries DEF IsEntry
  <2>2. WellMade(ToSet(r.baseline)) /\ WellMade(ToSet(q.baseline))
    BY <1>7, <1>8, BaselinesAreWellMade
  <2> QED
    BY <2>1, <2>2 DEF IsBaseline
<1>12. SameEntries(ToSet(r.baseline), ToSet(q.baseline), few)
  BY <1>10, <1>11, EntriesAreSame DEF IsBaseline
<1> HIDE DEF few
<1>13. q.questions = r.questions
  <2>1. PlanQuestions(r.baseline, t1, ClaimsForTelemetry(t1), r.context)
          = PlanQuestions(q.baseline, t2, ClaimsForTelemetry(t1), r.context)
    BY <1>4, <1>12, QuestionsAlike
  <2> QED
    BY <1>5, <1>7, <1>8, <2>1
<1>14. SameQuestions(r, q)
  BY <1>5, <1>7, <1>8, <1>13 DEF SameQuestions
<1>15. ASSUME few PROVE SameCounsel(r, q)
  <2>1. Interchangeable(r.baseline, q.baseline)
    <3>1. few = TRUE
      <4>1. few \in BOOLEAN
        BY DEF few, FewLinesOf
      <4> QED
        BY <1>15, <4>1
    <3> QED
      BY <1>11, <1>12, <3>1 DEF Interchangeable
  <2>2. q.alerts = r.alerts
    BY <1>4, <1>7, <1>8, <2>1, AlertsAlike
  <2>3. PrincipleGuidance(q.baseline) = PrincipleGuidance(r.baseline)
    BY <2>1, GuidanceAlike
  <2> DEFINE A(b) == SelectPolicyAction(b, r.questions, r.alerts, PrincipleGuidance(r.baseline),
                                        r.context, TemporalBrief(t1))
  <2>4. r.selected = A(r.baseline)
    BY <1>7
  <2>5. q.selected = A(q.baseline)
    BY <1>6, <1>7, <1>8, <1>13, <2>2, <2>3
  <2>6. SameAdvice(A(r.baseline), A(q.baseline), Uncontended(A(r.baseline), r.baseline, r.alerts))
    BY <2>1, SelectedAlike
  <2> HIDE DEF A
  <2>7. SameAdvice(r.selected, q.selected, Uncontended(r.selected, r.baseline, r.alerts))
    BY <2>4, <2>5, <2>6
  <2> QED
    BY <1>7, <1>8, <2>2, <2>3, <2>7 DEF SameCounsel, SameAdvice
<1> QED
  BY <1>14, <1>15 DEF few, r, q, matches

-----------------------------------------------------------------------------
\* What the assessment in hand would be of the same items in another order.
Reordered(p) == AssessmentOf(basis.event, Permuted(basis.items, p), records)

\* Of no concern does the evidence have more than the three lines that its fact
\* quotes, unless they are of one match.
FewLines ==
  FewLinesOf(ToSet(result.baseline), MatchesOf(basis.event, basis.items, records))

\* The advice is not about the first of several concerns that qualify.
OneContender == Uncontended(result.selected, result.baseline, result.alerts)

\* In whatever order the items come, the same claims are made and the same
\* questions asked, in the same order, unless two items of one family are not
\* equally sure of a line: the graph keeps the first.  With no more lines than
\* are quoted the same decisions are due, the same guidance is given and the
\* advice is selected by the same rule; it is the same advice when the rule does
\* not take the first of several concerns.
AnyOrderAsks ==
  (Assessed /\ SureAlike(basis.items)) =>
    \A p \in Bijection(DOMAIN basis.items, DOMAIN basis.items) :
      /\ SameQuestions(result, Reordered(p))
      /\ FewLines => SameCounsel(result, Reordered(p))

\* No order of the collectors changes the questions, for any events, outcomes
\* and memory, nor, within what a fact quotes, what the advice rests on.
THEOREM AnyOrder == Spec => []AnyOrderAsks
<1>1. SessionInv => AnyOrderAsks
  <2> SUFFICES ASSUME SessionInv, Assessed, SureAlike(basis.items),
                      NEW p \in Bijection(DOMAIN basis.items, DOMAIN basis.items)
               PROVE  /\ SameQuestions(result, Reordered(p))
                      /\ FewLines => SameCounsel(result, Reordered(p))
    BY DEF AnyOrderAsks
  <2> DEFINE event == basis.event
             items == basis.items
             other == Permuted(items, p)
  <2>1. InHand /\ IsSequence(records)
    BY DEF SessionInv, Assessed
  <2>2. event \in Events /\ IsSequence(items) /\ result = AssessmentOf(event, items, records)
    BY <2>1 DEF InHand
  <2>3. IsSequence(other) /\ Rearranged(items, other)
    BY <2>2, PermutedIsRearranged
  <2>4. SureAlike(items)
    OBVIOUS
  <2> HIDE DEF event, items, other
  <2>5. /\ SameQuestions(AssessmentOf(event, items, records), AssessmentOf(event, other, records))
        /\ FewLinesOf(ToSet(AssessmentOf(event, items, records).baseline),
                      MatchesOf(event, items, records))
             => SameCounsel(AssessmentOf(event, items, records), AssessmentOf(event, other, records))
    BY <2>1, <2>2, <2>3, <2>4, AssessedAlike
  <2>6. Reordered(p) = AssessmentOf(event, other, records)
    BY DEF Reordered, event, other, items
  <2>7. FewLines <=> FewLinesOf(ToSet(result.baseline), MatchesOf(event, items, records))
    BY DEF FewLines, event, items
  <2> QED
    BY <2>2, <2>5, <2>6, <2>7
<1> QED
  BY <1>1, SessionInvAlways, PTL

\* Backwards is one of the orders.
LEMMA ReverseIsAnOrder ==
  ASSUME NEW s, IsSequence(s)
  PROVE  \E p \in Bijection(DOMAIN s, DOMAIN s) : Reverse(s) = Permuted(s, p)
<1> DEFINE n == Len(s)
           p == [i \in 1..n |-> (n - i) + 1]
<1>1. DOMAIN s = 1..n /\ n \in Nat
  BY DomainOfSequence
<1> HIDE DEF n
<1>2. p \in [1..n -> 1..n]
  BY <1>1
<1>3. \A i, j \in 1..n : p[i] = p[j] => i = j
  BY <1>1
<1>4. ASSUME NEW j \in 1..n PROVE \E i \in 1..n : p[i] = j
  <2>1. (n - j) + 1 \in 1..n /\ p[(n - j) + 1] = j
    BY <1>1
  <2> QED
    BY <2>1
<1>5. p \in Bijection(1..n, 1..n)
  <2> HIDE DEF p
  <2> QED
    BY <1>2, <1>3, <1>4 DEF Bijection, Injection, Surjection, IsInjective
<1>6. Reverse(s) = Permuted(s, p)
  <2>1. Reverse(s) = [i \in 1..n |-> s[(n - i) + 1]]
    BY DEF Reverse, n
  <2>2. Permuted(s, p) = [i \in 1..n |-> s[p[i]]]
    BY <1>1 DEF Permuted
  <2>3. \A i \in 1..n : p[i] = (n - i) + 1
    OBVIOUS
  <2> HIDE DEF p
  <2> QED
    BY <2>1, <2>2, <2>3
<1> HIDE DEF p
<1> QED
  BY <1>1, <1>5, <1>6

\* So reversing the items changes neither the advice nor the questions, unless
\* two items of one family are not equally sure of a line, a concern has more
\* lines than are quoted, or the advice is about the first of several concerns.
THEOREM OrderOfAdvice ==
  Spec => [](SureAlike(basis.items) /\ FewLines /\ OneContender => OrderDoesNotMatter)
<1>1. SessionInv /\ AnyOrderAsks
        => (SureAlike(basis.items) /\ FewLines /\ OneContender => OrderDoesNotMatter)
  <2> SUFFICES ASSUME SessionInv, AnyOrderAsks, SureAlike(basis.items), FewLines, OneContender,
                      Assessed
               PROVE  OrderDoesNotMatter
    BY DEF OrderDoesNotMatter
  <2>1. IsSequence(basis.items)
    BY DEF SessionInv, Assessed, InHand
  <2>2. PICK p \in Bijection(DOMAIN basis.items, DOMAIN basis.items) :
          Reverse(basis.items) = Permuted(basis.items, p)
    BY <2>1, ReverseIsAnOrder
  <2>3. SameQuestions(result, Reordered(p)) /\ SameCounsel(result, Reordered(p))
    BY DEF AnyOrderAsks
  <2>4. Reordered(p).selected = result.selected /\ Reordered(p).questions = result.questions
    BY <2>3 DEF SameQuestions, SameCounsel, OneContender
  <2> QED
    BY <2>2, <2>4 DEF OrderDoesNotMatter, Reordered
<1> QED
  BY <1>1, SessionInvAlways, AnyOrder, PTL
=============================================================================
