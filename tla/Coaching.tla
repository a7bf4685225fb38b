------------------------------ MODULE Coaching ------------------------------
(***************************************************************************)
(* A coaching session over one repository: host events are assessed with   *)
(* the evidence collected for them and the decisions recorded so far, and  *)
(* the host answers an assessment by recording a decision, by accepting a  *)
(* debt, or not at all.                                                    *)
(*                                                                         *)
(* assessArchitecture is a pure function of what it is given: the whole of *)
(* it is AssessmentOf, and an assessment is one step.  What the session    *)
(* keeps is the decision memory, appended to and never changed.            *)
(***************************************************************************)
EXTENDS Policy

CONSTANTS
  Events,       \* normalized host events
  Outcomes,     \* what a collector may come back with
  MaxCollectors,\* bound on the collectors that have something to say
  Sent,         \* the items a host may send with an event (optionalSignals)
  DebtConcerns, \* the concerns whose debt the host may accept
  Texts,        \* the concerns, as text, of the decisions it records
  Conditions,   \* the revisit conditions it records
  Ids           \* the ids of the records, in order: bounds how many there are

\* What a host event brings, what a collector answers and the ids are lists.
ASSUME EventsAssumption ==
  \A event \in Events :
    /\ event.changed.files \in Seq(ToSet(event.changed.files))
    /\ event.priors \in Seq(ToSet(event.priors))
    /\ \A p \in ToSet(event.priors) : p.revisitIf \in Seq(ToSet(p.revisitIf))
ASSUME OutcomesAssumption ==
  \A outcome \in Outcomes : outcome.items \in Seq(ToSet(outcome.items))
ASSUME SentAssumption == \A items \in Sent : items \in Seq(ToSet(items))
ASSUME BoundsAssumption == MaxCollectors \in Nat /\ Ids \in Seq(ToSet(Ids))
\* Records have ids of their own, and an accepted debt is of a concern of the
\* baseline (validateDecisionRecord refuses any other).
ASSUME RecordsAssumption ==
  /\ \A i, j \in DOMAIN Ids : Ids[i] = Ids[j] => i = j
  /\ DebtConcerns \subseteq Concerns

VARIABLES
  records,      \* the decision memory
  basis,        \* what the last assessment was made of
  result        \* its result, until the host has dealt with it

vars == <<records, basis, result>>

NoBasis == [event |-> "none", items |-> <<>>]
NoResult == [selected |-> "none"]

AdviceStatuses == {"active", "handled", "superseded"}
Interventions == {"note", "recommend", "interview-required", "decision-required", "block"}

Collections == UNION {[1..n -> Outcomes] : n \in 0..MaxCollectors}

(***************************************************************************)
(* collectRepositoryTelemetry: the collectors run one after another.  One  *)
(* that throws, or that answers with a promise, leaves a failed item of    *)
(* its own; an answer is taken as it is.  The bundle they are collected in *)
(* is validated only when it is assessed.                                  *)
(***************************************************************************)
FailedItem(collector) ==
  [source |-> collector, category |-> "diagnostic", status |-> "failed",
   freshness |-> "unknown", confidence |-> "low", words |-> {}, details |-> NoDetails]

Collected(outcomes) ==
  FlattenSeq([i \in DOMAIN outcomes |->
    IF outcomes[i].how = "answered" THEN outcomes[i].items
    ELSE << FailedItem(outcomes[i].collector) >>])

(***************************************************************************)
(* assessArchitecture.  The decisions of the memory are summarized beside  *)
(* those the event brings; only the latter have a memory signal.           *)
(***************************************************************************)
PriorDecisions(event, memory) ==
  event.priors \o AtPlaces(memory, {i \in DOMAIN memory :
                                      \A p \in ToSet(event.priors) : p.id # memory[i].id})

\* What is advised of a baseline and its claims.
Advice(event, memory, telemetry, baseline, claims) ==
  LET context   == ClassifyInteractionContext(event)
      questions == PlanQuestions(baseline, telemetry, claims, context)
      alerts    == CheckRevisit(event, memory, telemetry, baseline)
      guidance  == PrincipleGuidance(baseline)
      selected  == SelectPolicyAction(baseline, questions, alerts, guidance, context,
                                      TemporalBrief(telemetry))
  IN [selected |-> selected, status |-> StatusOfAdvice(selected), baseline |-> baseline,
      claims |-> claims, questions |-> questions, alerts |-> alerts,
      guidance |-> guidance, debt |-> ArchitectureDebt(baseline, memory),
      context |-> context,
      style |-> QuestionStyle(event, "none")]

AdviceFrom(event, memory, telemetry) ==
  Advice(event, memory, telemetry,
         BaselineOf(EvidenceFromTelemetry(telemetry), event, PriorDecisions(event, memory)),
         ClaimsForTelemetry(telemetry))

TelemetryOf(event, items) == TelemetryFromEvent(event, event.testStatus, event.priors, items)

AssessmentOf(event, items, memory) == AdviceFrom(event, memory, TelemetryOf(event, items))

Init == records = <<>> /\ basis = NoBasis /\ result = NoResult

AssessWith(event, items) ==
  /\ basis' = [event |-> event, items |-> items]
  /\ result' = AssessmentOf(event, items, records)
  /\ UNCHANGED records

\* assertValidTelemetryBundle throws on a bundle with two signals of one id:
\* nothing is assessed then.
AssessCollected ==
  /\ result = NoResult
  /\ \E event \in Events, outcomes \in Collections :
       /\ ValidBundle(TelemetryOf(event, Collected(outcomes)))
       /\ AssessWith(event, Collected(outcomes))

\* The items a host sends with its event are taken without validation.
AssessSent ==
  /\ result = NoResult
  /\ \E event \in Events, items \in Sent : AssessWith(event, items)

Assess == AssessCollected \/ AssessSent

(***************************************************************************)
(* The host's turn.                                                        *)
(***************************************************************************)
Remember(record) ==
  /\ result # NoResult
  /\ Len(records) < Len(Ids)
  /\ records' = Append(records, record)
  /\ basis' = NoBasis /\ result' = NoResult

\* The store accepts a debt whose record says it is under-structured, at the
\* levels of pressure and support the host read off the assessment.
AcceptDebt ==
  \E c \in ToSet(IF result = NoResult THEN <<>> ELSE result.baseline),
     status \in AdviceStatuses, condition \in Conditions :
    /\ c.concern \in DebtConcerns
    /\ c.adequacy.status \in {"under_structured", "watch"}
    /\ Remember([id |-> Ids[Len(records) + 1], kind |-> "accepted_debt",
                 concern |-> c.concern, adviceStatus |-> status,
                 revisitIf |-> <<condition>>, pressure |-> c.adequacy.pressure,
                 support |-> c.adequacy.support, words |-> {}])

RecordDecision ==
  \E text \in Texts, condition \in Conditions :
    Remember([id |-> Ids[Len(records) + 1], kind |-> "decision", concern |-> text,
              adviceStatus |-> "active", revisitIf |-> <<condition>>,
              pressure |-> "none", support |-> "unknown", words |-> {}])

\* The host takes the advice, or ignores it.
MoveOn ==
  /\ result # NoResult
  /\ basis' = NoBasis /\ result' = NoResult
  /\ UNCHANGED records

Next == Assess \/ AcceptDebt \/ RecordDecision \/ MoveOn

Spec == Init /\ [][Next]_vars

(***************************************************************************)
(* Properties.                                                             *)
(***************************************************************************)
Assessed == result # NoResult

\* What the baseline says of the concern the advice is about, if anything.
Advised == Entry(ToSet(result.baseline), result.selected.concern)

SourcesOf(c) == UNION {f.sources : f \in c.facts}

\* The types of the memory and of an assessment's advice.
TypeOK ==
  /\ Len(records) <= Len(Ids)
  /\ \A i \in DOMAIN records :
       /\ records[i].id = Ids[i]
       /\ records[i].adviceStatus \in AdviceStatuses
       /\ records[i].pressure \in DOMAIN PressureRank
       /\ records[i].support \in DOMAIN SupportRank
  /\ Assessed =>
       /\ basis.event \in Events
       /\ result.selected.intervention \in Interventions
       /\ result.selected.concern \in Concerns \cup {"none"}
       /\ Len(result.questions) <= 4
       /\ \A i \in DOMAIN result.baseline : result.baseline[i].thresholds \subseteq Thresholds

\* An item that speaks of a concern, or that meets a revisit condition of a
\* decision on it.
BearsOn(item, concern) ==
  \/ SpeaksOf(item, concern)
  \/ \E d \in ToSet(records \o basis.event.priors) :
       DecisionConcern(d.concern) = concern /\ IsDue(d, item.words)

\* Advice firm enough to stop the work, when it does not come from a recorded
\* decision, rests on two different sources of evidence or on an architecture
\* claim, and on an item that is present, sure and about the concern: one reading
\* of one collector never blocks.  The sure item need not be among the sources the
\* fact keeps, which are the first of their source and category.
FirmAdviceIsCorroborated ==
  (Assessed /\ result.selected.reason # "revisit"
     /\ result.selected.intervention \in {"block", "decision-required"}) =>
    /\ \E i \in DOMAIN basis.items :
         /\ basis.items[i].status = "present" /\ basis.items[i].confidence = "high"
         /\ BearsOn(basis.items[i], result.selected.concern)
    /\ \E c \in Advised : \E s, t \in SourcesOf(c) :
         \/ <<s.source, s.category>> # <<t.source, t.category>>
         \/ s.category = "architecture_claim"

\* A collector that failed or found nothing establishes no fact, whatever its
\* text says: leaving its item out gives the same facts.
FactsRestOnPresentEvidence ==
  Assessed =>
    LET present == AtPlaces(basis.items,
                     {i \in DOMAIN basis.items : basis.items[i].status = "present"})
    IN Facts(result.baseline)
         = Facts(AssessmentOf(basis.event, present, records).baseline)

\* Advice to change the code that rests on a concern of low confidence is
\* marked provisional or asks first; only a recorded decision speaks for itself.
WeakEvidenceIsProvisional ==
  (Assessed /\ result.selected.reason \notin {"revisit", "load-bearing"}
     /\ result.selected.intervention \in {"recommend", "block", "decision-required"}
     /\ \E c \in Advised : c.confidence = "low") =>
    result.selected.provisional \/ result.selected.requiresQuestion

\* A handled debt that was outgrown is reported as reopened and raised as an
\* alert of the same assessment, and is not raised otherwise.
ReopenedDebtIsRaised ==
  Assessed =>
    \A concern \in Concerns \ Security :
      ([concern |-> concern, status |-> "reopened"] \in result.debt)
        <=> \E i \in DOMAIN result.alerts :
              result.alerts[i].reopened /\ result.alerts[i].concern = concern

\* The order in which the collectors' items are read does not change the advice
\* or the questions.  With up to three lines to a concern, that is: a fact quotes
\* three, and with a fourth the order decides which of them the pressure is read
\* from.
OrderDoesNotMatter ==
  Assessed =>
    LET reversed == AssessmentOf(basis.event, Reverse(basis.items), records)
    IN reversed.selected = result.selected /\ reversed.questions = result.questions
=============================================================================
