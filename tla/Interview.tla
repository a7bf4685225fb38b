----------------------------- MODULE Interview -----------------------------
(***************************************************************************)
(* The baseline interview: which questions an assessment asks, what an     *)
(* answer does to the baseline, and which questions are still open after   *)
(* the answers given so far.  Pure functions of the evidence; the modules  *)
(* that keep state (AssessmentStore) are built on them.                    *)
(*                                                                         *)
(* A question stands for the candidate that produces it.  There are three  *)
(* kinds: one per uncertain baseline fact, one per telemetry diagnostic,   *)
(* and one per residual unknown of a claim.  Prompts, reasons and options  *)
(* are left out; a candidate whose text the planner would reject is simply *)
(* not in the evidence.                                                    *)
(***************************************************************************)
EXTENDS Naturals, FiniteSets

CONSTANTS
  FactQuestions,    \* question-fact-*: asked about a baseline fact
  SignalQuestions,  \* question-signal-*: asked about a telemetry diagnostic
  ClaimQuestions,   \* question-claim-*: asked about a claim's residual unknown
  Score,            \* score of a candidate, without the bonus of an inferred fact
  RankKey,          \* position of a candidate's rankKey in collation order
  QuestionLimit     \* defaultQuestionLimit

Questions == FactQuestions \cup SignalQuestions \cup ClaimQuestions

ASSUME QuestionsAssumption ==
  /\ FactQuestions \cap SignalQuestions = {}
  /\ FactQuestions \cap ClaimQuestions = {}
  /\ SignalQuestions \cap ClaimQuestions = {}
ASSUME ScoreAssumption ==
  /\ Score \in [Questions -> Nat]
  /\ RankKey \in [Questions -> Nat]
  /\ \A q, r \in Questions : RankKey[q] = RankKey[r] => q = r
ASSUME LimitAssumption == QuestionLimit \in Nat

InferredBonus == 25   \* statusScore of scoreFact

(***************************************************************************)
(* What one look at the repository yields: the facts of the synthesized    *)
(* baseline (those that are inferred, and those that are certain: high     *)
(* confidence and current), the fact questions a strong claim about the    *)
(* same concern suppresses, the diagnostics and the claim residuals worth  *)
(* asking about, whether the request is a passive baseline capture, and    *)
(* whether the telemetry carries a warning.                                *)
(***************************************************************************)
EvidenceType ==
  [facts : SUBSET FactQuestions, inferred : SUBSET FactQuestions,
   certain : SUBSET FactQuestions, suppressed : SUBSET FactQuestions,
   signals : SUBSET SignalQuestions, claims : SUBSET ClaimQuestions,
   passive : BOOLEAN, warned : BOOLEAN]

\* The part of ArchitectureBaseline the planner reads.  userFact: an answer
\* has added a fact of its own (status user_confirmed or user_corrected, high
\* confidence, current), which is never asked about.
BaselineType ==
  [facts : SUBSET FactQuestions, inferred : SUBSET FactQuestions,
   certain : SUBSET FactQuestions, userFact : BOOLEAN]

BaselineOf(e) ==
  [facts |-> e.facts, inferred |-> e.inferred, certain |-> e.certain,
   userFact |-> FALSE]

(***************************************************************************)
(* planBaselineInterviewQuestions.  Claims (their questions and what they  *)
(* suppress) and the passive context take part only when the caller passes *)
(* them.                                                                   *)
(***************************************************************************)
ShouldAskAboutFact(b, q) == q \in b.inferred \/ q \notin b.certain

Candidates(b, signals, claims, suppressed) ==
  {q \in b.facts \ suppressed : ShouldAskAboutFact(b, q)}
    \cup {q \in signals : b.facts # {} \/ b.userFact}
    \cup claims

CandidateScore(b, q) == Score[q] + (IF q \in b.inferred THEN InferredBonus ELSE 0)

RanksBefore(b, q, r) ==
  \/ CandidateScore(b, q) > CandidateScore(b, r)
  \/ CandidateScore(b, q) = CandidateScore(b, r) /\ RankKey[q] < RankKey[r]

\* Mutant: one question too many.
FirstByRankAndOne(b, qs) ==
  {q \in qs : Cardinality({r \in qs : RanksBefore(b, r, q)}) <= QuestionLimit}

FirstByRank(b, qs) ==
  {q \in qs : Cardinality({r \in qs : RanksBefore(b, r, q)}) < QuestionLimit}

PlanQuestions(b, signals, claims, suppressed, passive) ==
  IF passive THEN {} ELSE FirstByRank(b, Candidates(b, signals, claims, suppressed))

\* The questions assessArchitecture plans: claims and context are passed.
AssessedQuestions(e) ==
  PlanQuestions(BaselineOf(e), e.signals, e.claims, e.suppressed, e.passive)

(***************************************************************************)
(* applyBaselineAnswers.  Only the first recorded answer to a question     *)
(* counts, and only if the question is among those passed in.  Confirming  *)
(* a fact, or marking it temporary, takes it out of the inferred ones; a   *)
(* correction, and a confirmation of a question that is about no fact, add *)
(* a fact; a skip changes nothing the planner reads.                       *)
(***************************************************************************)
AnswerActions == {"confirm", "correct", "mark_temporary", "skip"}

EffectiveAnswers(asked, given) ==
  {a \in given : /\ a.question \in asked
                 /\ \A b \in given : b.question = a.question => a.at <= b.at}

Settles(a) == a.action \in {"confirm", "mark_temporary"}

ApplyAnswers(b, asked, given) ==
  LET effective == EffectiveAnswers(asked, given)
  IN [b EXCEPT
        !.inferred = @ \ {a.question : a \in {x \in effective : Settles(x)}},
        !.userFact = @ \/ \E a \in effective :
                            \/ a.action = "correct"
                            \/ Settles(a) /\ a.question \notin b.facts]

(***************************************************************************)
(* applyPriorAnswers: with no answer the assessment stands; otherwise the  *)
(* answers are merged and the questions planned again, from the baseline   *)
(* and the telemetry alone.                                                *)
(***************************************************************************)
ApplyPriorAnswers(b, asked, given, signals) ==
  IF given = {}
    THEN [baseline |-> b, questions |-> asked]
    ELSE LET merged == ApplyAnswers(b, asked, given)
         IN [baseline  |-> merged,
             questions |-> PlanQuestions(merged, signals, {}, {}, FALSE)]

\* Mutant: only skipped questions are closed.
OpenUnlessSkipped(questions, given) ==
  {q \in questions : \A a \in given : a.question = q => a.action # "skip"}

\* filterOpenQuestions
OpenQuestions(questions, given) ==
  {q \in questions : \A a \in given : a.question # q}
=============================================================================
