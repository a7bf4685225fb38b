---------------------- MODULE AssessmentStore_proofs ----------------------
(***************************************************************************)
(* Proofs about AssessmentStore, for any number of processes, any evidence *)
(* and any list of reports.                                                *)
(***************************************************************************)
EXTENDS AssessmentStore, Places, TLAPS

-----------------------------------------------------------------------------
(***************************************************************************)
(* The interview: what its functions return.                               *)
(***************************************************************************)

\* A fresh baseline of what was found is a baseline.
LEMMA BaselineOfType ==
  ASSUME NEW e \in EvidenceType
  PROVE  BaselineOf(e) \in BaselineType
BY DEF BaselineOf, BaselineType, EvidenceType

\* The planner asks only questions it has candidates for.
LEMMA PlannedAreQuestions ==
  ASSUME NEW b \in BaselineType, NEW sigs \in SUBSET SignalQuestions,
         NEW cls \in SUBSET ClaimQuestions, NEW supp, NEW passive
  PROVE  PlanQuestions(b, sigs, cls, supp, passive) \subseteq Questions
BY DEF PlanQuestions, FirstByRank, Candidates, Questions, BaselineType

\* Merging answers keeps a baseline a baseline.
LEMMA ApplyAnswersType ==
  ASSUME NEW b \in BaselineType, NEW asked, NEW given
  PROVE  ApplyAnswers(b, asked, given) \in BaselineType
BY DEF ApplyAnswers, BaselineType

\* Prior answers leave a baseline and a set of questions.
LEMMA ApplyPriorAnswersType ==
  ASSUME NEW b \in BaselineType, NEW asked \in SUBSET Questions, NEW given,
         NEW sigs \in SUBSET SignalQuestions
  PROVE  /\ ApplyPriorAnswers(b, asked, given, sigs).baseline \in BaselineType
         /\ ApplyPriorAnswers(b, asked, given, sigs).questions \in SUBSET Questions
<1> DEFINE merged == ApplyAnswers(b, asked, given)
<1>1. merged \in BaselineType
  BY ApplyAnswersType
<1>2. PlanQuestions(merged, sigs, {}, {}, FALSE) \subseteq Questions
  BY <1>1, PlannedAreQuestions
<1>. QED
  BY <1>1, <1>2 DEF ApplyPriorAnswers

\* Filtering keeps a set of questions one.
LEMMA OpenQuestionsSubset ==
  ASSUME NEW qs \in SUBSET Questions, NEW given
  PROVE  OpenQuestions(qs, given) \in SUBSET Questions
BY DEF OpenQuestions

\* The candidates are ordered: by score, then by key.
LEMMA RankingIsOrder ==
  ASSUME NEW b \in BaselineType, NEW qs \in SUBSET Questions
  PROVE  IsOrder(qs, [q \in qs |-> {r \in qs : RanksBefore(b, r, q)}])
<1> DEFINE before == [q \in qs |-> {r \in qs : RanksBefore(b, r, q)}]
<1>1. \A q \in qs : CandidateScore(b, q) \in Nat /\ RankKey[q] \in Nat
  BY ScoreAssumption DEF CandidateScore, InferredBonus
<1>2. \A q \in qs : ~RanksBefore(b, q, q)
  BY <1>1 DEF RanksBefore
<1>3. \A q, r, t \in qs :
         RanksBefore(b, q, r) /\ RanksBefore(b, r, t) => RanksBefore(b, q, t)
  BY <1>1 DEF RanksBefore
<1>4. \A q, r \in qs : q # r => RanksBefore(b, q, r) \/ RanksBefore(b, r, q)
  BY <1>1, ScoreAssumption DEF RanksBefore
<1> QED
  BY <1>2, <1>3, <1>4 DEF IsOrder

\* The planner keeps at most as many questions as its limit.
LEMMA FirstByRankBounded ==
  ASSUME NEW b \in BaselineType, NEW qs \in SUBSET Questions, IsFiniteSet(qs)
  PROVE  /\ IsFiniteSet(FirstByRank(b, qs))
         /\ Cardinality(FirstByRank(b, qs)) <= QuestionLimit
<1> DEFINE before == [q \in qs |-> {r \in qs : RanksBefore(b, r, q)}]
           first == {q \in qs : Place(before, q) < QuestionLimit}
<1>1. IsOrder(qs, before)
  BY RankingIsOrder
<1>2. QuestionLimit \in Nat
  BY LimitAssumption
<1>3. IsFiniteSet(first) /\ Cardinality(first) <= QuestionLimit
  <2> HIDE DEF before
  <2> QED
    BY <1>1, <1>2, FirstPlaces
<1>4. FirstByRank(b, qs) = first
  <2>1. \A q \in qs : Place(before, q) \in Nat
    BY <1>1, PlaceType
  <2>2. \A q \in qs : Place(before, q) = Cardinality({r \in qs : RanksBefore(b, r, q)})
    BY DEF Place
  <2> QED
    BY <1>2, <2>1, <2>2 DEF FirstByRank
<1> QED
  BY <1>3, <1>4

\* Few: no more than an assessment may ask.
Few(qs) == IsFiniteSet(qs) /\ Cardinality(qs) <= QuestionLimit

LEMMA FewOfFew ==
  ASSUME NEW qs, Few(qs), NEW rs \in SUBSET qs
  PROVE  Few(rs)
<1>1. /\ IsFiniteSet(rs) /\ Cardinality(rs) <= Cardinality(qs)
      /\ Cardinality(rs) \in Nat /\ Cardinality(qs) \in Nat
  BY FS_Subset, FS_CardinalityType DEF Few
<1> QED
  BY <1>1, LimitAssumption DEF Few

\* What the planner asks is little, and of a fact only one that is uncertain.
LEMMA PlannedAreFew ==
  ASSUME NEW b \in BaselineType, NEW sigs \in SUBSET SignalQuestions,
         NEW cls \in SUBSET ClaimQuestions, NEW supp \in SUBSET FactQuestions, NEW passive,
         IsFiniteSet(b.facts), IsFiniteSet(sigs), IsFiniteSet(cls)
  PROVE  /\ Few(PlanQuestions(b, sigs, cls, supp, passive))
         /\ PlanQuestions(b, sigs, cls, supp, passive) \cap supp = {}
         /\ \A q \in PlanQuestions(b, sigs, cls, supp, passive) \cap FactQuestions :
              q \in b.facts /\ ShouldAskAboutFact(b, q)
<1> DEFINE cs == Candidates(b, sigs, cls, supp)
           planned == PlanQuestions(b, sigs, cls, supp, passive)
<1>1. /\ cs \in SUBSET Questions /\ cs \cap supp = {}
      /\ \A q \in cs \cap FactQuestions : q \in b.facts /\ ShouldAskAboutFact(b, q)
  BY QuestionsAssumption DEF Candidates, Questions, BaselineType
<1>2. IsFiniteSet(cs)
  <2>1. IsFiniteSet(b.facts \cup sigs)
    BY FS_Union
  <2>2. IsFiniteSet((b.facts \cup sigs) \cup cls)
    BY <2>1, FS_Union
  <2>3. cs \in SUBSET ((b.facts \cup sigs) \cup cls)
    BY DEF Candidates
  <2> QED
    BY <2>2, <2>3, FS_Subset
<1>3. planned = {} \/ planned = FirstByRank(b, cs)
  BY DEF PlanQuestions
<1>4. planned \subseteq cs
  BY <1>3 DEF FirstByRank
<1>5. Few(planned)
  <2>1. Few({})
    BY FS_EmptySet, LimitAssumption DEF Few
  <2>2. Few(FirstByRank(b, cs))
    BY <1>1, <1>2, FirstByRankBounded DEF Few
  <2> QED
    BY <1>3, <2>1, <2>2
<1> QED
  BY <1>1, <1>4, <1>5

-----------------------------------------------------------------------------
(***************************************************************************)
(* The packs.                                                              *)
(***************************************************************************)

\* captureAssessment builds a well-formed run, stamped with the time it was
\* given and continuing the run it has read.
LEMMA CapturePackType ==
  ASSUME NEW s \in SeenType, NEW e \in EvidenceType, NEW now \in Nat
  PROVE  /\ CapturePack(s, e, now) \in PackType
         /\ CapturePack(s, e, now).id = now
         /\ CapturePack(s, e, now).run.previous = s.latest
         /\ CapturePack(s, e, now).answers = s.answers
         /\ CapturePack(s, e, now).decisions = s.decisions
<1> DEFINE prior == ApplyPriorAnswers(BaselineOf(e), AssessedQuestions(e),
                                      s.answers, e.signals)
           open == OpenQuestions(prior.questions, s.answers)
           life == LifecycleForCapture(s.answers # {} \/ s.decisions # {}, open, e.warned)
<1>1. /\ e.signals \in SUBSET SignalQuestions
      /\ e.claims \in SUBSET ClaimQuestions
  BY DEF EvidenceType
<1>2. AssessedQuestions(e) \in SUBSET Questions
  BY <1>1, BaselineOfType, PlannedAreQuestions DEF AssessedQuestions
<1>3. prior.baseline \in BaselineType /\ prior.questions \in SUBSET Questions
  BY <1>1, <1>2, BaselineOfType, ApplyPriorAnswersType
<1>4. open \in SUBSET Questions
  BY <1>3, OpenQuestionsSubset
<1>5. life \in Lifecycle
  BY DEF LifecycleForCapture, Lifecycle
<1> HIDE DEF prior, open, life
<1>6. CapturePack(s, e, now) =
        [id |-> now, previous |-> s.latest,
         run |-> [previous |-> s.latest, lifecycle |-> life, telemetry |-> e,
                  baseline |-> prior.baseline, open |-> open],
         answers |-> s.answers, decisions |-> s.decisions]
  BY DEF CapturePack, prior, open, life
<1>7. [previous |-> s.latest, lifecycle |-> life, telemetry |-> e,
       baseline |-> prior.baseline, open |-> open] \in RunRecord
  BY <1>3, <1>4, <1>5 DEF RunRecord, SeenType, RunId
<1>. QED
  BY <1>6, <1>7 DEF PackType, SeenType, RunId

\* applyPersistedAnswer keeps the id of the run it has read.
LEMMA AnswerPackType ==
  ASSUME NEW s \in SeenType, runs[s.latest] \in RunRecord
  PROVE  /\ AnswerPack(s) \in PackType
         /\ AnswerPack(s).id = s.latest
         /\ AnswerPack(s).answers = s.answers
         /\ AnswerPack(s).decisions = s.decisions
<1> DEFINE run == runs[s.latest]
           prior == ApplyPriorAnswers(run.baseline, run.open, s.answers,
                                      run.telemetry.signals)
           open == OpenQuestions(prior.questions, s.answers)
           life == IF open # {} THEN "interview_open" ELSE "interview_updated"
<1>1. /\ run \in RunRecord
      /\ run.baseline \in BaselineType
      /\ run.open \in SUBSET Questions
      /\ run.telemetry.signals \in SUBSET SignalQuestions
  BY DEF RunRecord, EvidenceType
<1>2. prior.baseline \in BaselineType /\ prior.questions \in SUBSET Questions
  BY <1>1, ApplyPriorAnswersType
<1>3. open \in SUBSET Questions
  BY <1>2, OpenQuestionsSubset
<1>4. life \in Lifecycle
  BY DEF Lifecycle
<1> HIDE DEF prior, open, life, run
<1>5. AnswerPack(s) =
        [id |-> s.latest, previous |-> NoRun,
         run |-> [run EXCEPT !.lifecycle = life, !.baseline = prior.baseline,
                             !.open = open],
         answers |-> s.answers, decisions |-> s.decisions]
  BY DEF AnswerPack, prior, open, life, run
<1>6. [run EXCEPT !.lifecycle = life, !.baseline = prior.baseline, !.open = open]
        \in RunRecord
  BY <1>1, <1>2, <1>3, <1>4 DEF RunRecord
<1>. QED
  BY <1>5, <1>6 DEF PackType, SeenType, RunId, NoRun

\* confirmPersistedDecision likewise.
LEMMA DecisionPackType ==
  ASSUME NEW s \in SeenType, runs[s.latest] \in RunRecord
  PROVE  /\ DecisionPack(s) \in PackType
         /\ DecisionPack(s).id = s.latest
         /\ DecisionPack(s).answers = s.answers
         /\ DecisionPack(s).decisions = s.decisions
<1>1. [runs[s.latest] EXCEPT !.lifecycle = "decision_confirmed"] \in RunRecord
  BY DEF RunRecord, Lifecycle
<1>. QED
  BY <1>1 DEF DecisionPack, PackType, SeenType, RunId, NoRun

\* The pack of a command that returns nothing is a pack.
LEMMA NoPackType == NoPack \in PackType
BY DEF NoPack, PackType, RunRecord, RunId, NoRun, Lifecycle, EvidenceType,
       NoEvidence, BaselineOf, BaselineType

(***************************************************************************)
(* What a fresh assessment asks.                                           *)
(***************************************************************************)
FiniteEvidence(e) ==
  IsFiniteSet(e.facts) /\ IsFiniteSet(e.signals) /\ IsFiniteSet(e.claims)

\* Few questions, of facts the evidence has and the baseline is unsure about.
Asks(run) ==
  /\ Few(run.open)
  /\ \A q \in run.open \cap FactQuestions :
       q \in run.telemetry.facts /\ ShouldAskAboutFact(run.baseline, q)

\* A fresh assessment with earlier answers merged into it.
Merged(e, given) ==
  ApplyPriorAnswers(BaselineOf(e), AssessedQuestions(e), given, e.signals)

\* Merging earlier answers into a fresh assessment plans it anew, by the same
\* rules, except that claims no longer suppress anything.
LEMMA PriorAnswersAsk ==
  ASSUME NEW e \in EvidenceType, FiniteEvidence(e), NEW given
  PROVE  /\ Few(Merged(e, given).questions)
         /\ \A q \in Merged(e, given).questions \cap FactQuestions :
              q \in e.facts /\ ShouldAskAboutFact(Merged(e, given).baseline, q)
         /\ given = {} => Merged(e, given).questions \cap e.suppressed = {}
<1> DEFINE b == BaselineOf(e)
           asked == AssessedQuestions(e)
           merged == ApplyAnswers(b, asked, given)
           prior == Merged(e, given)
<1>0. prior = ApplyPriorAnswers(b, asked, given, e.signals)
  BY DEF Merged
<1>1. /\ b \in BaselineType /\ merged \in BaselineType
      /\ b.facts = e.facts /\ merged.facts = e.facts
  <2>1. b \in BaselineType
    BY BaselineOfType
  <2>2. merged \in BaselineType
    BY <2>1, ApplyAnswersType
  <2>3. b.facts = e.facts
    BY DEF BaselineOf
  <2>4. merged.facts = b.facts
    BY <2>1 DEF ApplyAnswers, BaselineType
  <2> QED
    BY <2>1, <2>2, <2>3, <2>4
<1>2. /\ e.signals \in SUBSET SignalQuestions /\ e.claims \in SUBSET ClaimQuestions
      /\ e.suppressed \in SUBSET FactQuestions
      /\ IsFiniteSet(b.facts) /\ IsFiniteSet(merged.facts)
      /\ IsFiniteSet(e.signals) /\ IsFiniteSet(e.claims)
  BY <1>1 DEF EvidenceType, FiniteEvidence
<1>3. CASE given = {}
  <2>1. prior.baseline = b /\ prior.questions = asked
    BY <1>0, <1>3 DEF ApplyPriorAnswers
  <2>2. asked = PlanQuestions(b, e.signals, e.claims, e.suppressed, e.passive)
    BY DEF AssessedQuestions
  <2>3. /\ Few(asked) /\ asked \cap e.suppressed = {}
        /\ \A q \in asked \cap FactQuestions : q \in b.facts /\ ShouldAskAboutFact(b, q)
    <3> HIDE DEF b, asked, merged, prior
    <3> QED
      BY <1>1, <1>2, <2>2, PlannedAreFew
  <2> QED
    BY <1>1, <2>1, <2>3
<1>4. CASE given # {}
  <2>1. prior.baseline = merged
    BY <1>0, <1>4 DEF ApplyPriorAnswers
  <2> DEFINE planned == PlanQuestions(merged, e.signals, {}, {}, FALSE)
  <2>2. prior.questions = planned
    <3>1. prior = [baseline |-> merged, questions |-> planned]
      BY <1>0, <1>4 DEF ApplyPriorAnswers
    <3> HIDE DEF planned, prior, merged
    <3> QED
      BY <3>1
  <2>3. /\ Few(prior.questions)
        /\ \A q \in prior.questions \cap FactQuestions :
             q \in merged.facts /\ ShouldAskAboutFact(merged, q)
    <3>1. /\ {} \in SUBSET ClaimQuestions /\ {} \in SUBSET FactQuestions
          /\ IsFiniteSet({})
      BY FS_EmptySet
    <3>2. /\ Few(planned)
          /\ \A q \in planned \cap FactQuestions :
               q \in merged.facts /\ ShouldAskAboutFact(merged, q)
      <4> HIDE DEF merged
      <4> QED
        BY <1>1, <1>2, <3>1, PlannedAreFew
    <3> QED
      BY <2>2, <3>2
  <2> QED
    BY <1>1, <1>4, <2>1, <2>3
<1> QED
  BY <1>3, <1>4

\* captureAssessment: the same for the run it saves, which besides asks nothing
\* that the answers it has read answer.
LEMMA CapturePackAsks ==
  ASSUME NEW s \in SeenType, NEW e \in EvidenceType, FiniteEvidence(e), NEW now \in Nat
  PROVE  /\ Asks(CapturePack(s, e, now).run)
         /\ \A a \in s.answers : a.question \notin CapturePack(s, e, now).run.open
         /\ s.answers = {} => CapturePack(s, e, now).run.open
                               \cap CapturePack(s, e, now).run.telemetry.suppressed = {}
<1> DEFINE prior == Merged(e, s.answers)
           run == CapturePack(s, e, now).run
<1>1. /\ run.open = OpenQuestions(prior.questions, s.answers)
      /\ run.telemetry = e /\ run.baseline = prior.baseline
  BY DEF CapturePack, Merged
<1>2. /\ run.open \in SUBSET prior.questions
      /\ \A a \in s.answers : a.question \notin run.open
  BY <1>1 DEF OpenQuestions
<1>3. /\ Few(prior.questions)
      /\ \A q \in prior.questions \cap FactQuestions :
           q \in e.facts /\ ShouldAskAboutFact(prior.baseline, q)
      /\ s.answers = {} => prior.questions \cap e.suppressed = {}
  BY PriorAnswersAsk
<1> HIDE DEF prior, run
<1>4. Few(run.open)
  BY <1>2, <1>3, FewOfFew
<1>5. Asks(run)
  BY <1>1, <1>2, <1>3, <1>4 DEF Asks
<1>6. s.answers = {} => run.open \cap run.telemetry.suppressed = {}
  BY <1>1, <1>2, <1>3
<1> QED
  BY <1>2, <1>5, <1>6 DEF run

\* applyPersistedAnswer shows no question that is answered.
LEMMA AnswerPackAsks ==
  ASSUME NEW s \in SeenType, runs[s.latest] \in RunRecord
  PROVE  \A a \in s.answers : a.question \notin AnswerPack(s).run.open
<1> DEFINE run == runs[s.latest]
           prior == ApplyPriorAnswers(run.baseline, run.open, s.answers,
                                      run.telemetry.signals)
<1>1. AnswerPack(s).run.open = OpenQuestions(prior.questions, s.answers)
  BY DEF AnswerPack, RunRecord
<1> HIDE DEF prior
<1> QED
  BY <1>1 DEF OpenQuestions

\* The file a process is writing is one of the reports.
LEMMA CurrentFileIsReport ==
  ASSUME NEW p \in Procs, written[p] \in Nat, written[p] < Len(Artifacts)
  PROVE  CurrentFile(p) \in FileNames
<1>1. written[p] + 1 \in DOMAIN Artifacts
  BY ArtifactsAssumption
<1>. QED
  BY <1>1 DEF CurrentFile, FileNames, Range

-----------------------------------------------------------------------------
(***************************************************************************)
(* The inductive invariant.  InFlightIsBacked is not inductive by itself:  *)
(* a capture's predecessor is not younger than it only if no saved run is  *)
(* from the future, and a file is left to write only if they are written   *)
(* in order.                                                               *)
(***************************************************************************)
IInv == TypeOK /\ RunsArePast /\ FilesInOrder /\ InFlightIsBacked /\ ReportsShowOnlyStored

\* What a step of another process may do to the database.
TablesGrow ==
  /\ DOMAIN runs \subseteq DOMAIN runs'
  /\ \A id \in DOMAIN runs : runs'[id] = runs[id]
  /\ answers \subseteq answers'
  /\ decisions \subseteq decisions'
  /\ clock' \in Nat /\ clock <= clock'

LocalsKept(q) ==
  /\ pc'[q] = pc[q] /\ command'[q] = command[q] /\ seen'[q] = seen[q]
  /\ pack'[q] = pack[q] /\ written'[q] = written[q]

\* The locals of every process but p are kept.
OthersKept(p) == \A q \in Procs \ {p} : LocalsKept(q)

\* A process that does nothing stays backed while the tables grow.
LEMMA BackedStays ==
  ASSUME TypeOK, TablesGrow, NEW q \in Procs, Backed(q), LocalsKept(q)
  PROVE  Backed(q)'
<1>1. pack[q].id \in Nat /\ clock \in Nat
  BY DEF TypeOK, PackType, RunId
<1>2. /\ seen[q].latest \in DOMAIN runs' \cup {NoRun}
      /\ seen[q].answers \cup pack[q].answers \subseteq answers'
      /\ seen[q].decisions \cup pack[q].decisions \subseteq decisions'
  BY DEF Backed, TablesGrow
<1>3. pc[q] \in {"append", "readAnswers", "readDecisions"} =>
         \/ command[q].kind = "capture"
         \/ seen[q].latest \in DOMAIN runs'
  BY DEF Backed, TablesGrow
<1>4. pc[q] = "append" =>
         /\ command[q].kind # "capture"
         /\ command[q].kind = "answer" =>
              command[q].question \in runs'[seen[q].latest].open
  BY DEF Backed, TablesGrow
<1>5. pc[q] = "saveRun" =>
         /\ command[q].kind = "capture"
         /\ pack[q].id \in 1..clock'
         /\ pack[q].run.previous \in DOMAIN runs' \cup {NoRun}
         /\ pack[q].run.previous <= pack[q].id
  <2> SUFFICES ASSUME pc[q] = "saveRun"
               PROVE  /\ command[q].kind = "capture"
                      /\ pack[q].id \in 1..clock'
                      /\ pack[q].run.previous \in DOMAIN runs' \cup {NoRun}
                      /\ pack[q].run.previous <= pack[q].id
    OBVIOUS
  <2>1. /\ command[q].kind = "capture"
        /\ pack[q].id \in 1..clock
        /\ pack[q].run.previous \in DOMAIN runs \cup {NoRun}
        /\ pack[q].run.previous <= pack[q].id
    BY DEF Backed
  <2>2. pack[q].id \in 1..clock'
    BY <1>1, <2>1 DEF TablesGrow
  <2>. QED
    BY <2>1, <2>2 DEF TablesGrow
<1>6. pc[q] \in {"truncate", "put", "index"} => pack[q].id \in DOMAIN runs'
  BY DEF Backed, TablesGrow
<1>. QED
  BY <1>2, <1>3, <1>4, <1>5, <1>6 DEF Backed, LocalsKept

\* So it is enough to look at the process that takes the step.
LEMMA InFlightStep ==
  ASSUME TypeOK, InFlightIsBacked, TablesGrow, NEW p \in Procs, OthersKept(p), Backed(p)'
  PROVE  InFlightIsBacked'
<1> SUFFICES ASSUME NEW q \in Procs PROVE Backed(q)'
  BY DEF InFlightIsBacked
<1>1. CASE q = p
  BY <1>1
<1>2. CASE q # p
  BY <1>2, BackedStays DEF InFlightIsBacked, OthersKept
<1>. QED
  BY <1>1, <1>2

\* Likewise for the place in the list of files.
LEMMA FilesInOrderStep ==
  ASSUME FilesInOrder, NEW p \in Procs, OthersKept(p),
         pc'[p] \in {"truncate", "put"} => written'[p] < Len(Artifacts),
         pc'[p] \notin {"truncate", "put", "index"} => written'[p] = 0
  PROVE  FilesInOrder'
<1> SUFFICES ASSUME NEW q \in Procs
             PROVE  /\ pc'[q] \in {"truncate", "put"} => written'[q] < Len(Artifacts)
                    /\ pc'[q] \notin {"truncate", "put", "index"} => written'[q] = 0
  BY DEF FilesInOrder
<1>1. CASE q = p
  BY <1>1
<1>2. CASE q # p
  BY <1>2 DEF FilesInOrder, OthersKept, LocalsKept
<1>. QED
  BY <1>1, <1>2

\* A file that is not touched stays within the tables.
LEMMA ReportsStay ==
  ASSUME TypeOK, ReportsShowOnlyStored, TablesGrow, files' = files
  PROVE  ReportsShowOnlyStored'
BY DEF ReportsShowOnlyStored, TablesGrow

\* Steps that leave the tables alone let them grow, by nothing.
LEMMA TablesUnchanged ==
  ASSUME TypeOK, UNCHANGED <<clock, runs, answers, decisions>>
  PROVE  TablesGrow
BY DEF TablesGrow, TypeOK

\* A command that ends, however it ends, keeps the types of the locals, and
\* holds nothing.
LEMMA ReturnStep ==
  ASSUME TypeOK, InFlightIsBacked, FilesInOrder, TablesGrow,
         UNCHANGED command, NEW p \in Procs, NEW how \in Outcome, Return(p, how)
  PROVE  /\ pc' \in [Procs -> Step]
         /\ seen' \in [Procs -> SeenType]
         /\ pack' \in [Procs -> PackType]
         /\ written' \in [Procs -> 0..Len(Artifacts)]
         /\ outcome' \in [Procs -> Outcome]
         /\ FilesInOrder'
         /\ InFlightIsBacked'
<1>1. NothingSeen \in SeenType
  BY DEF NothingSeen, SeenType, RunId, NoRun
<1>2. Len(Artifacts) \in Nat
  BY ArtifactsAssumption
<1>3. /\ pc' \in [Procs -> Step]
      /\ seen' \in [Procs -> SeenType]
      /\ written' \in [Procs -> 0..Len(Artifacts)]
      /\ outcome' \in [Procs -> Outcome]
  BY <1>1, <1>2 DEF Return, TypeOK, Step
<1>4. pack' \in [Procs -> PackType]
  BY NoPackType DEF Return, TypeOK
<1>5. OthersKept(p)
  BY DEF OthersKept, LocalsKept, Return, TypeOK
<1>6. /\ pc'[p] = "idle" /\ seen'[p] = NothingSeen /\ written'[p] = 0
      /\ pack'[p] \in {pack[p], NoPack}
  BY DEF Return, TypeOK
<1>7. /\ pack'[p].answers \subseteq answers'
      /\ pack'[p].decisions \subseteq decisions'
  <2>1. pack[p].answers \subseteq answers /\ pack[p].decisions \subseteq decisions
    BY DEF InFlightIsBacked, Backed
  <2>2. NoPack.answers = {} /\ NoPack.decisions = {}
    BY DEF NoPack
  <2>. QED
    BY <1>6, <2>1, <2>2 DEF TablesGrow
<1>8. Backed(p)'
  BY <1>6, <1>7 DEF Backed, NothingSeen
<1>9. FilesInOrder'
  BY <1>5, <1>6, FilesInOrderStep
<1>10. InFlightIsBacked'
  BY <1>5, <1>8, InFlightStep
<1>. QED
  BY <1>3, <1>4, <1>9, <1>10

-----------------------------------------------------------------------------
(***************************************************************************)
(* The initial state, and one lemma for each action.                       *)
(***************************************************************************)

\* Nothing is stored, read or rendered yet.
LEMMA InitIInv == Init => IInv
<1> SUFFICES ASSUME Init PROVE IInv
  OBVIOUS
<1>1. NothingSeen \in SeenType /\ Len(Artifacts) \in Nat
  BY ArtifactsAssumption DEF NothingSeen, SeenType, RunId, NoRun
<1>2. [kind |-> "capture"] \in Command
  BY DEF Command
<1>3. DOMAIN runs = {}
  BY DEF Init
<1>4. TypeOK
  <2>1. clock \in Nat \ {0} /\ latest = NoRun /\ answers = {} /\ decisions = {}
    BY DEF Init
  <2>2. indexed = {}
    BY DEF Init
  <2>3. files \in [FileNames -> [state : FileState, pack : PackType]]
    BY NoPackType DEF Init, FileState
  <2>4. /\ pc \in [Procs -> Step] /\ command \in [Procs -> Command]
        /\ seen \in [Procs -> SeenType] /\ pack \in [Procs -> PackType]
        /\ written \in [Procs -> 0..Len(Artifacts)] /\ outcome \in [Procs -> Outcome]
    BY <1>1, <1>2, NoPackType DEF Init, Step, Outcome
  <2>5. left \in [commands : Nat, faults : Nat, crashes : Nat]
    BY BoundsAssumption DEF Init
  <2>. QED
    BY <1>3, <2>1, <2>2, <2>3, <2>4, <2>5 DEF TypeOK
<1>5. RunsArePast
  BY <1>3 DEF RunsArePast
<1>6. FilesInOrder
  BY DEF Init, FilesInOrder
<1>7. InFlightIsBacked
  BY DEF Init, InFlightIsBacked, Backed, NothingSeen, NoPack
<1>8. ReportsShowOnlyStored
  BY DEF Init, ReportsShowOnlyStored
<1>. QED
  BY <1>4, <1>5, <1>6, <1>7, <1>8 DEF IInv

\* Time passing leaves every capture in the past.
LEMMA TickIInv ==
  ASSUME IInv, Tick
  PROVE  IInv'
<1>1. /\ clock \in Nat \ {0} /\ clock' = clock + 1
      /\ UNCHANGED <<runs, latest, answers, decisions, indexed, files, pc, command,
                     seen, pack, written, outcome, left>>
  BY DEF IInv, TypeOK, Tick, dbVars, procVars
<1>2. TablesGrow
  BY <1>1 DEF TablesGrow
<1>3. TypeOK'
  BY <1>1 DEF IInv, TypeOK
<1>4. RunsArePast'
  BY <1>1 DEF IInv, RunsArePast, TypeOK
<1>5. FilesInOrder'
  BY <1>1 DEF IInv, FilesInOrder
<1>6. InFlightIsBacked'
  <2> SUFFICES ASSUME NEW q \in Procs PROVE Backed(q)'
    BY DEF InFlightIsBacked
  <2>. QED
    BY <1>1, <1>2, BackedStays DEF IInv, InFlightIsBacked, LocalsKept
<1>7. ReportsShowOnlyStored'
  BY <1>1, <1>2, ReportsStay DEF IInv
<1>. QED
  BY <1>3, <1>4, <1>5, <1>6, <1>7 DEF IInv

\* What a command brings.
LEMMA CommandParts ==
  ASSUME NEW c \in Command
  PROVE  /\ c.kind \in {"capture", "answer", "decide"}
         /\ c.kind = "answer" => c.question \in Questions /\ c.action \in AnswerActions
         /\ c.kind = "decide" => c.decision \in Decisions
BY DEF Command

\* Taking from what is left leaves numbers.
LEMMA OneLess ==
  ASSUME NEW l \in [commands : Nat, faults : Nat, crashes : Nat]
  PROVE  /\ l.commands > 0 =>
              [l EXCEPT !.commands = @ - 1] \in [commands : Nat, faults : Nat, crashes : Nat]
         /\ l.faults > 0 =>
              [l EXCEPT !.faults = @ - 1] \in [commands : Nat, faults : Nat, crashes : Nat]
         /\ l.crashes > 0 =>
              [l EXCEPT !.crashes = @ - 1] \in [commands : Nat, faults : Nat, crashes : Nat]
         /\ l.commands > 0 /\ l.faults > 0 =>
              [l EXCEPT !.commands = @ - 1, !.faults = @ - 1]
                \in [commands : Nat, faults : Nat, crashes : Nat]
<1>1. l.commands \in Nat /\ l.faults \in Nat /\ l.crashes \in Nat
  OBVIOUS
<1>2. /\ l.commands > 0 => l.commands - 1 \in Nat
      /\ l.faults > 0 => l.faults - 1 \in Nat
      /\ l.crashes > 0 => l.crashes - 1 \in Nat
  BY <1>1
<1>. QED
  BY <1>1, <1>2

\* A command starts by reading the latest run; only an accepted one goes on.
LEMMA BeginIInv ==
  ASSUME IInv, NEW p \in Procs, NEW c \in Commands, Begin(p, c)
  PROVE  IInv'
<1>1. UNCHANGED <<clock, runs, latest, answers, decisions, indexed, files>>
  BY DEF Begin, dbVars
<1>2. c \in Command
  BY InputsAssumption
<1>3. TypeOK /\ Len(Artifacts) \in Nat /\ Len(Artifacts) > 0
  BY ArtifactsAssumption DEF IInv
<1>4. TablesGrow
  BY <1>1, <1>3, TablesUnchanged
<1>5. OthersKept(p)
  BY <1>3 DEF OthersKept, LocalsKept, Begin, TypeOK
<1>6. /\ command'[p] = c /\ pack'[p] = NoPack /\ written'[p] = 0
      /\ \/ Accepted(c) /\ pc'[p] = FirstStep(c)
            /\ seen'[p] = [NothingSeen EXCEPT !.latest = latest]
         \/ pc'[p] = "idle" /\ seen'[p] = NothingSeen
  BY <1>3 DEF Begin, TypeOK
<1>7. TypeOK'
  <2>1. NothingSeen \in SeenType /\ [NothingSeen EXCEPT !.latest = latest] \in SeenType
    <3>1. latest \in Nat
      BY <1>3 DEF TypeOK, NoRun
    <3>. QED
      BY <3>1 DEF NothingSeen, SeenType, RunId, NoRun
  <2>2. pc' \in [Procs -> Step] /\ outcome' \in [Procs -> Outcome]
    BY <1>3 DEF Begin, TypeOK, FirstStep, Step, Outcome
  <2>3. command' \in [Procs -> Command] /\ pack' \in [Procs -> PackType]
    BY <1>2, <1>3, NoPackType DEF Begin, TypeOK
  <2>4. seen' \in [Procs -> SeenType]
    BY <1>3, <2>1 DEF Begin, TypeOK
  <2>5. written' \in [Procs -> 0..Len(Artifacts)]
    BY <1>3 DEF Begin, TypeOK
  <2>6. left' \in [commands : Nat, faults : Nat, crashes : Nat]
    BY <1>3, OneLess DEF Begin, TypeOK
  <2>. QED
    BY <1>1, <1>3, <2>2, <2>3, <2>4, <2>5, <2>6 DEF TypeOK
<1>8. RunsArePast'
  BY <1>1 DEF IInv, RunsArePast
<1>9. FilesInOrder'
  <2>1. pc'[p] \in {"idle", "readAnswers", "append"}
    BY <1>6 DEF FirstStep
  <2>. QED
    BY <1>5, <1>6, <2>1, FilesInOrderStep DEF IInv
<1>10. InFlightIsBacked'
  <2>1. CASE /\ Accepted(c) /\ pc'[p] = FirstStep(c)
             /\ seen'[p] = [NothingSeen EXCEPT !.latest = latest]
    <3>1. /\ seen'[p].latest = latest /\ seen'[p].answers = {} /\ seen'[p].decisions = {}
          /\ pack'[p].answers = {} /\ pack'[p].decisions = {}
      BY <1>6, <2>1 DEF NothingSeen, NoPack
    <3>2. latest \in DOMAIN runs \cup {NoRun}
      BY <1>3 DEF TypeOK
    <3>3. pc'[p] \in {"append", "readAnswers"}
          /\ (pc'[p] = "append" => c.kind # "capture")
          /\ (c.kind # "capture" => latest \in DOMAIN runs)
          /\ (c.kind = "answer" => c.question \in runs[latest].open)
      BY <2>1, <3>2 DEF FirstStep, Accepted
    <3>4. Backed(p)'
      BY <1>1, <1>6, <3>1, <3>2, <3>3 DEF Backed
    <3>. QED
      BY <1>3, <1>4, <1>5, <3>4, InFlightStep DEF IInv
  <2>2. CASE pc'[p] = "idle" /\ seen'[p] = NothingSeen
    <3>1. Backed(p)'
      BY <1>6, <2>2 DEF Backed, NothingSeen, NoPack
    <3>. QED
      BY <1>3, <1>4, <1>5, <3>1, InFlightStep DEF IInv
  <2>. QED
    BY <1>6, <2>1, <2>2
<1>11. ReportsShowOnlyStored'
  BY <1>1, <1>3, <1>4, ReportsStay DEF IInv
<1>. QED
  BY <1>7, <1>8, <1>9, <1>10, <1>11 DEF IInv

\* The ways a command can return are outcomes.
LEMMA CatchOutcomesType ==
  ASSUME NEW c
  PROVE  CatchOutcomes(c) \subseteq Outcome
BY DEF CatchOutcomes, Outcome

\* A command that fails at once has read nothing.
LEMMA BeginFailsIInv ==
  ASSUME IInv, NEW p \in Procs, NEW c \in Commands, BeginFails(p, c)
  PROVE  IInv'
<1>1. UNCHANGED <<clock, runs, latest, answers, decisions, indexed, files, pc>>
  BY DEF BeginFails, dbVars
<1>2. c \in Command
  BY InputsAssumption
<1>3. TypeOK /\ Len(Artifacts) \in Nat
  BY ArtifactsAssumption DEF IInv
<1>4. TablesGrow
  BY <1>1, <1>3, TablesUnchanged
<1>5. OthersKept(p)
  BY <1>3 DEF OthersKept, LocalsKept, BeginFails, TypeOK
<1>6. /\ pc'[p] = "idle" /\ pack'[p] = NoPack /\ written'[p] = 0
      /\ seen'[p] = NothingSeen
  BY <1>3 DEF BeginFails, TypeOK
<1>7. TypeOK'
  <2>1. NothingSeen \in SeenType
    BY DEF NothingSeen, SeenType, RunId, NoRun
  <2>2. outcome' \in [Procs -> Outcome]
    BY <1>3, CatchOutcomesType DEF BeginFails, TypeOK
  <2>3. command' \in [Procs -> Command] /\ pack' \in [Procs -> PackType]
    BY <1>2, <1>3, NoPackType DEF BeginFails, TypeOK
  <2>4. seen' \in [Procs -> SeenType] /\ written' \in [Procs -> 0..Len(Artifacts)]
    BY <1>3, <2>1 DEF BeginFails, TypeOK
  <2>5. left' \in [commands : Nat, faults : Nat, crashes : Nat]
    BY <1>3, OneLess DEF BeginFails, TypeOK
  <2>. QED
    BY <1>1, <1>3, <2>2, <2>3, <2>4, <2>5 DEF TypeOK
<1>8. RunsArePast'
  BY <1>1 DEF IInv, RunsArePast
<1>9. FilesInOrder'
  BY <1>5, <1>6, FilesInOrderStep DEF IInv
<1>10. InFlightIsBacked'
  <2>1. Backed(p)'
    BY <1>6 DEF Backed, NothingSeen, NoPack
  <2>. QED
    BY <1>3, <1>4, <1>5, <2>1, InFlightStep DEF IInv
<1>11. ReportsShowOnlyStored'
  BY <1>1, <1>3, <1>4, ReportsStay DEF IInv
<1>. QED
  BY <1>7, <1>8, <1>9, <1>10, <1>11 DEF IInv

\* A command that refuses returns in one of the ways a command can.
LEMMA RefuseReturns ==
  ASSUME NEW p \in Procs, Refuse(p)
  PROVE  \E how \in Outcome : Return(p, how)
BY DEF Refuse, Outcome

\* An answer is added for a run that asked the question.
LEMMA AppendAnswerIInv ==
  ASSUME IInv, NEW p \in Procs, AppendAnswer(p)
  PROVE  IInv'
<1>1. UNCHANGED <<clock, runs, latest, decisions, indexed, files, command, left>>
  BY DEF AppendAnswer
<1>2. TypeOK /\ Backed(p)
  BY DEF IInv, InFlightIsBacked
<1>3. CASE Refuse(p) /\ UNCHANGED answers
  <2>1. TablesGrow
    BY <1>1, <1>2, <1>3, TablesUnchanged
  <2>2. PICK how \in Outcome : Return(p, how)
    BY <1>3, RefuseReturns
  <2>3. /\ TypeOK' /\ FilesInOrder' /\ InFlightIsBacked'
    BY <1>1, <1>2, <1>3, <2>1, <2>2, ReturnStep DEF IInv, TypeOK
  <2>4. RunsArePast' /\ ReportsShowOnlyStored'
    BY <1>1, <1>2, <2>1, ReportsStay DEF IInv, RunsArePast
  <2>. QED
    BY <2>3, <2>4 DEF IInv
<1>4. CASE /\ answers' = answers \cup
                {[question |-> command[p].question, action |-> command[p].action,
                  at |-> clock, run |-> seen[p].latest]}
           /\ pc' = [pc EXCEPT ![p] = AfterAppend]
           /\ UNCHANGED <<seen, pack, written, outcome>>
  <2>1. pc[p] = "append" /\ command[p].kind = "answer"
    BY DEF AppendAnswer
  <2>2. TablesGrow
    BY <1>1, <1>2, <1>4 DEF TablesGrow, TypeOK
  <2>3. OthersKept(p) /\ pc'[p] = "readAnswers"
    BY <1>1, <1>2, <1>4 DEF OthersKept, LocalsKept, TypeOK, AfterAppend
  <2>4. [question |-> command[p].question, action |-> command[p].action,
         at |-> clock, run |-> seen[p].latest] \in AnswerRecord
    <3>1. command[p] \in Command /\ seen[p] \in SeenType /\ clock \in Nat
      BY <1>2 DEF TypeOK
    <3>2. command[p].question \in Questions /\ command[p].action \in AnswerActions
      BY <2>1, <3>1, CommandParts
    <3>. QED
      BY <3>1, <3>2 DEF AnswerRecord, SeenType, RunId
  <2>5. TypeOK'
    <3>1. answers' \subseteq AnswerRecord
      BY <1>2, <1>4, <2>4 DEF TypeOK
    <3>2. pc' \in [Procs -> Step]
      BY <1>2, <1>4 DEF TypeOK, Step, AfterAppend
    <3>. QED
      BY <1>1, <1>2, <1>4, <3>1, <3>2 DEF TypeOK
  <2>6. FilesInOrder'
    <3>1. written'[p] = 0
      BY <1>4, <2>1 DEF IInv, FilesInOrder
    <3>. QED
      BY <2>3, <3>1, FilesInOrderStep DEF IInv
  <2>7. InFlightIsBacked'
    <3>1. Backed(p)'
      BY <1>1, <1>2, <1>4, <2>1, <2>3 DEF Backed
    <3>. QED
      BY <1>2, <2>2, <2>3, <3>1, InFlightStep DEF IInv
  <2>8. RunsArePast' /\ ReportsShowOnlyStored'
    BY <1>1, <1>2, <2>2, ReportsStay DEF IInv, RunsArePast
  <2>. QED
    BY <2>5, <2>6, <2>7, <2>8 DEF IInv
<1>. QED
  BY <1>3, <1>4 DEF AppendAnswer

\* A decision is added for a recorded run.
LEMMA AppendDecisionIInv ==
  ASSUME IInv, NEW p \in Procs, AppendDecision(p)
  PROVE  IInv'
<1>1. UNCHANGED <<clock, runs, latest, answers, indexed, files, command, left>>
  BY DEF AppendDecision
<1>2. TypeOK /\ Backed(p)
  BY DEF IInv, InFlightIsBacked
<1>3. CASE Refuse(p) /\ UNCHANGED decisions
  <2>1. TablesGrow
    BY <1>1, <1>2, <1>3, TablesUnchanged
  <2>2. PICK how \in Outcome : Return(p, how)
    BY <1>3, RefuseReturns
  <2>3. /\ TypeOK' /\ FilesInOrder' /\ InFlightIsBacked'
    BY <1>1, <1>2, <1>3, <2>1, <2>2, ReturnStep DEF IInv, TypeOK
  <2>4. RunsArePast' /\ ReportsShowOnlyStored'
    BY <1>1, <1>2, <2>1, ReportsStay DEF IInv, RunsArePast
  <2>. QED
    BY <2>3, <2>4 DEF IInv
<1>4. CASE /\ decisions' = decisions \cup
                {[id |-> command[p].decision, run |-> seen[p].latest]}
           /\ pc' = [pc EXCEPT ![p] = AfterAppend]
           /\ UNCHANGED <<seen, pack, written, outcome>>
  <2>1. pc[p] = "append" /\ command[p].kind = "decide"
    BY DEF AppendDecision
  <2>2. TablesGrow
    BY <1>1, <1>2, <1>4 DEF TablesGrow, TypeOK
  <2>3. OthersKept(p) /\ pc'[p] = "readAnswers"
    BY <1>1, <1>2, <1>4 DEF OthersKept, LocalsKept, TypeOK, AfterAppend
  <2>4. [id |-> command[p].decision, run |-> seen[p].latest] \in DecisionRecord
    <3>1. command[p] \in Command /\ seen[p] \in SeenType
      BY <1>2 DEF TypeOK
    <3>2. command[p].decision \in Decisions
      BY <2>1, <3>1, CommandParts
    <3>. QED
      BY <3>1, <3>2 DEF DecisionRecord, SeenType, RunId
  <2>5. TypeOK'
    <3>1. decisions' \subseteq DecisionRecord
      BY <1>2, <1>4, <2>4 DEF TypeOK
    <3>2. pc' \in [Procs -> Step]
      BY <1>2, <1>4 DEF TypeOK, Step, AfterAppend
    <3>. QED
      BY <1>1, <1>2, <1>4, <3>1, <3>2 DEF TypeOK
  <2>6. FilesInOrder'
    <3>1. written'[p] = 0
      BY <1>4, <2>1 DEF IInv, FilesInOrder
    <3>. QED
      BY <2>3, <3>1, FilesInOrderStep DEF IInv
  <2>7. InFlightIsBacked'
    <3>1. Backed(p)'
      BY <1>1, <1>2, <1>4, <2>1, <2>3 DEF Backed
    <3>. QED
      BY <1>2, <2>2, <2>3, <3>1, InFlightStep DEF IInv
  <2>8. RunsArePast' /\ ReportsShowOnlyStored'
    BY <1>1, <1>2, <2>2, ReportsStay DEF IInv, RunsArePast
  <2>. QED
    BY <2>5, <2>6, <2>7, <2>8 DEF IInv
<1>. QED
  BY <1>3, <1>4 DEF AppendDecision

\* The answers read are the answers stored.
LEMMA ReadAnswersIInv ==
  ASSUME IInv, NEW p \in Procs, ReadAnswers(p)
  PROVE  IInv'
<1>1. /\ UNCHANGED <<clock, runs, latest, answers, decisions, indexed, files,
                     command, pack, written, outcome, left>>
      /\ pc[p] = "readAnswers"
      /\ seen' = [seen EXCEPT ![p].answers = answers]
      /\ pc' = [pc EXCEPT ![p] = "readDecisions"]
  BY DEF ReadAnswers, dbVars
<1>2. TypeOK /\ Backed(p)
  BY DEF IInv, InFlightIsBacked
<1>3. TablesGrow
  BY <1>1, <1>2, TablesUnchanged
<1>4. OthersKept(p) /\ pc'[p] = "readDecisions"
  BY <1>1, <1>2 DEF OthersKept, LocalsKept, TypeOK
<1>5. /\ seen'[p].latest = seen[p].latest /\ seen'[p].answers = answers
      /\ seen'[p].decisions = seen[p].decisions
  BY <1>1, <1>2 DEF TypeOK, SeenType
<1>6. TypeOK'
  <2>1. seen' \in [Procs -> SeenType]
    BY <1>1, <1>2 DEF TypeOK, SeenType
  <2>2. pc' \in [Procs -> Step]
    BY <1>1, <1>2 DEF TypeOK, Step
  <2>. QED
    BY <1>1, <1>2, <2>1, <2>2 DEF TypeOK
<1>7. FilesInOrder'
  <2>1. written'[p] = 0
    BY <1>1 DEF IInv, FilesInOrder
  <2>. QED
    BY <1>4, <2>1, FilesInOrderStep DEF IInv
<1>8. InFlightIsBacked'
  <2>1. Backed(p)'
    BY <1>1, <1>2, <1>4, <1>5 DEF Backed
  <2>. QED
    BY <1>2, <1>3, <1>4, <2>1, InFlightStep DEF IInv
<1>9. RunsArePast' /\ ReportsShowOnlyStored'
  BY <1>1, <1>2, <1>3, ReportsStay DEF IInv, RunsArePast
<1>. QED
  BY <1>6, <1>7, <1>8, <1>9 DEF IInv

\* Whatever the command, its pack says what the process has read, and is of the
\* run it answers or decides for, or of a new one that continues it.
LEMMA PacksBacked ==
  ASSUME TypeOK, NEW c \in Command, NEW s \in SeenType,
         c.kind # "capture" => s.latest \in DOMAIN runs, NEW k \in Packs(c, s)
  PROVE  /\ k \in PackType /\ k.answers = s.answers /\ k.decisions = s.decisions
         /\ c.kind = "capture" => k.id = clock /\ k.run.previous = s.latest
         /\ c.kind # "capture" => k.id = s.latest
<1>1. CASE c.kind = "capture"
  <2>1. PICK e \in Evidence : k = CapturePack(s, e, clock)
    BY <1>1 DEF Packs
  <2>. QED
    BY <1>1, <2>1, CapturePackType, InputsAssumption DEF TypeOK
<1>2. CASE c.kind = "answer"
  <2>1. k = AnswerPack(s)
    BY <1>2 DEF Packs
  <2>. QED
    BY <1>2, <2>1, AnswerPackType DEF TypeOK
<1>3. CASE c.kind = "decide"
  <2>1. k = DecisionPack(s)
    BY <1>3 DEF Packs
  <2>. QED
    BY <1>3, <2>1, DecisionPackType DEF TypeOK
<1>. QED
  BY <1>1, <1>2, <1>3, CommandParts

\* The pack is built from what the database backs.
LEMMA ReadDecisionsIInv ==
  ASSUME IInv, NEW p \in Procs, ReadDecisions(p)
  PROVE  IInv'
<1> DEFINE s == [seen[p] EXCEPT !.decisions = decisions]
<1>1. /\ UNCHANGED <<clock, runs, latest, answers, decisions, indexed, files,
                     command, written, outcome, left>>
      /\ pc[p] = "readDecisions"
      /\ seen' = [seen EXCEPT ![p] = s]
      /\ pc' = [pc EXCEPT ![p] = AfterReads(command[p])]
  BY DEF ReadDecisions, dbVars
<1>2. PICK k \in Packs(command[p], s) : pack' = [pack EXCEPT ![p] = k]
  BY DEF ReadDecisions
<1>3. TypeOK /\ Backed(p) /\ command[p] \in Command
  BY DEF IInv, InFlightIsBacked, TypeOK
<1>4. /\ s \in SeenType /\ s.latest = seen[p].latest /\ s.answers = seen[p].answers
      /\ s.decisions = decisions
  BY <1>3 DEF TypeOK, SeenType
<1> HIDE DEF s
<1>5. command[p].kind # "capture" => s.latest \in DOMAIN runs
  BY <1>1, <1>3, <1>4 DEF Backed
<1>6. /\ k \in PackType /\ k.answers = s.answers /\ k.decisions = s.decisions
      /\ command[p].kind = "capture" => k.id = clock /\ k.run.previous = s.latest
      /\ command[p].kind # "capture" => k.id = s.latest
  BY <1>3, <1>4, <1>5, PacksBacked
<1>7. TablesGrow
  BY <1>1, <1>3, TablesUnchanged
<1>8. OthersKept(p)
  BY <1>1, <1>2, <1>3 DEF OthersKept, LocalsKept, TypeOK
<1>9. pc'[p] = AfterReads(command[p]) /\ seen'[p] = s /\ pack'[p] = k
  BY <1>1, <1>2, <1>3 DEF TypeOK
<1>10. TypeOK'
  <2>1. seen' \in [Procs -> SeenType] /\ pack' \in [Procs -> PackType]
    BY <1>1, <1>2, <1>3, <1>4, <1>6 DEF TypeOK
  <2>2. pc' \in [Procs -> Step]
    BY <1>1, <1>3 DEF TypeOK, Step, AfterReads
  <2>. QED
    BY <1>1, <1>3, <2>1, <2>2 DEF TypeOK
<1>11. FilesInOrder'
  <2>1. written'[p] = 0
    BY <1>1 DEF IInv, FilesInOrder
  <2>. QED
    BY <1>8, <2>1, ArtifactsAssumption, FilesInOrderStep DEF IInv
<1>12. InFlightIsBacked'
  <2>1. k.answers \subseteq answers /\ k.decisions \subseteq decisions
    BY <1>3, <1>4, <1>6 DEF Backed
  <2>2. s.latest \in DOMAIN runs \cup {NoRun} /\ s.answers \subseteq answers
    BY <1>3, <1>4 DEF Backed
  <2>3. CASE command[p].kind = "capture"
    <3>1. pc'[p] = "saveRun"
      BY <1>9, <2>3 DEF AfterReads
    <3>2. clock \in Nat \ {0} /\ s.latest <= clock
      <4>1. clock \in Nat \ {0} /\ \A id \in DOMAIN runs : id <= clock
        <5>1. clock \in Nat \ {0}
          BY <1>3 DEF TypeOK
        <5>2. RunsArePast
          BY DEF IInv
        <5>. QED
          BY <5>1, <5>2 DEF RunsArePast
      <4>2. NoRun <= clock
        BY <4>1 DEF NoRun
      <4>. QED
        BY <2>2, <4>1, <4>2
    <3>3. k.id \in 1..clock /\ k.run.previous <= k.id
      BY <1>6, <2>3, <3>2
    <3>4. Backed(p)'
      BY <1>1, <1>4, <1>6, <1>9, <2>1, <2>2, <2>3, <3>1, <3>3 DEF Backed
    <3>. QED
      BY <1>3, <1>7, <1>8, <3>4, InFlightStep DEF IInv
  <2>4. CASE command[p].kind # "capture"
    <3>1. pc'[p] = "truncate"
      BY <1>9, <2>4 DEF AfterReads
    <3>2. Backed(p)'
      BY <1>1, <1>4, <1>5, <1>6, <1>9, <2>1, <2>2, <2>4, <3>1 DEF Backed
    <3>. QED
      BY <1>3, <1>7, <1>8, <3>2, InFlightStep DEF IInv
  <2>. QED
    BY <2>3, <2>4
<1>13. RunsArePast' /\ ReportsShowOnlyStored'
  BY <1>1, <1>3, <1>7, ReportsStay DEF IInv, RunsArePast
<1>. QED
  BY <1>10, <1>11, <1>12, <1>13 DEF IInv

\* A saved run is new, well-formed and of the past, and a latest run.
LEMMA SaveRunIInv ==
  ASSUME IInv, NEW p \in Procs, SaveRun(p)
  PROVE  IInv'
<1>1. UNCHANGED <<clock, answers, decisions, indexed, files, command, left>>
  BY DEF SaveRun
<1>2. TypeOK /\ Backed(p)
  BY DEF IInv, InFlightIsBacked
<1>3. CASE Refuse(p) /\ UNCHANGED <<runs, latest>>
  <2>1. TablesGrow
    BY <1>1, <1>2, <1>3, TablesUnchanged
  <2>2. PICK how \in Outcome : Return(p, how)
    BY <1>3, RefuseReturns
  <2>3. /\ TypeOK' /\ FilesInOrder' /\ InFlightIsBacked'
    BY <1>1, <1>2, <1>3, <2>1, <2>2, ReturnStep DEF IInv, TypeOK
  <2>4. RunsArePast' /\ ReportsShowOnlyStored'
    BY <1>1, <1>2, <1>3, <2>1, ReportsStay DEF IInv, RunsArePast
  <2>. QED
    BY <2>3, <2>4 DEF IInv
<1>4. CASE /\ pack[p].id \notin DOMAIN runs
           /\ runs' = Extend(runs, pack[p].id, pack[p].run)
           /\ latest' = pack[p].id
           /\ pc' = [pc EXCEPT ![p] = "truncate"]
           /\ UNCHANGED <<seen, pack, written, outcome>>
  <2>1. pc[p] = "saveRun"
    BY DEF SaveRun
  <2>2. pack[p] \in PackType /\ pack[p].run \in RunRecord /\ clock \in Nat \ {0}
    BY <1>2 DEF TypeOK, PackType
  <2>3. pack[p].id \in 1..clock
    BY <1>2, <2>1 DEF Backed
  <2>4. /\ DOMAIN runs' = DOMAIN runs \cup {pack[p].id}
        /\ runs'[pack[p].id] = pack[p].run
        /\ \A id \in DOMAIN runs : runs'[id] = runs[id]
    BY <1>4 DEF Extend
  <2>5. TablesGrow
    BY <1>1, <2>2, <2>4 DEF TablesGrow
  <2>6. OthersKept(p) /\ pc'[p] = "truncate"
    BY <1>1, <1>2, <1>4 DEF OthersKept, LocalsKept, TypeOK
  <2>7. TypeOK'
    <3>1. DOMAIN runs' \subseteq Nat \ {NoRun}
      BY <1>2, <2>2, <2>3, <2>4 DEF TypeOK, NoRun
    <3>2. \A id \in DOMAIN runs' : runs'[id] \in RunRecord
      BY <1>2, <2>2, <2>4 DEF TypeOK
    <3>3. latest' \in DOMAIN runs' \cup {NoRun}
      BY <1>4, <2>4
    <3>4. pc' \in [Procs -> Step]
      BY <1>2, <1>4 DEF TypeOK, Step
    <3>. QED
      BY <1>1, <1>2, <1>4, <3>1, <3>2, <3>3, <3>4 DEF TypeOK
  <2>8. RunsArePast'
    BY <1>1, <2>2, <2>3, <2>4 DEF IInv, RunsArePast
  <2>9. FilesInOrder'
    <3>1. written'[p] = 0
      BY <1>4, <2>1 DEF IInv, FilesInOrder
    <3>. QED
      BY <2>6, <3>1, ArtifactsAssumption, FilesInOrderStep DEF IInv
  <2>10. InFlightIsBacked'
    <3>1. Backed(p)'
      BY <1>1, <1>2, <1>4, <2>4, <2>6 DEF Backed
    <3>. QED
      BY <1>2, <2>5, <2>6, <3>1, InFlightStep DEF IInv
  <2>11. ReportsShowOnlyStored'
    BY <1>1, <1>2, <2>5, ReportsStay DEF IInv
  <2>. QED
    BY <2>7, <2>8, <2>9, <2>10, <2>11 DEF IInv
<1>. QED
  BY <1>3, <1>4 DEF SaveRun

\* A truncated file shows nothing.
LEMMA TruncateIInv ==
  ASSUME IInv, NEW p \in Procs, Truncate(p)
  PROVE  IInv'
<1>1. /\ UNCHANGED <<clock, runs, latest, answers, decisions, indexed, command,
                     seen, pack, written, outcome, left>>
      /\ pc[p] = "truncate"
      /\ files' = [files EXCEPT ![CurrentFile(p)] =
                     [state |-> "truncated", pack |-> NoPack]]
      /\ pc' = [pc EXCEPT ![p] = "put"]
  BY DEF Truncate, dbVars
<1>2. TypeOK /\ Backed(p)
  BY DEF IInv, InFlightIsBacked
<1>3. TablesGrow
  BY <1>1, <1>2, TablesUnchanged
<1>4. OthersKept(p) /\ pc'[p] = "put"
  BY <1>1, <1>2 DEF OthersKept, LocalsKept, TypeOK
<1>5. TypeOK'
  <2>1. files' \in [FileNames -> [state : FileState, pack : PackType]]
    BY <1>1, <1>2, NoPackType DEF TypeOK, FileState
  <2>2. pc' \in [Procs -> Step]
    BY <1>1, <1>2 DEF TypeOK, Step
  <2>. QED
    BY <1>1, <1>2, <2>1, <2>2 DEF TypeOK
<1>6. FilesInOrder'
  <2>1. written'[p] < Len(Artifacts)
    BY <1>1 DEF IInv, FilesInOrder
  <2>. QED
    BY <1>4, <2>1, FilesInOrderStep DEF IInv
<1>7. InFlightIsBacked'
  <2>1. Backed(p)'
    BY <1>1, <1>2, <1>4 DEF Backed
  <2>. QED
    BY <1>2, <1>3, <1>4, <2>1, InFlightStep DEF IInv
<1>8. ReportsShowOnlyStored'
  BY <1>1, <1>2 DEF IInv, ReportsShowOnlyStored, TypeOK
<1>9. RunsArePast'
  BY <1>1 DEF IInv, RunsArePast
<1>. QED
  BY <1>5, <1>6, <1>7, <1>8, <1>9 DEF IInv

\* A file written whole shows the pack of its writer, which is stored.
LEMMA PutIInv ==
  ASSUME IInv, NEW p \in Procs, Put(p)
  PROVE  IInv'
<1>1. /\ UNCHANGED <<clock, runs, latest, answers, decisions, indexed, command,
                     seen, pack, outcome, left>>
      /\ pc[p] = "put"
      /\ written' = [written EXCEPT ![p] = @ + 1]
      /\ pc' = [pc EXCEPT ![p] = IF MoreFiles(written[p] + 1) THEN "truncate" ELSE "index"]
  BY DEF Put, dbVars
<1>2. PICK f \in {[state |-> "whole", pack |-> pack[p]],
                  [state |-> "mixed", pack |-> NoPack]} :
        files' = [files EXCEPT ![CurrentFile(p)] = f]
  <2>1. \/ files' = [files EXCEPT ![CurrentFile(p)] = [state |-> "whole", pack |-> pack[p]]]
        \/ files' = [files EXCEPT ![CurrentFile(p)] = [state |-> "mixed", pack |-> NoPack]]
    BY DEF Put
  <2>. QED
    BY <2>1, Zenon
<1>3. TypeOK /\ Backed(p)
  BY DEF IInv, InFlightIsBacked
<1>4. TablesGrow
  BY <1>1, <1>3, TablesUnchanged
<1>5. OthersKept(p)
  BY <1>1, <1>3 DEF OthersKept, LocalsKept, TypeOK
<1>6. /\ written[p] \in Nat /\ written[p] < Len(Artifacts) /\ Len(Artifacts) \in Nat
      /\ written'[p] = written[p] + 1
      /\ pc'[p] = IF MoreFiles(written[p] + 1) THEN "truncate" ELSE "index"
  BY <1>1, <1>3, ArtifactsAssumption DEF TypeOK, IInv, FilesInOrder
<1>7. TypeOK'
  <2>1. files' \in [FileNames -> [state : FileState, pack : PackType]]
    <3>1. pack[p] \in PackType
      BY <1>3 DEF TypeOK
    <3>2. f \in [state : FileState, pack : PackType]
      BY <3>1, NoPackType DEF FileState
    <3>. QED
      BY <1>2, <1>3, <3>2 DEF TypeOK
  <2>2. pc' \in [Procs -> Step]
    BY <1>1, <1>3 DEF TypeOK, Step
  <2>3. written' \in [Procs -> 0..Len(Artifacts)]
    <3>1. written[p] + 1 \in 0..Len(Artifacts)
      BY <1>6
    <3>. QED
      BY <1>1, <1>3, <3>1 DEF TypeOK
  <2>. QED
    BY <1>1, <1>3, <2>1, <2>2, <2>3 DEF TypeOK
<1>8. FilesInOrder'
  BY <1>5, <1>6, FilesInOrderStep DEF IInv, MoreFiles
<1>9. InFlightIsBacked'
  <2>1. Backed(p)'
    BY <1>1, <1>3, <1>6 DEF Backed
  <2>. QED
    BY <1>3, <1>4, <1>5, <2>1, InFlightStep DEF IInv
<1>10. ReportsShowOnlyStored'
  <2>1. /\ pack[p].id \in DOMAIN runs
        /\ pack[p].answers \subseteq answers /\ pack[p].decisions \subseteq decisions
    BY <1>1, <1>3 DEF Backed
  <2>2. f.state = "whole" => f.pack = pack[p]
    BY <1>2
  <2>3. \A g \in FileNames : files'[g] = f \/ files'[g] = files[g]
    BY <1>2, <1>3 DEF TypeOK
  <2>. QED
    BY <1>1, <2>1, <2>2, <2>3 DEF IInv, ReportsShowOnlyStored
<1>11. RunsArePast'
  BY <1>1 DEF IInv, RunsArePast
<1>. QED
  BY <1>7, <1>8, <1>9, <1>10, <1>11 DEF IInv

\* The rows of the table of files name runs and files.
LEMMA IndexType ==
  ASSUME TypeOK, NEW p \in Procs, NEW n \in 0..Len(Artifacts)
  PROVE  IndexUpTo(p, n) \subseteq RunId \X FileNames
<1>1. pack[p].id \in RunId
  BY DEF TypeOK, PackType
<1>2. \A i \in 1..n : Artifacts[i] \in FileNames
  BY ArtifactsAssumption DEF FileNames, Range
<1>. QED
  BY <1>1, <1>2 DEF IndexUpTo, TypeOK

\* Also when only some are added.
LEMMA SomeIndexedType ==
  ASSUME TypeOK, NEW p \in Procs, SomeIndexed(p)
  PROVE  indexed' \subseteq RunId \X FileNames
<1>1. CASE pc[p] = "index"
  <2>1. PICK n \in 0..(Len(Artifacts) - 1) : indexed' = IndexUpTo(p, n)
    BY <1>1 DEF SomeIndexed
  <2>2. n \in 0..Len(Artifacts)
    BY ArtifactsAssumption
  <2>. QED
    BY <2>1, <2>2, IndexType
<1>2. CASE pc[p] # "index"
  BY <1>2 DEF SomeIndexed, TypeOK
<1>. QED
  BY <1>1, <1>2

\* A command that ends, or is ended, leaves the tables to the others.
LEMMA EndIInv ==
  ASSUME IInv, NEW p \in Procs, NEW how \in Outcome, Return(p, how),
         UNCHANGED <<clock, runs, latest, answers, decisions, files, command>>,
         indexed' \subseteq RunId \X FileNames,
         left' \in [commands : Nat, faults : Nat, crashes : Nat]
  PROVE  IInv'
<1>1. TypeOK
  BY DEF IInv
<1>2. TablesGrow
  BY <1>1, TablesUnchanged
<1>3. TypeOK' /\ FilesInOrder' /\ InFlightIsBacked'
  BY <1>1, <1>2, ReturnStep DEF IInv, TypeOK
<1>4. RunsArePast' /\ ReportsShowOnlyStored'
  BY <1>1, <1>2, ReportsStay DEF IInv, RunsArePast
<1>. QED
  BY <1>3, <1>4 DEF IInv

\* The last statement of a command.
LEMMA IndexIInv ==
  ASSUME IInv, NEW p \in Procs, Index(p)
  PROVE  IInv'
<1>1. indexed' \subseteq RunId \X FileNames
  BY IndexType, ArtifactsAssumption DEF Index, IInv
<1>2. "durable" \in Outcome
  BY DEF Outcome
<1>3. Return(p, "durable")
  BY DEF Index
<1>4. UNCHANGED <<clock, runs, latest, answers, decisions, files, command, left>>
  BY DEF Index
<1>. QED
  BY <1>1, <1>2, <1>3, <1>4, EndIInv DEF IInv, TypeOK

\* A step that fails.
LEMMA FailIInv ==
  ASSUME IInv, NEW p \in Procs, Fail(p)
  PROVE  IInv'
<1>1. /\ UNCHANGED <<clock, runs, latest, answers, decisions, files, command>>
      /\ left.faults > 0 /\ left' = [left EXCEPT !.faults = @ - 1]
  BY DEF Fail
<1>2. PICK how \in CatchOutcomes(command[p]) : Return(p, how)
  BY DEF Fail
<1>3. how \in Outcome
  BY CatchOutcomesType
<1>4. TypeOK /\ Len(Artifacts) \in Nat
  BY ArtifactsAssumption DEF IInv
<1>5. indexed' \subseteq RunId \X FileNames
  BY <1>4, SomeIndexedType DEF Fail
<1>6. left' \in [commands : Nat, faults : Nat, crashes : Nat]
  BY <1>1, <1>4, OneLess DEF TypeOK
<1>. QED
  BY <1>1, <1>2, <1>3, <1>5, <1>6, EndIInv

\* A process that is killed.
LEMMA CrashIInv ==
  ASSUME IInv, NEW p \in Procs, Crash(p)
  PROVE  IInv'
<1>1. /\ UNCHANGED <<clock, runs, latest, answers, decisions, files, command>>
      /\ left.crashes > 0 /\ left' = [left EXCEPT !.crashes = @ - 1]
      /\ Return(p, "killed")
  BY DEF Crash, dbVars
<1>2. "killed" \in Outcome
  BY DEF Outcome
<1>3. indexed' \subseteq RunId \X FileNames
  BY SomeIndexedType DEF IInv, Crash
<1>4. left' \in [commands : Nat, faults : Nat, crashes : Nat]
  BY <1>1, OneLess DEF IInv, TypeOK
<1>. QED
  BY <1>1, <1>2, <1>3, <1>4, EndIInv

\* Every step preserves the invariant.
LEMMA NextIInv ==
  ASSUME IInv, [Next]_vars
  PROVE  IInv'
<1>1. CASE Tick
  BY <1>1, TickIInv
<1>2. ASSUME NEW p \in Procs, NEW c \in Commands, Begin(p, c)
      PROVE  IInv'
  BY <1>2, BeginIInv
<1>3. ASSUME NEW p \in Procs, NEW c \in Commands, BeginFails(p, c)
      PROVE  IInv'
  BY <1>3, BeginFailsIInv
<1>4. ASSUME NEW p \in Procs, Progress(p)
      PROVE  IInv'
  <2>1. CASE AppendAnswer(p)
    BY <2>1, AppendAnswerIInv
  <2>2. CASE AppendDecision(p)
    BY <2>2, AppendDecisionIInv
  <2>3. CASE ReadAnswers(p)
    BY <2>3, ReadAnswersIInv
  <2>4. CASE ReadDecisions(p)
    BY <2>4, ReadDecisionsIInv
  <2>5. CASE SaveRun(p)
    BY <2>5, SaveRunIInv
  <2>6. CASE Truncate(p)
    BY <2>6, TruncateIInv
  <2>7. CASE Put(p)
    BY <2>7, PutIInv
  <2>8. CASE Index(p)
    BY <2>8, IndexIInv
  <2>. QED
    BY <1>4, <2>1, <2>2, <2>3, <2>4, <2>5, <2>6, <2>7, <2>8 DEF Progress
<1>5. ASSUME NEW p \in Procs, Fail(p)
      PROVE  IInv'
  BY <1>5, FailIInv
<1>6. ASSUME NEW p \in Procs, Crash(p)
      PROVE  IInv'
  BY <1>6, CrashIInv
<1>7. CASE UNCHANGED vars
  <2>1. UNCHANGED <<clock, runs, latest, answers, decisions, indexed, files, pc,
                    command, seen, pack, written, outcome, left>>
    BY <1>7 DEF vars, dbVars, procVars
  <2>2. TypeOK' /\ RunsArePast' /\ FilesInOrder'
    BY <2>1 DEF IInv, TypeOK, RunsArePast, FilesInOrder
  <2>3. InFlightIsBacked' /\ ReportsShowOnlyStored'
    BY <2>1 DEF IInv, InFlightIsBacked, Backed, ReportsShowOnlyStored
  <2>. QED
    BY <2>2, <2>3 DEF IInv
<1>. QED
  BY <1>1, <1>2, <1>3, <1>4, <1>5, <1>6, <1>7 DEF Next

-----------------------------------------------------------------------------
(***************************************************************************)
(* The theorems.                                                           *)
(***************************************************************************)

\* The inductive invariant holds in every reachable state.
THEOREM Invariance == Spec => []IInv
<1>1. Init => IInv
  BY InitIInv
<1>2. IInv /\ [Next]_vars => IInv'
  BY NextIInv
<1>. QED
  BY <1>1, <1>2, PTL DEF Spec

\* The tables, files and locals of any number of processes keep their types.
THEOREM TypeCorrect == Spec => []TypeOK
<1>1. IInv => TypeOK
  BY DEF IInv
<1>. QED
  BY <1>1, Invariance, PTL

\* No interleaving, failing step or kill leaves a command acting on something
\* the database does not hold.
THEOREM CommandsAreBacked == Spec => []InFlightIsBacked
<1>1. IInv => InFlightIsBacked
  BY DEF IInv
<1>. QED
  BY <1>1, Invariance, PTL

\* A report never shows a run, an answer or a decision that is not stored.
THEOREM ReportsAreStored == Spec => []ReportsShowOnlyStored
<1>1. IInv => ReportsShowOnlyStored
  BY DEF IInv
<1>. QED
  BY <1>1, Invariance, PTL

-----------------------------------------------------------------------------
(***************************************************************************)
(* The refinement: every step of the database is a step of the ledger.     *)
(***************************************************************************)

\* Two answers to a question are never stored under the same time, nor two
\* decisions under the same id, nor two runs: each insert adds one entry.
LEMMA LedgerStep ==
  ASSUME IInv, [Next]_vars
  PROVE  [Ledger!Next]_(Ledger!ledgerVars)
<1> SUFFICES ASSUME ~UNCHANGED <<runs, latest, answers, decisions>>
             PROVE  Ledger!Next
  BY DEF Ledger!ledgerVars
<1>1. PICK p \in Procs : AppendAnswer(p) \/ AppendDecision(p) \/ SaveRun(p)
  <2>1. ~Tick /\ ~UNCHANGED vars
    BY DEF Tick, vars, dbVars
  <2>2. \A p \in Procs :
          /\ ~ReadAnswers(p) /\ ~ReadDecisions(p) /\ ~Truncate(p) /\ ~Put(p)
          /\ ~Index(p) /\ ~Fail(p) /\ ~Crash(p)
          /\ \A c \in Commands : ~Begin(p, c) /\ ~BeginFails(p, c)
    BY DEF ReadAnswers, ReadDecisions, Truncate, Put, Index, Fail, Crash, Begin,
           BeginFails, dbVars
  <2>. QED
    BY <2>1, <2>2 DEF Next, Progress
<1>2. TypeOK /\ TypeOK' /\ Backed(p)
  BY NextIInv DEF IInv, InFlightIsBacked
<1>3. CASE AppendAnswer(p)
  <2> DEFINE a == [question |-> command[p].question, action |-> command[p].action,
                   at |-> clock, run |-> seen[p].latest]
  <2>1. /\ ~AnswerTaken(command[p].question) /\ answers' = answers \cup {a}
        /\ pc[p] = "append" /\ command[p].kind = "answer"
        /\ UNCHANGED <<runs, latest, decisions>>
    BY <1>3 DEF AppendAnswer
  <2>2. a \in AnswerRecord
    <3>1. a \in answers'
      BY <2>1
    <3>. QED
      BY <1>2, <3>1 DEF TypeOK
  <2>3. /\ a.run \in DOMAIN runs /\ a.question \in runs[a.run].open
    BY <1>2, <2>1 DEF Backed
  <2>4. \A b \in answers : ~(b.question = a.question /\ b.at = a.at)
    BY <2>1 DEF AnswerTaken
  <2>5. a \in answers' \ answers
    BY <2>1, <2>4
  <2>6. Ledger!RecordAnswer
    BY <2>1, <2>2, <2>3, <2>4, <2>5 DEF Ledger!RecordAnswer
  <2>. QED
    BY <2>6 DEF Ledger!Next
<1>4. CASE AppendDecision(p)
  <2> DEFINE d == [id |-> command[p].decision, run |-> seen[p].latest]
  <2>1. /\ ~DecisionTaken(command[p].decision) /\ decisions' = decisions \cup {d}
        /\ pc[p] = "append" /\ command[p].kind = "decide"
        /\ UNCHANGED <<runs, latest, answers>>
    BY <1>4 DEF AppendDecision
  <2>2. d \in DecisionRecord
    <3>1. d \in decisions'
      BY <2>1
    <3>. QED
      BY <1>2, <3>1 DEF TypeOK
  <2>3. d.run \in DOMAIN runs
    BY <1>2, <2>1 DEF Backed
  <2>4. \A c \in decisions : c.id # d.id
    BY <2>1 DEF DecisionTaken
  <2>5. d \in decisions' \ decisions
    BY <2>1, <2>4
  <2>6. Ledger!RecordDecision
    BY <2>1, <2>2, <2>3, <2>4, <2>5 DEF Ledger!RecordDecision
  <2>. QED
    BY <2>6 DEF Ledger!Next
<1>5. CASE SaveRun(p)
  <2>1. /\ pc[p] = "saveRun" /\ pack[p].id \notin DOMAIN runs
        /\ runs' = Extend(runs, pack[p].id, pack[p].run)
        /\ latest' = pack[p].id /\ UNCHANGED <<answers, decisions>>
    BY <1>5 DEF SaveRun
  <2>2. /\ DOMAIN runs' = DOMAIN runs \cup {latest'} /\ runs'[latest'] = pack[p].run
        /\ \A id \in DOMAIN runs : runs'[id] = runs[id]
    BY <2>1 DEF Extend
  <2>3. /\ pack[p].id \in 1..clock /\ pack[p].run.previous \in DOMAIN runs \cup {NoRun}
        /\ pack[p].run.previous <= pack[p].id
    BY <1>2, <2>1 DEF Backed
  <2>4. pack[p].run \in RunRecord /\ clock \in Nat /\ DOMAIN runs \subseteq Nat
    BY <1>2 DEF TypeOK, PackType
  <2>5. latest' \in Nat \ (DOMAIN runs \cup {0})
    BY <2>1, <2>3, <2>4
  <2>6. pack[p].run.previous < latest'
    BY <2>1, <2>3, <2>4 DEF NoRun
  <2>7. Ledger!RecordRun
    BY <2>1, <2>2, <2>3, <2>4, <2>5, <2>6 DEF Ledger!RecordRun, Ledger!NoRun, NoRun
  <2>. QED
    BY <2>7 DEF Ledger!Next
<1>. QED
  BY <1>1, <1>3, <1>4, <1>5

\* The database, under any interleaving, failures and kills, is a ledger.
THEOREM ImplementsLedger == Spec => LedgerSpec
<1>1. Init => Ledger!Init
  BY DEF Init, Ledger!Init, Ledger!NoRun, NoRun
<1>2. IInv /\ [Next]_vars => [Ledger!Next]_(Ledger!ledgerVars)
  BY LedgerStep
<1>. QED
  BY <1>1, <1>2, Invariance, PTL DEF Spec, LedgerSpec, Ledger!Spec
-----------------------------------------------------------------------------
(***************************************************************************)
(* What a step does to the tables, and which steps move a process.         *)
(***************************************************************************)

\* Rows are only added: an answer under the present time, a run that a process
\* was about to save.
LEMMA NextGrows ==
  ASSUME IInv, [Next]_vars
  PROVE  /\ TablesGrow /\ indexed \subseteq indexed'
         /\ clock' = clock \/ UNCHANGED <<runs, answers, decisions, indexed, latest>>
         /\ \A a \in answers' \ answers : a.at = clock
         /\ \A id \in DOMAIN runs' \ DOMAIN runs :
              \E p \in Procs : pc[p] = "saveRun" /\ id = pack[p].id /\ runs'[id] = pack[p].run
<1> DEFINE Additions ==
             /\ TablesGrow /\ indexed \subseteq indexed'
             /\ clock' = clock \/ UNCHANGED <<runs, answers, decisions, indexed, latest>>
             /\ \A a \in answers' \ answers : a.at = clock
             /\ \A id \in DOMAIN runs' \ DOMAIN runs :
                  \E p \in Procs : pc[p] = "saveRun" /\ id = pack[p].id
                                     /\ runs'[id] = pack[p].run
<1>1. TypeOK /\ clock \in Nat
  BY DEF IInv, TypeOK
<1>2. ASSUME UNCHANGED <<clock, runs, answers, decisions>>, indexed \subseteq indexed'
      PROVE  Additions
  BY <1>1, <1>2, TablesUnchanged
<1>3. CASE Tick
  <2>1. clock' = clock + 1 /\ UNCHANGED <<runs, answers, decisions, indexed, latest>>
    BY <1>3 DEF Tick, dbVars
  <2> QED
    BY <1>1, <2>1 DEF TablesGrow
<1>4. ASSUME NEW p \in Procs, NEW c \in Commands, Begin(p, c) \/ BeginFails(p, c)
      PROVE  Additions
  BY <1>2, <1>4 DEF Begin, BeginFails, dbVars
<1>5. ASSUME NEW p \in Procs, AppendAnswer(p)
      PROVE  Additions
  <2>1. /\ UNCHANGED <<clock, runs, latest, decisions, indexed>>
        /\ answers \subseteq answers'
        /\ \A a \in answers' \ answers : a.at = clock
    BY <1>5 DEF AppendAnswer
  <2> QED
    BY <1>1, <2>1 DEF TablesGrow
<1>6. ASSUME NEW p \in Procs, AppendDecision(p)
      PROVE  Additions
  <2>1. UNCHANGED <<clock, runs, latest, answers, indexed>> /\ decisions \subseteq decisions'
    BY <1>6 DEF AppendDecision
  <2> QED
    BY <1>1, <2>1 DEF TablesGrow
<1>7. ASSUME NEW p \in Procs,
             ReadAnswers(p) \/ ReadDecisions(p) \/ Truncate(p) \/ Put(p)
      PROVE  Additions
  BY <1>2, <1>7 DEF ReadAnswers, ReadDecisions, Truncate, Put, dbVars
<1>8. ASSUME NEW p \in Procs, SaveRun(p)
      PROVE  Additions
  <2>1. UNCHANGED <<clock, answers, decisions, indexed>> /\ pc[p] = "saveRun"
    BY <1>8 DEF SaveRun
  <2>2. CASE runs' = runs
    BY <1>2, <2>1, <2>2
  <2>3. CASE pack[p].id \notin DOMAIN runs /\ runs' = Extend(runs, pack[p].id, pack[p].run)
    <3>1. /\ DOMAIN runs' = DOMAIN runs \cup {pack[p].id}
          /\ runs'[pack[p].id] = pack[p].run
          /\ \A id \in DOMAIN runs : runs'[id] = runs[id]
      BY <2>3 DEF Extend
    <3> QED
      BY <1>1, <2>1, <3>1 DEF TablesGrow
  <2> QED
    BY <1>8, <2>2, <2>3 DEF SaveRun
<1>9. ASSUME NEW p \in Procs, Index(p) \/ Fail(p) \/ Crash(p)
      PROVE  Additions
  <2>1. UNCHANGED <<clock, runs, answers, decisions>>
    BY <1>9 DEF Index, Fail, Crash
  <2>2. indexed \subseteq indexed'
    BY <1>9 DEF Index, Fail, Crash, SomeIndexed, IndexUpTo
  <2> QED
    BY <1>2, <2>1, <2>2
<1>10. CASE UNCHANGED vars
  BY <1>2, <1>10 DEF vars, dbVars
<1> QED
  BY <1>3, <1>4, <1>5, <1>6, <1>7, <1>8, <1>9, <1>10 DEF Next, Progress

\* A process keeps its place and all it holds, or its command ends without
\* success, or it takes a step of a command that goes on or has succeeded.
LEMMA StepOf ==
  ASSUME IInv, [Next]_vars, NEW q \in Procs
  PROVE  \/ LocalsKept(q) /\ outcome'[q] = outcome[q]
         \/ pc'[q] = "idle" /\ outcome'[q] # "durable"
         \/ pc'[q] # "idle" /\ \E c \in Commands : Begin(q, c)
         \/ pc'[q] # "idle" /\ Progress(q)
         \/ Index(q)
<1>1. TypeOK
  BY DEF IInv
<1>2. CASE Tick \/ UNCHANGED vars
  BY <1>2 DEF Tick, vars, procVars, LocalsKept
<1>3. ASSUME NEW p \in Procs, NEW c \in Commands, Begin(p, c)
      PROVE  \/ LocalsKept(q) /\ outcome'[q] = outcome[q]
             \/ p = q /\ pc'[q] = "idle" /\ outcome'[q] # "durable"
             \/ p = q /\ pc'[q] # "idle"
  <2>1. CASE p = q
    BY <1>1, <1>3, <2>1 DEF Begin, TypeOK
  <2>2. CASE p # q
    BY <1>1, <1>3, <2>2 DEF Begin, TypeOK, LocalsKept
  <2> QED
    BY <2>1, <2>2
<1>4. ASSUME NEW p \in Procs, NEW c \in Commands, BeginFails(p, c)
      PROVE  \/ LocalsKept(q) /\ outcome'[q] = outcome[q]
             \/ pc'[q] = "idle" /\ outcome'[q] # "durable"
  <2>1. PICK how \in CatchOutcomes(c) : outcome' = [outcome EXCEPT ![p] = how]
    BY <1>4 DEF BeginFails
  <2>2. how # "durable"
    BY DEF CatchOutcomes
  <2>3. CASE p = q
    BY <1>1, <1>4, <2>1, <2>2, <2>3 DEF BeginFails, TypeOK
  <2>4. CASE p # q
    BY <1>1, <1>4, <2>1, <2>4 DEF BeginFails, TypeOK, LocalsKept
  <2> QED
    BY <2>3, <2>4
<1>5. ASSUME NEW p \in Procs, NEW how, Return(p, how), UNCHANGED command
      PROVE  \/ p # q /\ LocalsKept(q) /\ outcome'[q] = outcome[q]
             \/ p = q /\ pc'[q] = "idle" /\ outcome'[q] = how
  <2>1. CASE p = q
    BY <1>1, <1>5, <2>1 DEF Return, TypeOK
  <2>2. CASE p # q
    BY <1>1, <1>5, <2>2 DEF Return, TypeOK, LocalsKept
  <2> QED
    BY <2>1, <2>2
<1>6. ASSUME NEW p \in Procs, Fail(p) \/ Crash(p)
      PROVE  \/ LocalsKept(q) /\ outcome'[q] = outcome[q]
             \/ pc'[q] = "idle" /\ outcome'[q] # "durable"
  <2>1. PICK how \in CatchOutcomes(command[p]) \cup {"killed"} : Return(p, how)
    BY <1>6 DEF Fail, Crash
  <2>2. how # "durable" /\ UNCHANGED command
    BY <1>6 DEF CatchOutcomes, Fail, Crash
  <2> QED
    BY <1>5, <2>1, <2>2
<1>7. ASSUME NEW p \in Procs, Refuse(p), UNCHANGED command
      PROVE  \/ LocalsKept(q) /\ outcome'[q] = outcome[q]
             \/ pc'[q] = "idle" /\ outcome'[q] # "durable"
  <2> DEFINE how == IF command[p].kind # "capture" THEN "thrown"
                    ELSE IF latest # NoRun THEN "stale" ELSE "unavailable"
  <2>1. Return(p, how) /\ how # "durable"
    BY <1>7 DEF Refuse
  <2> HIDE DEF how
  <2> QED
    BY <1>5, <1>7, <2>1
<1>8. ASSUME NEW p \in Procs, Progress(p)
      PROVE  \/ LocalsKept(q) /\ outcome'[q] = outcome[q]
             \/ pc'[q] = "idle" /\ outcome'[q] # "durable"
             \/ p = q /\ pc'[q] # "idle"
             \/ p = q /\ Index(q)
  <2>1. CASE Index(p)
    <3>1. Return(p, "durable") /\ UNCHANGED command
      BY <2>1 DEF Index
    <3> QED
      BY <1>5, <2>1, <3>1
  <2>2. CASE Refuse(p) /\ UNCHANGED command
    BY <1>7, <2>2
  <2>3. CASE ~Index(p) /\ ~Refuse(p)
    <3>1. CASE AppendAnswer(p)
      BY <1>1, <2>3, <3>1 DEF AppendAnswer, AfterAppend, TypeOK, LocalsKept
    <3>2. CASE AppendDecision(p)
      BY <1>1, <2>3, <3>2 DEF AppendDecision, AfterAppend, TypeOK, LocalsKept
    <3>3. CASE ReadAnswers(p)
      BY <1>1, <3>3 DEF ReadAnswers, TypeOK, LocalsKept
    <3>4. CASE ReadDecisions(p)
      BY <1>1, <3>4 DEF ReadDecisions, AfterReads, TypeOK, LocalsKept
    <3>5. CASE SaveRun(p)
      BY <1>1, <2>3, <3>5 DEF SaveRun, TypeOK, LocalsKept
    <3>6. CASE Truncate(p)
      BY <1>1, <3>6 DEF Truncate, TypeOK, LocalsKept
    <3>7. CASE Put(p)
      BY <1>1, <3>7 DEF Put, TypeOK, LocalsKept
    <3> QED
      BY <1>8, <2>3, <3>1, <3>2, <3>3, <3>4, <3>5, <3>6, <3>7 DEF Progress
  <2>4. Refuse(p) => UNCHANGED command
    BY <1>8 DEF Progress, AppendAnswer, AppendDecision, ReadAnswers, ReadDecisions,
                SaveRun, Truncate, Put, Index
  <2> QED
    BY <2>1, <2>2, <2>3, <2>4
<1> QED
  BY <1>2, <1>3, <1>4, <1>6, <1>8 DEF Next

-----------------------------------------------------------------------------
(***************************************************************************)
(* What a command has recorded at each of its steps.                       *)
(***************************************************************************)
Recording(p) == pc[p] \in {"truncate", "put", "index"} \/ outcome[p] = "durable"

\* The answer or the decision of p is among these, the answer for run r.
Recorded(p, as, ds, r) ==
  /\ command[p].kind = "answer" => \E a \in as : a.question = command[p].question /\ a.run = r
  /\ command[p].kind = "decide" => \E d \in ds : d.id = command[p].decision

\* A run asks what the planner asks, and about what its evidence has answered
\* only if someone had given an answer before.
Justified(id, run) ==
  /\ Asks(run)
  /\ run.open \cap run.telemetry.suppressed # {} => \E a \in answers : a.at <= id

\* A command in flight has recorded what it was asked to: in the tables, then in
\* what it has read, then in what it renders, and at last in the list of files.
InTables(p) ==
  /\ pc[p] = "readAnswers" => Recorded(p, answers, decisions, seen[p].latest)
  /\ pc[p] = "readDecisions" => Recorded(p, seen[p].answers, decisions, seen[p].latest)

InPack(p) ==
  Recording(p) =>
    /\ pack[p].id \in DOMAIN runs
    /\ Recorded(p, pack[p].answers, pack[p].decisions, pack[p].id)
    /\ command[p].kind = "capture" => runs[pack[p].id] = pack[p].run
    /\ command[p].kind = "decide" => runs[pack[p].id].open = pack[p].run.open

NotListed(p) ==
  (Recording(p) \/ pc[p] = "saveRun") /\ command[p].kind # "decide" =>
    \A a \in pack[p].answers : a.question \notin pack[p].run.open

Accounted(p) ==
  /\ pc[p] # "idle" => outcome[p] = "none"
  /\ InTables(p) /\ InPack(p) /\ NotListed(p)
  /\ pc[p] = "saveRun" => Justified(pack[p].id, pack[p].run)
  /\ outcome[p] = "durable" => \A f \in FileNames : <<pack[p].id, f>> \in indexed

AccountInv ==
  /\ \A a \in answers : a.at <= clock
  /\ \A id \in DOMAIN runs : Justified(id, runs[id])
  /\ \A p \in Procs : Accounted(p)

\* A process that does nothing keeps its account while the tables grow.
LEMMA AccountedKept ==
  ASSUME IInv, TablesGrow, indexed \subseteq indexed', NEW q \in Procs,
         LocalsKept(q), outcome'[q] = outcome[q], Accounted(q)
  PROVE  Accounted(q)'
<1>1. /\ pc'[q] = pc[q] /\ command'[q] = command[q] /\ seen'[q] = seen[q]
      /\ pack'[q] = pack[q] /\ outcome'[q] = outcome[q]
  BY DEF LocalsKept
<1>2. /\ answers \subseteq answers' /\ decisions \subseteq decisions'
      /\ DOMAIN runs \subseteq DOMAIN runs' /\ \A id \in DOMAIN runs : runs'[id] = runs[id]
  BY DEF TablesGrow
<1>3. InTables(q)'
  BY <1>1, <1>2 DEF Accounted, InTables, Recorded
<1>4. InPack(q)'
  BY <1>1, <1>2 DEF Accounted, InPack, Recording, Recorded
<1>5. NotListed(q)'
  BY <1>1 DEF Accounted, NotListed, Recording
<1>6. (pc[q] = "saveRun" => Justified(pack[q].id, pack[q].run))'
  BY <1>1, <1>2 DEF Accounted, Justified
<1> QED
  BY <1>1, <1>3, <1>4, <1>5, <1>6 DEF Accounted

\* A command that has ended without success accounts for nothing.
LEMMA AccountedEnded ==
  ASSUME NEW q \in Procs, pc'[q] = "idle", outcome'[q] # "durable"
  PROVE  Accounted(q)'
BY DEF Accounted, InTables, InPack, NotListed, Recording

\* A command that starts has not read the answers yet.
LEMMA BeginAccounts ==
  ASSUME IInv, NEW q \in Procs, NEW c \in Commands, Begin(q, c), pc'[q] # "idle"
  PROVE  Accounted(q)'
<1>1. /\ pc'[q] = FirstStep(c) /\ outcome'[q] = "none" /\ command'[q] = c
  BY DEF IInv, TypeOK, Begin
<1>2. pc'[q] = "append" \/ (pc'[q] = "readAnswers" /\ command'[q].kind = "capture")
  BY <1>1 DEF FirstStep
<1> QED
  BY <1>1, <1>2 DEF Accounted, InTables, InPack, NotListed, Recording, Recorded

\* An answer is inserted before the answers are listed, a decision likewise.
LEMMA AppendAccounts ==
  ASSUME IInv, NEW q \in Procs, AppendAnswer(q) \/ AppendDecision(q), pc'[q] # "idle",
         Accounted(q)
  PROVE  Accounted(q)'
<1>1. TypeOK
  BY DEF IInv
<1>2. ~Refuse(q)
  BY <1>1 DEF Refuse, Return, TypeOK
<1>3. /\ pc[q] = "append" /\ pc'[q] = "readAnswers"
      /\ UNCHANGED <<seen, outcome, command>>
  BY <1>1, <1>2 DEF AppendAnswer, AppendDecision, AfterAppend, TypeOK
<1>4. outcome'[q] = "none"
  BY <1>3 DEF Accounted
<1>5. Recorded(q, answers, decisions, seen[q].latest)'
  <2>1. CASE AppendAnswer(q)
    <3> DEFINE a == [question |-> command[q].question, action |-> command[q].action,
                     at |-> clock, run |-> seen[q].latest]
    <3>1. a \in answers' /\ command[q].kind = "answer"
      BY <1>2, <2>1 DEF AppendAnswer
    <3>2. a.question = command[q].question /\ a.run = seen[q].latest
      OBVIOUS
    <3> QED
      BY <1>3, <3>1, <3>2 DEF Recorded
  <2>2. CASE AppendDecision(q)
    <3> DEFINE d == [id |-> command[q].decision, run |-> seen[q].latest]
    <3>1. d \in decisions' /\ command[q].kind = "decide"
      BY <1>2, <2>2 DEF AppendDecision
    <3>2. d.id = command[q].decision
      OBVIOUS
    <3> QED
      BY <1>3, <3>1, <3>2 DEF Recorded
  <2> QED
    BY <2>1, <2>2
<1> QED
  BY <1>3, <1>4, <1>5 DEF Accounted, InTables, InPack, NotListed, Recording

\* Listing the answers finds the one just given.
LEMMA ReadAnswersAccounts ==
  ASSUME IInv, NEW q \in Procs, ReadAnswers(q), Accounted(q)
  PROVE  Accounted(q)'
<1>1. /\ pc[q] = "readAnswers" /\ pc'[q] = "readDecisions"
      /\ seen'[q].answers = answers /\ seen'[q].latest = seen[q].latest
      /\ UNCHANGED <<answers, decisions, outcome, command>>
  BY DEF IInv, TypeOK, SeenType, ReadAnswers, dbVars
<1>2. outcome'[q] = "none" /\ Recorded(q, answers, decisions, seen[q].latest)
  BY <1>1 DEF Accounted, InTables
<1>3. Recorded(q, seen[q].answers, decisions, seen[q].latest)'
  BY <1>1, <1>2 DEF Recorded
<1> QED
  BY <1>1, <1>2, <1>3 DEF Accounted, InTables, InPack, NotListed, Recording

\* The pack shows what the process has read, and a capture's run asks nothing
\* that is answered there.
LEMMA ReadDecisionsAccounts ==
  ASSUME IInv, NEW q \in Procs, ReadDecisions(q), Accounted(q),
         \A a \in answers : a.at <= clock
  PROVE  Accounted(q)'
<1> DEFINE s == [seen[q] EXCEPT !.decisions = decisions]
           c == command[q]
<1>1. TypeOK /\ Backed(q) /\ clock \in Nat /\ c \in Command
  BY DEF IInv, InFlightIsBacked, TypeOK
<1>2. /\ pc[q] = "readDecisions" /\ pc'[q] = AfterReads(c)
      /\ pack'[q] \in Packs(c, s)
      /\ UNCHANGED <<clock, runs, answers, decisions, outcome, command>>
  BY <1>1 DEF TypeOK, ReadDecisions, dbVars
<1>3. /\ s \in SeenType /\ s.latest = seen[q].latest /\ s.answers = seen[q].answers
      /\ s.decisions = decisions
  BY <1>1 DEF TypeOK, SeenType
<1>4. /\ outcome'[q] = "none"
      /\ Recorded(q, s.answers, s.decisions, s.latest)
  BY <1>2, <1>3 DEF Accounted, InTables
<1> HIDE DEF s
<1>5. CASE c.kind = "capture"
  <2>1. PICK e \in Evidence : pack'[q] = CapturePack(s, e, clock)
    BY <1>2, <1>5 DEF Packs
  <2>2. e \in EvidenceType /\ FiniteEvidence(e)
    BY InputsAssumption, EvidenceAssumption DEF FiniteEvidence
  <2>3. /\ pack'[q].id = clock /\ pack'[q].answers = s.answers
        /\ Asks(pack'[q].run)
        /\ \A a \in s.answers : a.question \notin pack'[q].run.open
        /\ s.answers = {} => pack'[q].run.open \cap pack'[q].run.telemetry.suppressed = {}
    BY <1>1, <1>3, <2>1, <2>2, CapturePackType, CapturePackAsks
  <2>4. s.answers \subseteq answers
    BY <1>1, <1>3 DEF Backed
  <2>5. Justified(pack[q].id, pack[q].run)'
    BY <1>2, <2>3, <2>4 DEF Justified
  <2>6. pc'[q] = "saveRun" /\ command'[q].kind = "capture"
    BY <1>2, <1>5 DEF AfterReads
  <2> QED
    BY <1>4, <2>3, <2>5, <2>6 DEF Accounted, InTables, InPack, NotListed, Recording
<1>6. CASE c.kind # "capture"
  <2>1. s.latest \in DOMAIN runs /\ runs[s.latest] \in RunRecord
    BY <1>1, <1>2, <1>3, <1>6 DEF Backed, TypeOK
  <2>2. c.kind \in {"answer", "decide"}
    BY <1>1, <1>6 DEF Command
  <2>3. \/ c.kind = "answer" /\ pack'[q] = AnswerPack(s)
        \/ c.kind = "decide" /\ pack'[q] = DecisionPack(s)
    BY <1>2, <2>2 DEF Packs
  <2>4. /\ pack'[q].id = s.latest /\ pack'[q].answers = s.answers
        /\ pack'[q].decisions = s.decisions
    BY <1>3, <2>1, <2>3, AnswerPackType, DecisionPackType
  <2>5. c.kind = "answer" => \A a \in s.answers : a.question \notin pack'[q].run.open
    BY <1>3, <2>1, <2>3, AnswerPackAsks
  <2>6. c.kind = "decide" => runs[s.latest].open = pack'[q].run.open
    BY <2>1, <2>3 DEF DecisionPack, RunRecord
  <2>7. pc'[q] = "truncate"
    BY <1>2, <1>6 DEF AfterReads
  <2>8. InPack(q)'
    BY <1>2, <1>4, <1>6, <2>1, <2>4, <2>6 DEF InPack, Recorded
  <2>9. NotListed(q)'
    BY <1>2, <2>2, <2>4, <2>5 DEF NotListed
  <2> QED
    BY <1>4, <2>7, <2>8, <2>9 DEF Accounted, InTables
<1> QED
  BY <1>5, <1>6

\* A saved run is the run of the pack.
LEMMA SaveRunAccounts ==
  ASSUME IInv, NEW q \in Procs, SaveRun(q), pc'[q] # "idle", Accounted(q)
  PROVE  Accounted(q)'
<1>1. TypeOK /\ Backed(q)
  BY DEF IInv, InFlightIsBacked
<1>2. ~Refuse(q)
  BY <1>1 DEF Refuse, Return, TypeOK
<1>3. /\ pc[q] = "saveRun" /\ pc'[q] = "truncate"
      /\ runs' = Extend(runs, pack[q].id, pack[q].run)
      /\ UNCHANGED <<pack, outcome, command>>
  BY <1>1, <1>2 DEF SaveRun, TypeOK
<1>4. pack[q].id \in DOMAIN runs' /\ runs'[pack[q].id] = pack[q].run
  BY <1>3 DEF Extend
<1>5. command[q].kind = "capture" /\ outcome[q] = "none" /\ NotListed(q)
  BY <1>1, <1>3 DEF Backed, Accounted
<1>6. InPack(q)'
  BY <1>3, <1>4, <1>5 DEF InPack, Recorded
<1>7. NotListed(q)'
  BY <1>3, <1>5 DEF NotListed, Recording
<1> QED
  BY <1>3, <1>5, <1>6, <1>7 DEF Accounted, InTables

\* Writing the reports changes nothing of that.
LEMMA WriteAccounts ==
  ASSUME IInv, NEW q \in Procs, Truncate(q) \/ Put(q), Accounted(q)
  PROVE  Accounted(q)'
<1>1. TypeOK
  BY DEF IInv
<1>2. /\ pc[q] \in {"truncate", "put"} /\ pc'[q] \in {"truncate", "put", "index"}
      /\ UNCHANGED <<runs, answers, decisions, indexed, command, seen, pack, outcome>>
  BY <1>1 DEF Truncate, Put, TypeOK, dbVars
<1> QED
  BY <1>2 DEF Accounted, InTables, InPack, NotListed, Recording, Recorded

\* The command succeeds when every report is listed.
LEMMA IndexAccounts ==
  ASSUME IInv, NEW q \in Procs, Index(q), Accounted(q)
  PROVE  Accounted(q)'
<1>1. TypeOK
  BY DEF IInv
<1>2. /\ pc[q] = "index" /\ pc'[q] = "idle" /\ outcome'[q] = "durable" /\ pack'[q] = pack[q]
      /\ indexed' = IndexUpTo(q, Len(Artifacts))
      /\ UNCHANGED <<runs, answers, decisions, command>>
  BY <1>1 DEF Index, Return, TypeOK
<1>3. \A f \in FileNames : <<pack[q].id, f>> \in indexed'
  <2> SUFFICES ASSUME NEW f \in FileNames PROVE <<pack[q].id, f>> \in indexed'
    OBVIOUS
  <2>1. PICK i \in 1..Len(Artifacts) : f = Artifacts[i]
    BY ArtifactsAssumption DEF FileNames, Range
  <2> QED
    BY <1>2, <2>1 DEF IndexUpTo
<1>4. InPack(q)' /\ NotListed(q)'
  BY <1>2 DEF Accounted, InPack, NotListed, Recording, Recorded
<1> QED
  BY <1>2, <1>3, <1>4 DEF Accounted, InTables

\* Every step keeps the accounts.
LEMMA NextAccounts ==
  ASSUME IInv, AccountInv, [Next]_vars
  PROVE  AccountInv'
<1>1. /\ TypeOK /\ TypeOK' /\ clock \in Nat /\ clock' \in Nat /\ clock <= clock'
      /\ TablesGrow /\ indexed \subseteq indexed'
  BY NextIInv, NextGrows DEF IInv, TypeOK, TablesGrow
<1>2. \A a \in answers' : a.at <= clock'
  <2>1. \A a \in answers' : a \in answers \/ a.at = clock
    BY NextGrows
  <2>2. \A a \in answers' : a.at \in Nat
    BY <1>1 DEF TypeOK, AnswerRecord
  <2> QED
    BY <1>1, <2>1, <2>2 DEF AccountInv
<1>3. \A id \in DOMAIN runs' : Justified(id, runs[id])'
  <2> SUFFICES ASSUME NEW id \in DOMAIN runs' PROVE Justified(id, runs[id])'
    OBVIOUS
  <2>1. CASE id \in DOMAIN runs
    BY <1>1, <2>1 DEF AccountInv, Justified, TablesGrow
  <2>2. CASE id \notin DOMAIN runs
    <3>1. PICK p \in Procs : pc[p] = "saveRun" /\ id = pack[p].id /\ runs'[id] = pack[p].run
      BY <2>2, NextGrows
    <3>2. Justified(id, pack[p].run)
      BY <3>1 DEF AccountInv, Accounted
    <3> QED
      BY <1>1, <3>1, <3>2 DEF Justified, TablesGrow
  <2> QED
    BY <2>1, <2>2
<1>4. ASSUME NEW q \in Procs PROVE Accounted(q)'
  <2>1. Accounted(q)
    BY DEF AccountInv
  <2>2. CASE LocalsKept(q) /\ outcome'[q] = outcome[q]
    BY <1>1, <2>1, <2>2, AccountedKept
  <2>3. CASE pc'[q] = "idle" /\ outcome'[q] # "durable"
    BY <2>3, AccountedEnded
  <2>4. ASSUME NEW c \in Commands, Begin(q, c), pc'[q] # "idle" PROVE Accounted(q)'
    BY <2>4, BeginAccounts
  <2>5. CASE Index(q)
    BY <2>1, <2>5, IndexAccounts
  <2>6. CASE pc'[q] # "idle" /\ Progress(q)
    <3>1. CASE AppendAnswer(q) \/ AppendDecision(q)
      BY <2>1, <2>6, <3>1, AppendAccounts
    <3>2. CASE ReadAnswers(q)
      BY <2>1, <3>2, ReadAnswersAccounts
    <3>3. CASE ReadDecisions(q)
      BY <2>1, <3>3, ReadDecisionsAccounts DEF AccountInv
    <3>4. CASE SaveRun(q)
      BY <2>1, <2>6, <3>4, SaveRunAccounts
    <3>5. CASE Truncate(q) \/ Put(q)
      BY <2>1, <3>5, WriteAccounts
    <3> QED
      BY <2>5, <2>6, <3>1, <3>2, <3>3, <3>4, <3>5 DEF Progress
  <2> QED
    BY <2>2, <2>3, <2>4, <2>5, <2>6, StepOf
<1> QED
  BY <1>2, <1>3, <1>4 DEF AccountInv

\* Whatever the other processes do, the accounts hold.
THEOREM Accounting == Spec => []AccountInv
<1>1. Init => AccountInv
  BY DEF Init, AccountInv, Accounted, InTables, InPack, NotListed, Recording
<1>2. IInv /\ AccountInv /\ [Next]_vars => AccountInv'
  BY NextAccounts
<1> QED
  BY <1>1, <1>2, Invariance, PTL DEF Spec

\* A command that reports success has recorded what it was asked to record, in
\* tables and reports, for any number of processes and any failures.
THEOREM DurableCommandsAreStored == Spec => []DurableIsStored
<1>1. IInv /\ AccountInv => DurableIsStored
  <2> SUFFICES ASSUME IInv, AccountInv, NEW p \in Procs, outcome[p] = "durable"
               PROVE  /\ pack[p].id \in DOMAIN runs
                      /\ \A f \in FileNames : <<pack[p].id, f>> \in indexed
                      /\ command[p].kind = "capture" => runs[pack[p].id] = pack[p].run
                      /\ command[p].kind = "decide" =>
                           runs[pack[p].id].open = pack[p].run.open
                      /\ command[p].kind = "answer" =>
                           \E a \in pack[p].answers \cap answers :
                             a.question = command[p].question /\ a.run = pack[p].id
                      /\ command[p].kind = "decide" =>
                           \E d \in pack[p].decisions \cap decisions :
                             d.id = command[p].decision
    BY DEF DurableIsStored
  <2>1. pack[p].answers \subseteq answers /\ pack[p].decisions \subseteq decisions
    BY DEF IInv, InFlightIsBacked, Backed
  <2>2. /\ InPack(p) /\ Recording(p)
        /\ \A f \in FileNames : <<pack[p].id, f>> \in indexed
    BY DEF AccountInv, Accounted, Recording
  <2> QED
    BY <2>1, <2>2 DEF InPack, Recorded
<1> QED
  BY <1>1, Invariance, Accounting, PTL

\* A saved run asks no more than the limit, and only what its evidence and its
\* baseline leave uncertain.
THEOREM RunsAskCandidates == Spec => []OpenQuestionsAreCandidates
<1>1. IInv /\ AccountInv => OpenQuestionsAreCandidates
  <2> SUFFICES ASSUME IInv, AccountInv, NEW id \in DOMAIN runs
               PROVE  /\ Cardinality(runs[id].open) <= QuestionLimit
                      /\ \A q \in runs[id].open \cap FactQuestions :
                           /\ q \in runs[id].telemetry.facts
                           /\ ShouldAskAboutFact(runs[id].baseline, q)
                      /\ (\A a \in answers : a.at > id) =>
                           runs[id].open \cap runs[id].telemetry.suppressed = {}
    BY DEF OpenQuestionsAreCandidates
  <2>1. Justified(id, runs[id])
    BY DEF AccountInv
  <2>2. id \in Nat /\ \A a \in answers : a.at \in Nat
    BY DEF IInv, TypeOK, AnswerRecord
  <2>3. (\A a \in answers : a.at > id) => ~\E a \in answers : a.at <= id
    BY <2>2
  <2> QED
    BY <2>1, <2>3 DEF Justified, Asks, Few
<1> QED
  BY <1>1, Invariance, Accounting, PTL

-----------------------------------------------------------------------------
(***************************************************************************)
(* A single process, which may fail, be killed and be started again: what  *)
(* it has read and rendered is up to date.                                 *)
(***************************************************************************)
SoleProcess == \A p, q \in Procs : p = q

WholeFor(p, f) == files[f] = [state |-> "whole", pack |-> pack[p]]

\* What the process has read is what the tables hold.
Current(p) ==
  /\ pc[p] \in {"append", "readAnswers", "readDecisions"} /\ command[p].kind # "capture" =>
       seen[p].latest = latest
  /\ pc[p] = "readDecisions" => seen[p].answers = answers
  /\ Recording(p) \/ pc[p] = "saveRun" =>
       pack[p].answers = answers /\ pack[p].decisions = decisions
  /\ Recording(p) => pack[p].id = latest

\* The reports up to the one it is at show its pack.
WrittenSoFar(p) ==
  /\ pc[p] \in {"truncate", "put", "index"} =>
       \A i \in 1..written[p] : WholeFor(p, Artifacts[i])
  /\ pc[p] = "put" => files[CurrentFile(p)].state = "truncated"
  /\ pc[p] = "index" => written[p] = Len(Artifacts)
  /\ outcome[p] = "durable" => \A f \in FileNames : WholeFor(p, f)

SoloInv ==
  /\ \A p \in Procs : Current(p) /\ WrittenSoFar(p)
  /\ \A id \in DOMAIN runs, a \in answers : a.at < id => a.question \notin runs[id].open

\* With nobody else about, what a process does not do is not done.
LEMMA SoloStepOf ==
  ASSUME SoleProcess, IInv, [Next]_vars, NEW q \in Procs
  PROVE  \/ /\ LocalsKept(q) /\ outcome'[q] = outcome[q]
            /\ UNCHANGED <<runs, latest, answers, decisions, files>>
         \/ pc'[q] = "idle" /\ outcome'[q] # "durable"
         \/ pc'[q] # "idle" /\ \E c \in Commands : Begin(q, c)
         \/ pc'[q] # "idle" /\ Progress(q)
         \/ Index(q)
<1>1. \/ LocalsKept(q) /\ outcome'[q] = outcome[q]
      \/ pc'[q] = "idle" /\ outcome'[q] # "durable"
      \/ pc'[q] # "idle" /\ \E c \in Commands : Begin(q, c)
      \/ pc'[q] # "idle" /\ Progress(q)
      \/ Index(q)
  BY StepOf
<1>2. CASE LocalsKept(q) /\ outcome'[q] = outcome[q]
  <2>1. CASE Tick \/ UNCHANGED vars
    BY <1>2, <2>1 DEF Tick, vars, dbVars
  <2>2. ASSUME NEW p \in Procs, \/ \E c \in Commands : Begin(p, c) \/ BeginFails(p, c)
                                \/ Fail(p) \/ Crash(p)
        PROVE  UNCHANGED <<runs, latest, answers, decisions, files>>
    BY <2>2 DEF Begin, BeginFails, Fail, Crash, dbVars
  <2>3. ASSUME NEW p \in Procs, Progress(p)
        PROVE  pc'[q] # "idle" /\ Progress(q)
    <3>1. p = q
      BY DEF SoleProcess
    <3>2. pc[q] # "idle"
      BY <2>3, <3>1 DEF Progress, AppendAnswer, AppendDecision, ReadAnswers, ReadDecisions,
                        SaveRun, Truncate, Put, Index
    <3> QED
      BY <1>2, <2>3, <3>1, <3>2 DEF LocalsKept
  <2> QED
    BY <1>2, <2>1, <2>2, <2>3 DEF Next
<1> QED
  BY <1>1, <1>2

\* A step that keeps tables, files and locals keeps what is said of them.
LEMMA CurrentKept ==
  ASSUME NEW q \in Procs, LocalsKept(q), outcome'[q] = outcome[q],
         UNCHANGED <<runs, latest, answers, decisions, files>>,
         Current(q), WrittenSoFar(q)
  PROVE  Current(q)' /\ WrittenSoFar(q)'
<1>1. /\ pc'[q] = pc[q] /\ command'[q] = command[q] /\ seen'[q] = seen[q]
      /\ pack'[q] = pack[q] /\ written'[q] = written[q]
  BY DEF LocalsKept
<1>2. CurrentFile(q)' = CurrentFile(q)
  BY <1>1 DEF CurrentFile
<1>3. Current(q)'
  BY <1>1 DEF Current, Recording
<1>4. WrittenSoFar(q)'
  BY <1>1, <1>2 DEF WrittenSoFar, WholeFor
<1> QED
  BY <1>3, <1>4

LEMMA CurrentEnded ==
  ASSUME NEW q \in Procs, pc'[q] = "idle", outcome'[q] # "durable"
  PROVE  Current(q)' /\ WrittenSoFar(q)'
BY DEF Current, WrittenSoFar, Recording

\* Up to the reports: the tables are read after the last insert.
LEMMA ReadsCurrent ==
  ASSUME IInv, NEW q \in Procs, Accounted(q), Current(q), pc'[q] # "idle",
         \/ \E c \in Commands : Begin(q, c)
         \/ AppendAnswer(q) \/ AppendDecision(q) \/ ReadAnswers(q) \/ ReadDecisions(q)
         \/ SaveRun(q)
  PROVE  Current(q)' /\ WrittenSoFar(q)'
<1>1. TypeOK /\ Backed(q) /\ (pc[q] \notin {"truncate", "put", "index"} => written[q] = 0)
  BY DEF IInv, InFlightIsBacked, FilesInOrder
<1>2. ASSUME NEW c \in Commands, Begin(q, c) PROVE Current(q)' /\ WrittenSoFar(q)'
  <2>1. /\ pc'[q] = FirstStep(c) /\ outcome'[q] = "none" /\ command'[q] = c
        /\ seen'[q].latest = latest /\ latest' = latest
    BY <1>1, <1>2 DEF TypeOK, Begin, NothingSeen, dbVars
  <2>2. pc'[q] = "append" \/ (pc'[q] = "readAnswers" /\ c.kind = "capture")
    BY <2>1 DEF FirstStep
  <2> QED
    BY <2>1, <2>2 DEF Current, WrittenSoFar, Recording
<1>3. CASE AppendAnswer(q) \/ AppendDecision(q)
  <2>1. ~Refuse(q)
    BY <1>1 DEF Refuse, Return, TypeOK
  <2>2. /\ pc[q] = "append" /\ pc'[q] = "readAnswers" /\ command[q].kind # "capture"
        /\ UNCHANGED <<seen, outcome, command, latest>>
    BY <1>1, <1>3, <2>1 DEF AppendAnswer, AppendDecision, AfterAppend, TypeOK
  <2> QED
    BY <2>2 DEF Accounted, Current, WrittenSoFar, Recording
<1>4. CASE ReadAnswers(q)
  <2>1. /\ pc[q] = "readAnswers" /\ pc'[q] = "readDecisions"
        /\ seen'[q].answers = answers /\ seen'[q].latest = seen[q].latest
        /\ UNCHANGED <<answers, latest, outcome, command>>
    BY <1>1, <1>4 DEF TypeOK, SeenType, ReadAnswers, dbVars
  <2> QED
    BY <2>1 DEF Accounted, Current, WrittenSoFar, Recording
<1>5. CASE ReadDecisions(q)
  <2> DEFINE s == [seen[q] EXCEPT !.decisions = decisions]
             c == command[q]
  <2>1. /\ pc[q] = "readDecisions" /\ pc'[q] = AfterReads(c)
        /\ pack'[q] \in Packs(c, s) /\ outcome[q] = "none" /\ c \in Command
        /\ UNCHANGED <<latest, answers, decisions, outcome, command, written>>
    BY <1>1, <1>5 DEF TypeOK, ReadDecisions, dbVars, Accounted
  <2>2. /\ s \in SeenType /\ s.latest = seen[q].latest /\ s.answers = answers
        /\ s.decisions = decisions
    BY <1>1, <2>1 DEF TypeOK, SeenType, Current
  <2> HIDE DEF s
  <2>3. CASE c.kind = "capture"
    <3>1. PICK e \in Evidence : pack'[q] = CapturePack(s, e, clock)
      BY <2>1, <2>3 DEF Packs
    <3>2. pack'[q].answers = answers /\ pack'[q].decisions = decisions
      BY <1>1, <2>2, <3>1, InputsAssumption, CapturePackType DEF TypeOK
    <3>3. pc'[q] = "saveRun" /\ outcome'[q] = "none"
      BY <2>1, <2>3 DEF AfterReads
    <3> QED
      BY <2>1, <3>2, <3>3 DEF Current, WrittenSoFar, Recording
  <2>4. CASE c.kind # "capture"
    <3>1. s.latest = latest /\ runs[s.latest] \in RunRecord
      BY <1>1, <2>1, <2>2, <2>4 DEF Backed, TypeOK, Current
    <3>2. c.kind \in {"answer", "decide"}
      BY <2>1, <2>4 DEF Command
    <3>3. pack'[q] = AnswerPack(s) \/ pack'[q] = DecisionPack(s)
      BY <2>1, <3>2 DEF Packs
    <3>4. pack'[q].id = latest /\ pack'[q].answers = answers /\ pack'[q].decisions = decisions
      BY <2>2, <3>1, <3>3, AnswerPackType, DecisionPackType
    <3>5. pc'[q] = "truncate" /\ outcome'[q] = "none" /\ written'[q] = 0
      BY <1>1, <2>1, <2>4 DEF AfterReads
    <3>6. Current(q)'
      BY <2>1, <3>4, <3>5 DEF Current
    <3>7. WrittenSoFar(q)'
      BY <3>5 DEF WrittenSoFar
    <3> QED
      BY <3>6, <3>7
  <2> QED
    BY <2>3, <2>4
<1>6. CASE SaveRun(q)
  <2>1. ~Refuse(q)
    BY <1>1 DEF Refuse, Return, TypeOK
  <2>2. /\ pc[q] = "saveRun" /\ pc'[q] = "truncate" /\ latest' = pack[q].id
        /\ UNCHANGED <<pack, outcome, answers, decisions, written>>
    BY <1>1, <1>6, <2>1 DEF SaveRun, TypeOK
  <2>3. outcome'[q] = "none" /\ written'[q] = 0
    BY <1>1, <2>2 DEF Accounted
  <2> QED
    BY <2>2, <2>3 DEF Current, WrittenSoFar
<1> QED
  BY <1>2, <1>3, <1>4, <1>5, <1>6

\* The reports: each is truncated, then written whole, and the ones before it
\* are not touched again.
LEMMA WritesCurrent ==
  ASSUME IInv, NEW q \in Procs, Accounted(q), Current(q), WrittenSoFar(q),
         Truncate(q) \/ Put(q)
  PROVE  Current(q)' /\ WrittenSoFar(q)'
<1> DEFINE n == written[q]
<1>1. /\ TypeOK /\ Len(Artifacts) \in Nat /\ n \in Nat /\ n < Len(Artifacts)
  BY ArtifactsAssumption DEF IInv, TypeOK, FilesInOrder, Truncate, Put
<1>2. /\ pc[q] \in {"truncate", "put"} /\ outcome[q] = "none"
      /\ UNCHANGED <<latest, answers, decisions, command, seen, pack, outcome>>
  BY DEF Truncate, Put, Accounted, dbVars
<1>3. /\ \A i \in 1..n : Artifacts[i] # Artifacts[n + 1] /\ Artifacts[i] \in FileNames
      /\ Artifacts[n + 1] \in FileNames
  <2>1. \A i \in 1..n : i \in DOMAIN Artifacts /\ n + 1 \in DOMAIN Artifacts /\ i # n + 1
    BY <1>1, ArtifactsAssumption
  <2>2. n + 1 \in DOMAIN Artifacts
    BY <1>1, ArtifactsAssumption
  <2> QED
    BY <2>1, <2>2, ArtifactsAssumption DEF IsInjective, FileNames, Range
<1>4. \A i \in 1..n : WholeFor(q, Artifacts[i])
  BY <1>2 DEF WrittenSoFar
<1>5. CASE Truncate(q)
  <2>1. /\ pc'[q] = "put" /\ written' = written
        /\ files'[Artifacts[n + 1]].state = "truncated"
        /\ \A f \in FileNames : f # Artifacts[n + 1] => files'[f] = files[f]
    BY <1>1, <1>3, <1>5 DEF Truncate, CurrentFile, TypeOK
  <2>2. Current(q)'
    BY <1>2, <2>1 DEF Current, Recording
  <2>3. WrittenSoFar(q)'
    BY <1>2, <1>3, <1>4, <2>1 DEF WrittenSoFar, WholeFor, CurrentFile
  <2> QED
    BY <2>2, <2>3
<1>6. CASE Put(q)
  <2>1. pc[q] = "put" /\ files[CurrentFile(q)].state = "truncated"
    BY <1>6 DEF Put, WrittenSoFar
  <2>2. /\ written'[q] = n + 1
        /\ pc'[q] = (IF n + 1 < Len(Artifacts) THEN "truncate" ELSE "index")
        /\ files' = [files EXCEPT ![CurrentFile(q)] = [state |-> "whole", pack |-> pack[q]]]
    BY <1>1, <1>6, <2>1 DEF Put, MoreFiles, TypeOK
  <2>3. /\ files'[Artifacts[n + 1]] = [state |-> "whole", pack |-> pack[q]]
        /\ \A f \in FileNames : f # Artifacts[n + 1] => files'[f] = files[f]
    BY <1>1, <1>3, <2>2 DEF CurrentFile, TypeOK
  <2>4. \A i \in 1..(n + 1) : files'[Artifacts[i]] = [state |-> "whole", pack |-> pack[q]]
    <3>1. \A i \in 1..(n + 1) : i \in 1..n \/ i = n + 1
      BY <1>1
    <3> QED
      BY <1>3, <1>4, <2>3, <3>1 DEF WholeFor
  <2>5. Current(q)'
    BY <1>2, <2>2 DEF Current, Recording
  <2>6. pc'[q] = "index" => written'[q] = Len(Artifacts)
    BY <1>1, <2>2
  <2>7. WrittenSoFar(q)'
    BY <1>2, <2>2, <2>4, <2>6 DEF WrittenSoFar, WholeFor
  <2> QED
    BY <2>5, <2>7
<1> QED
  BY <1>5, <1>6

LEMMA IndexCurrent ==
  ASSUME IInv, NEW q \in Procs, Current(q), WrittenSoFar(q), Index(q)
  PROVE  Current(q)' /\ WrittenSoFar(q)'
<1>1. TypeOK
  BY DEF IInv
<1>2. /\ pc[q] = "index" /\ pc'[q] = "idle" /\ outcome'[q] = "durable" /\ pack'[q] = pack[q]
      /\ UNCHANGED <<latest, answers, decisions, files, command>>
  BY <1>1 DEF Index, Return, TypeOK
<1>3. \A f \in FileNames : WholeFor(q, f)
  <2>1. \A f \in FileNames : \E i \in 1..Len(Artifacts) : f = Artifacts[i]
    BY ArtifactsAssumption DEF FileNames, Range
  <2> QED
    BY <1>2, <2>1 DEF WrittenSoFar
<1>4. Current(q)'
  BY <1>2 DEF Current, Recording
<1>5. WrittenSoFar(q)'
  BY <1>2, <1>3 DEF WrittenSoFar, WholeFor
<1> QED
  BY <1>4, <1>5

\* Every step keeps a single process up to date, and no run asks again.
LEMMA NextSolo ==
  ASSUME SoleProcess, IInv, AccountInv, SoloInv, [Next]_vars
  PROVE  SoloInv'
<1>1. ASSUME NEW q \in Procs PROVE Current(q)' /\ WrittenSoFar(q)'
  <2>1. Accounted(q) /\ Current(q) /\ WrittenSoFar(q)
    BY DEF AccountInv, SoloInv
  <2>2. CASE /\ LocalsKept(q) /\ outcome'[q] = outcome[q]
             /\ UNCHANGED <<runs, latest, answers, decisions, files>>
    BY <2>1, <2>2, CurrentKept
  <2>3. CASE pc'[q] = "idle" /\ outcome'[q] # "durable"
    BY <2>3, CurrentEnded
  <2>4. CASE pc'[q] # "idle" /\ \E c \in Commands : Begin(q, c)
    BY <2>1, <2>4, ReadsCurrent
  <2>5. CASE Index(q)
    BY <2>1, <2>5, IndexCurrent
  <2>6. CASE pc'[q] # "idle" /\ Progress(q)
    <3>1. CASE Truncate(q) \/ Put(q)
      BY <2>1, <3>1, WritesCurrent
    <3>2. CASE \/ AppendAnswer(q) \/ AppendDecision(q) \/ ReadAnswers(q)
               \/ ReadDecisions(q) \/ SaveRun(q)
      BY <2>1, <2>6, <3>2, ReadsCurrent
    <3> QED
      BY <2>5, <2>6, <3>1, <3>2 DEF Progress
  <2> QED
    BY <2>2, <2>3, <2>4, <2>5, <2>6, SoloStepOf
<1>2. ASSUME NEW id \in DOMAIN runs', NEW a \in answers', a.at < id
      PROVE  a.question \notin runs'[id].open
  <2>1. TypeOK /\ TypeOK' /\ RunsArePast /\ RunsArePast' /\ TablesGrow
    BY NextIInv, NextGrows DEF IInv
  <2>2. /\ id \in Nat /\ a.at \in Nat /\ clock \in Nat /\ clock' \in Nat /\ id <= clock'
    BY <2>1 DEF TypeOK, AnswerRecord, RunsArePast
  <2>3. CASE id \in DOMAIN runs /\ a \in answers
    BY <1>2, <2>1, <2>3 DEF SoloInv, TablesGrow
  <2>4. CASE a \notin answers
    <3>1. a.at = clock /\ clock' = clock
      BY <2>4, NextGrows
    <3> QED
      BY <1>2, <2>2, <3>1
  <2>5. CASE id \notin DOMAIN runs /\ a \in answers
    <3>1. PICK p \in Procs : pc[p] = "saveRun" /\ runs'[id] = pack[p].run
      BY <2>5, NextGrows
    <3>2. /\ pack[p].answers = answers /\ command[p].kind = "capture"
          /\ \A b \in pack[p].answers : b.question \notin pack[p].run.open
      BY <3>1 DEF SoloInv, Current, AccountInv, Accounted, NotListed, IInv,
                  InFlightIsBacked, Backed
    <3> QED
      BY <2>5, <3>1, <3>2
  <2> QED
    BY <2>3, <2>4, <2>5
<1> QED
  BY <1>1, <1>2 DEF SoloInv

\* A process that is alone stays up to date, through failures and kills.
THEOREM SoloInvariance == ASSUME SoleProcess PROVE Spec => []SoloInv
<1>1. Init => SoloInv
  BY DEF Init, SoloInv, Current, WrittenSoFar, Recording
<1>2. IInv /\ AccountInv /\ SoloInv /\ [Next]_vars => SoloInv'
  BY NextSolo
<1> QED
  BY <1>1, <1>2, Invariance, Accounting, PTL DEF Spec

\* A lone process never asks again what was answered or skipped.
THEOREM AnsweredIsNotAsked == ASSUME SoleProcess PROVE Spec => []NotAskedAgain
<1>1. AccountInv /\ SoloInv => NotAskedAgain
  BY DEF NotAskedAgain, AccountInv, SoloInv, Accounted, NotListed, Recording
<1> QED
  BY <1>1, Accounting, SoloInvariance, PTL

\* Its successful command leaves every report whole and up to date, whatever an
\* earlier failure or kill left there.
THEOREM DurableRepairs == ASSUME SoleProcess PROVE Spec => []DurableRepairsReports
<1>1. SoloInv => DurableRepairsReports
  BY DEF DurableRepairsReports, SoloInv, Current, WrittenSoFar, Recording, WholeFor
<1> QED
  BY <1>1, SoloInvariance, PTL

=============================================================================
