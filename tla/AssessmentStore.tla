-------------------------- MODULE AssessmentStore --------------------------
(***************************************************************************)
(* The durable commands of Tech Lead: capture, answer and decide, as they  *)
(* run in separate processes (a CLI call, an MCP server, a hook) over one  *)
(* repository's tech-lead.db and the report files beside it.               *)
(*                                                                         *)
(* Every SQL statement is a step of its own, saveRun's transaction being   *)
(* one statement, and the rows that list the files, which nothing reads    *)
(* back, one step too; every report file is rewritten in two steps, as     *)
(* writeFileSync first truncates.  Processes interleave between any two    *)
(* steps.  A step may fail (a locked database, a full disk, a missing      *)
(* analysis tool) and a process may be killed.                             *)
(*                                                                         *)
(* Left out: what a run says beyond its questions and lifecycle, the       *)
(* caller's option to supply ids, times and statuses of its own, and the   *)
(* lifecycle audit and usage tables, which these commands do not touch.    *)
(* The clock does not run backwards.                                       *)
(***************************************************************************)
EXTENDS Interview, Sequences, Functions

CONSTANTS
  Procs,        \* processes that run commands, each one command at a time
  Decisions,    \* decision ids callers use
  Commands,     \* the commands callers may issue, a subset of Command
  Evidence,     \* what telemetry collection may find, a subset of EvidenceType
  Artifacts,    \* the report files, in the order they are written
  MaxTime,      \* bound: last millisecond of the clock
  MaxCommands,  \* bound: commands started
  MaxFaults,    \* bound: steps that fail
  MaxCrashes    \* bound: processes killed

ASSUME ArtifactsAssumption ==
  /\ Artifacts \in Seq(STRING)
  /\ Len(Artifacts) > 0
  /\ IsInjective(Artifacts)
ASSUME BoundsAssumption ==
  /\ MaxTime \in Nat /\ MaxCommands \in Nat
  /\ MaxFaults \in Nat /\ MaxCrashes \in Nat

VARIABLES
  clock,      \* milliseconds
  runs,       \* table assessment_runs: run id -> row
  latest,     \* meta row latest_run_id, NoRun if absent
  answers,    \* table answers
  decisions,  \* table decisions
  indexed,    \* table artifacts: <<run id, file>>
  files,      \* file -> its state and the pack it was rendered from
  pc,         \* process -> the step it takes next
  command,    \* process -> its current, or last, command
  seen,       \* process -> what it has read from the database
  pack,       \* process -> the LatestAssessmentPack it has built
  written,    \* process -> number of files it has finished
  outcome,    \* process -> how its last command returned
  left        \* commands, faults and crashes still within the bounds

dbVars == <<runs, latest, answers, decisions, indexed>>
procVars == <<pc, command, seen, pack, written, outcome>>
vars == <<clock, dbVars, files, procVars, left>>

NoRun == 0
RunId == Nat    \* makeRunId(now): as distinct as the milliseconds they name
FileNames == Range(Artifacts)

Command ==
  [kind : {"capture"}]
    \cup [kind : {"answer"}, question : Questions, action : AnswerActions]
    \cup [kind : {"decide"}, decision : Decisions, confirmed : BOOLEAN]

ASSUME InputsAssumption == Evidence \subseteq EvidenceType /\ Commands \subseteq Command
\* A look at the repository yields lists.
ASSUME EvidenceAssumption ==
  \A e \in Evidence :
    IsFiniteSet(e.facts) /\ IsFiniteSet(e.signals) /\ IsFiniteSet(e.claims)

(***************************************************************************)
(* Types.                                                                  *)
(***************************************************************************)
Lifecycle == {"captured", "partial_capture", "interview_open",
              "interview_updated", "decision_confirmed", "rerun_reused"}

RunRecord ==
  [previous : RunId, lifecycle : Lifecycle, telemetry : EvidenceType,
   baseline : BaselineType, open : SUBSET Questions]

AnswerRecord ==
  [question : Questions, action : AnswerActions, at : Nat, run : RunId]

DecisionRecord == [id : Decisions, run : RunId]

\* What a command renders into the reports and returns.  previous is the run
\* shown in changes-since-last.md.
PackType ==
  [id : RunId, previous : RunId, run : RunRecord,
   answers : SUBSET AnswerRecord, decisions : SUBSET DecisionRecord]

NoEvidence ==
  [facts |-> {}, inferred |-> {}, certain |-> {}, suppressed |-> {},
   signals |-> {}, claims |-> {}, passive |-> FALSE, warned |-> FALSE]

NoPack ==
  [id |-> NoRun, previous |-> NoRun,
   run |-> [previous |-> NoRun, lifecycle |-> "captured",
            telemetry |-> NoEvidence, baseline |-> BaselineOf(NoEvidence),
            open |-> {}],
   answers |-> {}, decisions |-> {}]

\* truncated: opened for writing, nothing written yet; mixed: the text of one
\* writer over the longer text of another.
FileState == {"absent", "truncated", "whole", "mixed"}

SeenType ==
  [latest : RunId, answers : SUBSET AnswerRecord, decisions : SUBSET DecisionRecord]

Step == {"idle", "append", "readAnswers", "readDecisions", "saveRun",
         "truncate", "put", "index"}

Outcome == {"none", "durable", "stale", "unavailable", "thrown", "killed"}

NothingSeen == [latest |-> NoRun, answers |-> {}, decisions |-> {}]

Init ==
  /\ clock = 1
  /\ runs = << >> /\ latest = NoRun
  /\ answers = {} /\ decisions = {} /\ indexed = {}
  /\ files = [f \in FileNames |-> [state |-> "absent", pack |-> NoPack]]
  /\ pc = [p \in Procs |-> "idle"]
  /\ command = [p \in Procs |-> [kind |-> "capture"]]
  /\ seen = [p \in Procs |-> NothingSeen]
  /\ pack = [p \in Procs |-> NoPack]
  /\ written = [p \in Procs |-> 0]
  /\ outcome = [p \in Procs |-> "none"]
  /\ left = [commands |-> MaxCommands, faults |-> MaxFaults, crashes |-> MaxCrashes]

Tick ==
  /\ clock < MaxTime
  /\ clock' = clock + 1
  /\ UNCHANGED <<dbVars, files, procVars, left>>

-----------------------------------------------------------------------------
(***************************************************************************)
(* Opening the store and the first read.  captureAssessment goes on        *)
(* whatever it finds; the other commands throw when there is no run, and   *)
(* answer also when the latest run did not ask the question.               *)
(***************************************************************************)
Accepted(c) ==
  \/ c.kind = "capture"
  \/ c.kind = "answer" /\ latest # NoRun /\ c.question \in runs[latest].open
  \/ c.kind = "decide" /\ latest # NoRun

FirstStep(c) == IF c.kind = "capture" THEN "readAnswers" ELSE "append"

Begin(p, c) ==
  /\ pc[p] = "idle"
  /\ left.commands > 0
  /\ left' = [left EXCEPT !.commands = @ - 1]
  /\ command' = [command EXCEPT ![p] = c]
  /\ pack' = [pack EXCEPT ![p] = NoPack]
  /\ written' = [written EXCEPT ![p] = 0]
  /\ IF Accepted(c)
       THEN /\ pc' = [pc EXCEPT ![p] = FirstStep(c)]
            /\ seen' = [seen EXCEPT ![p] = [NothingSeen EXCEPT !.latest = latest]]
            /\ outcome' = [outcome EXCEPT ![p] = "none"]
       ELSE /\ outcome' = [outcome EXCEPT ![p] = "thrown"]
            /\ seen' = [seen EXCEPT ![p] = NothingSeen]
            /\ UNCHANGED pc
  /\ UNCHANGED <<clock, dbVars, files>>

\* How a command whose step threw returns: answer and decide pass the exception
\* on; the catch of captureAssessment reports the latest run, if the database
\* still lets it look.  That may be the very run the command has just saved.
CatchOutcomes(c) ==
  IF c.kind # "capture" THEN {"thrown"}
  ELSE {"unavailable"} \cup {how \in {"stale"} : latest # NoRun}

\* openPersistenceStore or the first read throws.  The catch of
\* captureAssessment finds the latest run only if there is a store to ask.
BeginFails(p, c) ==
  /\ pc[p] = "idle"
  /\ left.commands > 0 /\ left.faults > 0
  /\ left' = [left EXCEPT !.commands = @ - 1, !.faults = @ - 1]
  /\ command' = [command EXCEPT ![p] = c]
  /\ pack' = [pack EXCEPT ![p] = NoPack]
  /\ written' = [written EXCEPT ![p] = 0]
  /\ seen' = [seen EXCEPT ![p] = NothingSeen]
  /\ \E how \in CatchOutcomes(c) : outcome' = [outcome EXCEPT ![p] = how]
  /\ UNCHANGED <<clock, dbVars, files, pc>>

\* A command ends.  Its pack is kept only if it is the result.
Return(p, how) ==
  /\ pc' = [pc EXCEPT ![p] = "idle"]
  /\ outcome' = [outcome EXCEPT ![p] = how]
  /\ seen' = [seen EXCEPT ![p] = NothingSeen]
  /\ written' = [written EXCEPT ![p] = 0]
  /\ pack' = [pack EXCEPT ![p] = IF how = "durable" THEN @ ELSE NoPack]

\* The command itself refuses: the database is well and the catch can read it.
Refuse(p) ==
  Return(p, IF command[p].kind # "capture" THEN "thrown"
            ELSE IF latest # NoRun THEN "stale" ELSE "unavailable")

-----------------------------------------------------------------------------
(***************************************************************************)
(* appendAnswer and appendDecision: the inserts that answer and decide     *)
(* start with.  answer_id is made of the question and the time; a decision *)
(* brings its own id, and must be confirmed.                               *)
(***************************************************************************)
\* Mutant: the answers are not listed again after the insert.
AfterAppendStale == "readDecisions"

\* What follows an insert: listing the answers, the new one among them.
AfterAppend == "readAnswers"

AnswerTaken(q) == \E a \in answers : a.question = q /\ a.at = clock

AppendAnswer(p) ==
  /\ pc[p] = "append" /\ command[p].kind = "answer"
  /\ IF AnswerTaken(command[p].question)
       THEN Refuse(p) /\ UNCHANGED answers
       ELSE /\ answers' = answers \cup
                 {[question |-> command[p].question, action |-> command[p].action,
                   at |-> clock, run |-> seen[p].latest]}
            /\ pc' = [pc EXCEPT ![p] = AfterAppend]
            /\ UNCHANGED <<seen, pack, written, outcome>>
  /\ UNCHANGED <<clock, runs, latest, decisions, indexed, files, command, left>>

DecisionTaken(d) == \E e \in decisions : e.id = d

AppendDecision(p) ==
  /\ pc[p] = "append" /\ command[p].kind = "decide"
  /\ IF ~command[p].confirmed \/ DecisionTaken(command[p].decision)
       THEN Refuse(p) /\ UNCHANGED decisions
       ELSE /\ decisions' = decisions \cup
                 {[id |-> command[p].decision, run |-> seen[p].latest]}
            /\ pc' = [pc EXCEPT ![p] = AfterAppend]
            /\ UNCHANGED <<seen, pack, written, outcome>>
  /\ UNCHANGED <<clock, runs, latest, answers, indexed, files, command, left>>

ReadAnswers(p) ==
  /\ pc[p] = "readAnswers"
  /\ seen' = [seen EXCEPT ![p].answers = answers]
  /\ pc' = [pc EXCEPT ![p] = "readDecisions"]
  /\ UNCHANGED <<clock, dbVars, files, command, pack, written, outcome, left>>

-----------------------------------------------------------------------------
(***************************************************************************)
(* The packs.  s is what the process has read, its decisions included.     *)
(***************************************************************************)
LifecycleForCapture(reused, open, warned) ==
  IF reused THEN "rerun_reused"
  ELSE IF open # {} THEN "interview_open"
  ELSE IF warned THEN "partial_capture"
  ELSE "captured"

\* captureAssessment: a fresh assessment of evidence e at time now.
CapturePack(s, e, now) ==
  LET prior == ApplyPriorAnswers(BaselineOf(e), AssessedQuestions(e),
                                 s.answers, e.signals)
      open  == OpenQuestions(prior.questions, s.answers)
  IN [id        |-> now,
      previous  |-> s.latest,
      run       |-> [previous  |-> s.latest,
                     lifecycle |-> LifecycleForCapture(
                                     s.answers # {} \/ s.decisions # {}, open, e.warned),
                     telemetry |-> e,
                     baseline  |-> prior.baseline,
                     open      |-> open],
      answers   |-> s.answers,
      decisions |-> s.decisions]

\* applyPersistedAnswer: the latest run with all answers merged into it, which
\* is rendered and returned but not saved.
AnswerPack(s) ==
  LET run   == runs[s.latest]
      prior == ApplyPriorAnswers(run.baseline, run.open, s.answers,
                                 run.telemetry.signals)
      open  == OpenQuestions(prior.questions, s.answers)
  IN [id        |-> s.latest,
      previous  |-> NoRun,
      run       |-> [run EXCEPT !.lifecycle = IF open # {} THEN "interview_open"
                                              ELSE "interview_updated",
                                !.baseline = prior.baseline,
                                !.open = open],
      answers   |-> s.answers,
      decisions |-> s.decisions]

\* confirmPersistedDecision: the latest run with the questions it was saved with.
DecisionPack(s) ==
  [id        |-> s.latest,
   previous  |-> NoRun,
   run       |-> [runs[s.latest] EXCEPT !.lifecycle = "decision_confirmed"],
   answers   |-> s.answers,
   decisions |-> s.decisions]

\* The packs a command may build from what it has read.
Packs(c, s) ==
  CASE c.kind = "capture" -> {CapturePack(s, e, clock) : e \in Evidence}
    [] c.kind = "answer"  -> {AnswerPack(s)}
    [] c.kind = "decide"  -> {DecisionPack(s)}

\* Mutant: capture renders the reports before it saves the run.
AfterReadsRender(c) == "truncate"

AfterReads(c) == IF c.kind = "capture" THEN "saveRun" ELSE "truncate"

\* listDecisions, the time of a capture, and the pack, computed in memory.
ReadDecisions(p) ==
  LET s == [seen[p] EXCEPT !.decisions = decisions]
  IN /\ pc[p] = "readDecisions"
     /\ seen' = [seen EXCEPT ![p] = s]
     /\ \E k \in Packs(command[p], s) : pack' = [pack EXCEPT ![p] = k]
     /\ pc' = [pc EXCEPT ![p] = AfterReads(command[p])]
     /\ UNCHANGED <<clock, dbVars, files, command, written, outcome, left>>

-----------------------------------------------------------------------------
(***************************************************************************)
(* saveRun: the row and the latest pointer in one transaction, refused     *)
(* when a run of the same millisecond is there already.                    *)
(***************************************************************************)
Extend(f, x, y) == [z \in DOMAIN f \cup {x} |-> IF z = x THEN y ELSE f[z]]

\* Mutant: a run of the same millisecond is replaced.
SaveRunReplacing(p) ==
  /\ pc[p] = "saveRun"
  /\ runs' = Extend(runs, pack[p].id, pack[p].run)
  /\ latest' = pack[p].id
  /\ pc' = [pc EXCEPT ![p] = "truncate"]
  /\ UNCHANGED <<seen, pack, written, outcome>>
  /\ UNCHANGED <<clock, answers, decisions, indexed, files, command, left>>

SaveRun(p) ==
  /\ pc[p] = "saveRun"
  /\ IF pack[p].id \in DOMAIN runs
       THEN Refuse(p) /\ UNCHANGED <<runs, latest>>
       ELSE /\ runs' = Extend(runs, pack[p].id, pack[p].run)
            /\ latest' = pack[p].id
            /\ pc' = [pc EXCEPT ![p] = "truncate"]
            /\ UNCHANGED <<seen, pack, written, outcome>>
  /\ UNCHANGED <<clock, answers, decisions, indexed, files, command, left>>

(***************************************************************************)
(* materializeAssessmentArtifacts: each file is truncated and then written *)
(* from its start, whatever another process has put there in between; then *)
(* the files are listed in the database.                                   *)
(***************************************************************************)
\* Mutant: the last file is forgotten.
MoreFilesButOne(n) == n + 1 < Len(Artifacts)

MoreFiles(n) == n < Len(Artifacts)

CurrentFile(p) == Artifacts[written[p] + 1]

Truncate(p) ==
  /\ pc[p] = "truncate"
  /\ files' = [files EXCEPT ![CurrentFile(p)] = [state |-> "truncated", pack |-> NoPack]]
  /\ pc' = [pc EXCEPT ![p] = "put"]
  /\ UNCHANGED <<clock, dbVars, command, seen, pack, written, outcome, left>>

Put(p) ==
  /\ pc[p] = "put"
  /\ \/ files' = [files EXCEPT ![CurrentFile(p)] = [state |-> "whole", pack |-> pack[p]]]
     \/ /\ files[CurrentFile(p)].state # "truncated"
        /\ files' = [files EXCEPT ![CurrentFile(p)] = [state |-> "mixed", pack |-> NoPack]]
  /\ written' = [written EXCEPT ![p] = @ + 1]
  /\ pc' = [pc EXCEPT ![p] = IF MoreFiles(written[p] + 1) THEN "truncate" ELSE "index"]
  /\ UNCHANGED <<clock, dbVars, command, seen, pack, outcome, left>>

IndexUpTo(p, n) == indexed \cup {<<pack[p].id, Artifacts[i]>> : i \in 1..n}

Index(p) ==
  /\ pc[p] = "index"
  /\ indexed' = IndexUpTo(p, Len(Artifacts))
  /\ Return(p, "durable")
  /\ UNCHANGED <<clock, runs, latest, answers, decisions, files, command, left>>

-----------------------------------------------------------------------------
\* Mutant: the latest pointer survives the rollback of its run.
FailWithoutRollback(p) ==
  /\ pc[p] = "saveRun"
  /\ left.faults > 0
  /\ left' = [left EXCEPT !.faults = @ - 1]
  /\ latest' = pack[p].id
  /\ Return(p, "stale")
  /\ UNCHANGED <<clock, runs, answers, decisions, indexed, files, command>>

\* Of the index statements those before the failing, or last, one are kept.
SomeIndexed(p) ==
  IF pc[p] = "index"
    THEN \E n \in 0..(Len(Artifacts) - 1) : indexed' = IndexUpTo(p, n)
    ELSE UNCHANGED indexed

\* A step throws.  A failed transaction is rolled back, a failed write leaves
\* the file truncated.
Fail(p) ==
  /\ pc[p] # "idle"
  /\ left.faults > 0
  /\ left' = [left EXCEPT !.faults = @ - 1]
  /\ \E how \in CatchOutcomes(command[p]) : Return(p, how)
  /\ SomeIndexed(p)
  /\ UNCHANGED <<clock, runs, latest, answers, decisions, files, command>>

\* The process is killed: the database keeps what was committed, the files
\* what was written.
Crash(p) ==
  /\ pc[p] # "idle"
  /\ left.crashes > 0
  /\ left' = [left EXCEPT !.crashes = @ - 1]
  /\ Return(p, "killed")
  /\ SomeIndexed(p)
  /\ UNCHANGED <<clock, runs, latest, answers, decisions, files, command>>

Progress(p) ==
  \/ AppendAnswer(p) \/ AppendDecision(p)
  \/ ReadAnswers(p) \/ ReadDecisions(p)
  \/ SaveRun(p)
  \/ Truncate(p) \/ Put(p) \/ Index(p)

Next ==
  \/ Tick
  \/ \E p \in Procs :
       \/ \E c \in Commands : Begin(p, c) \/ BeginFails(p, c)
       \/ Progress(p)
       \/ Fail(p)
       \/ Crash(p)

Spec == Init /\ [][Next]_vars

-----------------------------------------------------------------------------
(***************************************************************************)
(* Properties.                                                             *)
(***************************************************************************)

\* The tables, files and locals of the processes hold what the code puts there.
TypeOK ==
  /\ clock \in Nat \ {0}
  /\ DOMAIN runs \subseteq Nat \ {NoRun}
  /\ \A id \in DOMAIN runs : runs[id] \in RunRecord
  /\ latest \in DOMAIN runs \cup {NoRun}
  /\ answers \subseteq AnswerRecord
  /\ decisions \subseteq DecisionRecord
  /\ indexed \subseteq RunId \X FileNames
  /\ files \in [FileNames -> [state : FileState, pack : PackType]]
  /\ pc \in [Procs -> Step]
  /\ command \in [Procs -> Command]
  /\ seen \in [Procs -> SeenType]
  /\ pack \in [Procs -> PackType]
  /\ written \in [Procs -> 0..Len(Artifacts)]
  /\ outcome \in [Procs -> Outcome]
  /\ left \in [commands : Nat, faults : Nat, crashes : Nat]

\* Whatever the interleaving, the failures and the crashes, the commands act
\* on the database as single additions to a ledger (see AssessmentLedger).
Ledger == INSTANCE AssessmentLedger
            WITH RunRecord <- RunRecord, AnswerRecord <- AnswerRecord,
                 DecisionRecord <- DecisionRecord, runs <- runs, latest <- latest,
                 answers <- answers, decisions <- decisions
LedgerSpec == Ledger!Spec

\* A command in flight, however long it waits between two statements, holds
\* nothing the database does not back: what it has read is still there, the run
\* it answers or decides for is saved and asked the question, a run about to be
\* saved continues one that is saved and not younger, and reports are rendered
\* of saved runs only.
Backed(p) ==
  /\ seen[p].latest \in DOMAIN runs \cup {NoRun}
  /\ seen[p].answers \cup pack[p].answers \subseteq answers
  /\ seen[p].decisions \cup pack[p].decisions \subseteq decisions
  /\ pc[p] \in {"append", "readAnswers", "readDecisions"} =>
       \/ command[p].kind = "capture"
       \/ seen[p].latest \in DOMAIN runs
  /\ pc[p] = "append" =>
       /\ command[p].kind # "capture"
       /\ command[p].kind = "answer" =>
            command[p].question \in runs[seen[p].latest].open
  /\ pc[p] = "saveRun" =>
       /\ command[p].kind = "capture"
       /\ pack[p].id \in 1..clock
       /\ pack[p].run.previous \in DOMAIN runs \cup {NoRun}
       /\ pack[p].run.previous <= pack[p].id
  /\ pc[p] \in {"truncate", "put", "index"} => pack[p].id \in DOMAIN runs

InFlightIsBacked == \A p \in Procs : Backed(p)

\* Every file is written once, in order: a process is still before a file when
\* it writes, and has written none before it comes to the files.
FilesInOrder ==
  \A p \in Procs :
    /\ pc[p] \in {"truncate", "put"} => written[p] < Len(Artifacts)
    /\ pc[p] \notin {"truncate", "put", "index"} => written[p] = 0

\* No run is captured in the future.
RunsArePast == \A id \in DOMAIN runs : id <= clock

\* A report never runs ahead of the database: the run it was rendered from is
\* saved, and so is every answer and decision it shows.
ReportsShowOnlyStored ==
  \A f \in FileNames :
    files[f].state = "whole" =>
      /\ files[f].pack.id \in DOMAIN runs
      /\ files[f].pack.answers \subseteq answers
      /\ files[f].pack.decisions \subseteq decisions

\* A command that returns durableRecordCreated has recorded what it was asked
\* to record, and its result already counts it.  What a capture or a decision
\* lists as open is what its run was saved with, and so can be answered; the
\* questions an answer plans anew are listed and not saved.
DurableIsStored ==
  \A p \in Procs :
    outcome[p] = "durable" =>
      /\ pack[p].id \in DOMAIN runs
      /\ \A f \in FileNames : <<pack[p].id, f>> \in indexed
      /\ command[p].kind = "capture" => runs[pack[p].id] = pack[p].run
      /\ command[p].kind = "decide" => runs[pack[p].id].open = pack[p].run.open
      /\ command[p].kind = "answer" =>
           \E a \in pack[p].answers \cap answers :
             a.question = command[p].question /\ a.run = pack[p].id
      /\ command[p].kind = "decide" =>
           \E d \in pack[p].decisions \cap decisions : d.id = command[p].decision

(***************************************************************************)
(* Properties of a single process, which may fail, be killed and be        *)
(* started again.                                                          *)
(***************************************************************************)

\* A successful command leaves every report whole, rendered from its own pack,
\* and up to date with the database, whatever earlier failures left behind.
DurableRepairsReports ==
  \A p \in Procs :
    pc[p] = "idle" /\ outcome[p] = "durable" =>
      /\ pack[p].id = latest
      /\ pack[p].answers = answers
      /\ pack[p].decisions = decisions
      /\ \A f \in FileNames : files[f] = [state |-> "whole", pack |-> pack[p]]

\* A run never asks again what was answered or skipped before its capture, nor
\* do the reports of a capture or of an answer.  Those of a decision do: they
\* list the questions its run was saved with.
NotAskedAgain ==
  /\ \A id \in DOMAIN runs, a \in answers :
       a.at < id => a.question \notin runs[id].open
  /\ \A p \in Procs :
       outcome[p] = "durable" /\ command[p].kind # "decide" =>
         \A a \in pack[p].answers : a.question \notin pack[p].run.open

\* A run asks at most QuestionLimit questions, and about a fact only while the
\* saved baseline, the earlier answers merged into it, leaves it uncertain; and
\* not about what its evidence has answered, as long as there is no answer.
OpenQuestionsAreCandidates ==
  \A id \in DOMAIN runs :
    LET run == runs[id]
    IN /\ Cardinality(run.open) <= QuestionLimit
       /\ \A q \in run.open \cap FactQuestions :
            q \in run.telemetry.facts /\ ShouldAskAboutFact(run.baseline, q)
       /\ (\A a \in answers : a.at > id) => run.open \cap run.telemetry.suppressed = {}
=============================================================================
