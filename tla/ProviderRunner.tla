--------------------------- MODULE ProviderRunner ---------------------------
(***************************************************************************)
(* runOptionalSignalProviders: a loop that asks each optional provider in  *)
(* turn for evidence, waits for its promise or for a timer, weighs every   *)
(* signal it returned, and turns the lot into a telemetry bundle.          *)
(*                                                                         *)
(* A provider's promise may settle at any time, and after the loop has     *)
(* gone on: running is the set of promises not settled yet.  The signals   *)
(* of one answer are weighed in one turn of the event loop; here it is one *)
(* step per signal, which nothing can tell, since only the loop itself     *)
(* reads what it collects.                                                 *)
(***************************************************************************)
EXTENDS Telemetry, FiniteSets, Functions

CONSTANTS
  Order,      \* the providers, in the order of the loop
  Answers,    \* Answers[p]: what p's promise may resolve to
  NoAnswer,   \* undefined or null: no evidence
  Malformed,  \* an entry of an answer that is not a signal
  NoTelemetry,\* the bundle before there is one
  Timed       \* options.timeoutMs is given and positive

Providers == Range(Order)

\* family: "" when the provider names none.
Signals ==
  [source : STRING, category : STRING, family : STRING, status : Statuses,
   freshness : Freshnesses, confidence : Confidences, words : SUBSET STRING,
   details : {NoDetails}]

ASSUME OrderAssumption ==
  /\ Order \in Seq(Providers)
  /\ \A i, j \in 1..Len(Order) : Order[i] = Order[j] => i = j
ASSUME TimedAssumption == Timed \in BOOLEAN
ASSUME AnswersAssumption ==
  \A p \in Providers : Answers[p] \subseteq {NoAnswer} \cup Seq(Signals \cup {Malformed})

VARIABLES
  pc,          \* "call", "await", "weigh" or "done"
  index,       \* the place of the loop in Order
  queue,       \* the signals of the answer being weighed
  running,     \* providers whose promise has not settled
  evidence,    \* the signals taken, in order
  seen,        \* the keys of those that came from a provider
  diagnostics, \* what the loop reports
  telemetry,   \* the bundle, once it is built
  heard        \* heard[p]: how the wait for p ended, and what p answered

vars == <<pc, index, queue, running, evidence, seen, diagnostics, telemetry, heard>>

Key(signal) == <<signal.source, signal.category, signal.status, signal.words>>

\* Mutant: a provider that fails is reported to have nothing.
FailureAsAbsence(p) ==
  [source |-> p, category |-> "diagnostic", family |-> "", status |-> "absent",
   freshness |-> "unknown", confidence |-> "low", words |-> {},
   details |-> NoDetails]

FailureOf(p) ==
  [source |-> p, category |-> "diagnostic", family |-> "", status |-> "failed",
   freshness |-> "unknown", confidence |-> "low", words |-> {},
   details |-> NoDetails]

Report(severity, p, about) == [severity |-> severity, source |-> p, about |-> about]

Ended(how, signals) == [how |-> how, signals |-> signals]
SignalsOf(answer) == IF answer = NoAnswer THEN <<>> ELSE answer

Init ==
  /\ pc = "call" /\ index = 1 /\ queue = <<>> /\ running = {}
  /\ evidence = <<>> /\ seen = {} /\ diagnostics = {}
  /\ telemetry = NoTelemetry
  /\ heard = [p \in Providers |-> Ended("not yet", <<>>)]

Current == Order[index]

\* Mutant: any category is supported.
AnyCategory(signal) == signal # Malformed

\* normalizeProviderOutput and the two checks of the loop body.
Supported(signal) == signal # Malformed /\ signal.category \in Categories
FamilyAgrees(signal) ==
  signal.family = "" \/ signal.family = FamilyForCategory(signal.category)
Admissible(signal) == Supported(signal) /\ FamilyAgrees(signal)
IsNews(signal) == Admissible(signal) /\ Key(signal) \notin seen

\* The loop calls collect and waits.
Call ==
  /\ pc = "call" /\ index <= Len(Order)
  /\ pc' = "await"
  /\ running' = running \cup {Current}
  /\ UNCHANGED <<index, queue, evidence, seen, diagnostics, telemetry, heard>>

\* The catch block: one failure record, whatever the same provider or another
\* has reported before.
Fail(p, how) ==
  /\ evidence' = Append(evidence, FailureOf(p))
  /\ diagnostics' = diagnostics \cup
       {Report(IF how = "timed out" THEN "warning" ELSE "error", p, "failed")}
  /\ heard' = [heard EXCEPT ![p] = Ended(how, <<>>)]
  /\ pc' = "call" /\ index' = index + 1
  /\ UNCHANGED <<queue, seen, telemetry>>

\* Mutant: a late answer still adds to the evidence.
ResolveWheneverItComes(p, answer) ==
  /\ p \in running /\ pc # "done"
  /\ running' = running \ {p}
  /\ IF pc = "await" /\ p = Current
       THEN /\ pc' = "weigh" /\ queue' = SignalsOf(answer)
            /\ heard' = [heard EXCEPT ![p] = Ended("answered", SignalsOf(answer))]
            /\ UNCHANGED evidence
       ELSE /\ evidence' = evidence \o SelectSeq(SignalsOf(answer), Admissible)
            /\ UNCHANGED <<pc, queue, heard>>
  /\ UNCHANGED <<index, seen, diagnostics, telemetry>>

\* A promise resolves: to the loop, if it still waits for it; to nobody else.
Resolve(p, answer) ==
  /\ p \in running
  /\ running' = running \ {p}
  /\ IF pc = "await" /\ p = Current
       THEN /\ pc' = "weigh"
            /\ queue' = SignalsOf(answer)
            /\ diagnostics' = diagnostics \cup
                 IF answer = NoAnswer THEN {Report("info", p, "absent")} ELSE {}
            /\ heard' = [heard EXCEPT ![p] = Ended("answered", SignalsOf(answer))]
       ELSE UNCHANGED <<pc, queue, diagnostics, heard>>
  /\ UNCHANGED <<index, evidence, seen, telemetry>>

\* A promise rejects, or collect throws; its own message may say "timed out".
Reject(p, how) ==
  /\ p \in running
  /\ running' = running \ {p}
  /\ IF pc = "await" /\ p = Current
       THEN Fail(p, how)
       ELSE UNCHANGED <<pc, index, queue, evidence, seen, diagnostics, telemetry, heard>>

\* Mutant: one timer for the whole run.
TimerFiresForTheFirst ==
  /\ Timed /\ pc = "await" /\ index = 1
  /\ Fail(Current, "timed out")
  /\ UNCHANGED running

\* withTimeout: the promise goes on running.
TimerFires ==
  /\ Timed /\ pc = "await"
  /\ Fail(Current, "timed out")
  /\ UNCHANGED running

Take(signal) ==
  /\ IsNews(signal)
  /\ evidence' = Append(evidence, signal)
  /\ seen' = seen \cup {Key(signal)}
  /\ UNCHANGED diagnostics

Skip(signal) ==
  /\ ~IsNews(signal)
  /\ diagnostics' = diagnostics \cup
       {IF Admissible(signal) THEN Report("info", Current, "duplicate")
        ELSE Report("warning", Current, "skipped")}
  /\ UNCHANGED <<evidence, seen>>

Weigh ==
  /\ pc = "weigh" /\ queue # <<>>
  /\ queue' = Tail(queue)
  /\ Take(Head(queue)) \/ Skip(Head(queue))
  /\ UNCHANGED <<pc, index, running, telemetry, heard>>

NextProvider ==
  /\ pc = "weigh" /\ queue = <<>>
  /\ pc' = "call" /\ index' = index + 1
  /\ UNCHANGED <<queue, running, evidence, seen, diagnostics, telemetry, heard>>

\* Mutant: the bundle is returned without a word on its validity.
ComposeUnchecked ==
  /\ pc = "call" /\ index > Len(Order)
  /\ telemetry' = [TelemetryFromEvidence(evidence) EXCEPT
                     !.diagnostics = @ \cup diagnostics]
  /\ pc' = "done"
  /\ UNCHANGED <<index, queue, running, evidence, seen, diagnostics, heard>>

\* The bundle, the loop's diagnostics, and one error if it is not valid.
Compose ==
  /\ pc = "call" /\ index > Len(Order)
  /\ LET bundle == TelemetryFromEvidence(evidence)
     IN telemetry' =
          [bundle EXCEPT !.diagnostics = @ \cup diagnostics \cup
             IF ValidBundle(bundle) THEN {}
             ELSE {Report("error", "providerRunner", "validation")}]
  /\ pc' = "done"
  /\ UNCHANGED <<index, queue, running, evidence, seen, diagnostics, heard>>

Settle ==
  \E p \in running :
    \/ \E answer \in Answers[p] : Resolve(p, answer)
    \/ \E how \in {"threw", "timed out"} : Reject(p, how)

Next == Call \/ Settle \/ TimerFires \/ Weigh \/ NextProvider \/ Compose

\* The loop's own steps and its timer; a provider owes it nothing.
Spec ==
  /\ Init /\ [][Next]_vars
  /\ WF_vars(Call) /\ WF_vars(TimerFires) /\ WF_vars(Weigh)
  /\ WF_vars(NextProvider) /\ WF_vars(Compose)

-----------------------------------------------------------------------------
Failures == {"threw", "timed out"}
Failed == {p \in Providers : heard[p].how \in Failures}
Answered == UNION {Range(heard[p].signals) : p \in Providers}

\* The state of the loop has its type.
TypeOK ==
  /\ pc \in {"call", "await", "weigh", "done"}
  /\ index \in 1..(Len(Order) + 1)
  /\ pc \in {"await", "weigh"} => index <= Len(Order)
  /\ running \subseteq Providers
  /\ \A i \in DOMAIN evidence : evidence[i].category \in Categories
  /\ pc = "done" => index = Len(Order) + 1

\* Once the loop is past the providers, what it has collected is exactly what
\* it waited for: every admissible signal of every answer, whoever else failed,
\* the failures themselves, and nothing that came after its timeout.
EvidenceIsWhatWasAwaited ==
  pc = "done" =>
    {Key(evidence[i]) : i \in DOMAIN evidence} =
      {Key(FailureOf(p)) : p \in Failed}
        \cup {Key(s) : s \in {t \in Answered : Admissible(t)}}

\* A provider that failed is seen to have failed by a reader of the bundle
\* alone: a failed signal under its name, and a warning or an error.
FailuresAreVisible ==
  pc = "done" =>
    \A p \in Failed :
      /\ \E i \in DOMAIN telemetry.signals :
           /\ telemetry.signals[i].source = p
           /\ telemetry.signals[i].status = "failed"
      /\ \E d \in telemetry.diagnostics : d.source = p /\ d.severity # "info"

\* Different pieces of evidence of one source and category get one signal id,
\* which makes the bundle one that assessArchitecture refuses.  Such a bundle
\* says so itself, and only such a bundle does.
InvalidBundlesAreFlagged ==
  pc = "done" =>
    ((\E i, j \in DOMAIN evidence :
         /\ i # j
         /\ evidence[i].source = evidence[j].source
         /\ evidence[i].category = evidence[j].category)
      <=> \E d \in telemetry.diagnostics : d.source = "providerRunner")

\* With a timeout the runner returns, even if no provider ever settles.
RunnerReturns == Timed ~> pc = "done"
=============================================================================
