----------------------------- MODULE Telemetry -----------------------------
(***************************************************************************)
(* Telemetry bundles: how a host event and a list of evidence items become *)
(* signals in five families, what makes a bundle valid, and how it is read *)
(* back as evidence.  Pure functions, for the modules that keep state.     *)
(*                                                                         *)
(* A line of text is the set of the words the program looks for in it.  An *)
(* item has one line (none when its words are empty), as the repository    *)
(* summary, a test summary and a decision do; a change has one per file.   *)
(* A bundle keeps its signals in one sequence, in the order they were      *)
(* added; a family's array is the subsequence of that family.              *)
(***************************************************************************)
EXTENDS Subsequences

Statuses == {"present", "absent", "failed"}
Freshnesses == {"current", "stale", "unknown"}
Confidences == {"low", "medium", "high"}

RepositoryCategories ==
  {"file_layout", "architecture_shape", "architecture_claim",
   "configuration_boundary", "history_interaction"}
ChangeCategories == {"changed_file_spread", "import_relationship", "symbol_reference"}
TestCategories == {"test_posture", "diagnostic"}
RuntimeCategories == {"runtime_error", "monitor_event"}
Categories == RepositoryCategories \cup ChangeCategories \cup TestCategories
                \cup RuntimeCategories

\* The kernel's table sends an unknown category to the repository family.
FamilyForCategory(category) ==
  CASE category \in ChangeCategories  -> "change"
    [] category \in TestCategories    -> "test"
    [] category \in RuntimeCategories -> "runtime"
    [] OTHER                          -> "repository"

\* Fields of an item that came over a host event may hold anything.
ReadStatus(s) == IF s \in {"present", "failed"} THEN s ELSE "absent"
ReadFreshness(f) == IF f \in {"current", "stale"} THEN f ELSE "unknown"
ReadConfidence(c) == IF c \in {"high", "medium"} THEN c ELSE "low"

\* What a collector may add to its text: a fact about a concern, of an
\* evidence family, dated with a timeframe.  Only repository signals keep it.
NoDetails == [concern |-> "none", family |-> "none", confidence |-> "low",
              timeframe |-> "none"]

(***************************************************************************)
(* Signals.  The id is made of the family, the source and the category:    *)
(* neither the status nor the text takes part in it.  Names are such that  *)
(* makeId, which replaces what is no letter, digit, : or _, keeps them     *)
(* apart.                                                                  *)
(***************************************************************************)
OneLine(words) == IF words = {} THEN <<>> ELSE <<words>>

SignalOf(item) ==
  LET family == FamilyForCategory(item.category)
      status == ReadStatus(item.status)
  IN [id |-> <<family, item.source, item.category>>,
      family |-> family, source |-> item.source, category |-> item.category,
      status |-> status, freshness |-> ReadFreshness(item.freshness),
      confidence |-> IF status = "present" THEN ReadConfidence(item.confidence) ELSE "low",
      words |-> item.words, lines |-> OneLine(item.words),
      details |-> IF family = "repository" THEN item.details ELSE NoDetails]

LifecycleSignal(event) ==
  [id |-> <<"lifecycle", event.host, event.event>>, family |-> "lifecycle",
   source |-> event.host, category |-> event.event, status |-> "present",
   freshness |-> "current", confidence |-> "high",
   words |-> event.request, lines |-> OneLine(event.request), details |-> NoDetails]

\* No signal for a repository summary that is absent and says nothing.
RepositorySignals(event) ==
  LET status == ReadStatus(event.repoStatus)
  IN IF status = "absent" /\ event.repoWords = {} THEN <<>>
     ELSE << [id |-> <<"repository", "repoSignals", event.cwd>>,
              family |-> "repository", source |-> "repoSignals",
              category |-> "repo_summary", status |-> status, freshness |-> "current",
              confidence |-> IF status = "present" THEN "medium" ELSE "low",
              words |-> event.repoWords, lines |-> OneLine(event.repoWords),
              details |-> NoDetails] >>

\* A changed file is the set of the words its path has.
ChangedWords(event) ==
  UNION {event.changed.files[i] : i \in DOMAIN event.changed.files}

ChangeSignals(event) ==
  IF event.changed.files = <<>> THEN <<>>
  ELSE << [id |-> <<"change", "changedFiles", event.cwd>>, family |-> "change",
           source |-> "event.changedFiles", category |-> "changed_file_spread",
           status |-> "present", freshness |-> "current", confidence |-> "medium",
           words |-> ChangedWords(event), lines |-> event.changed.files,
           details |-> NoDetails] >>

TestSignals(testStatus) ==
  IF testStatus = "none" THEN <<>>
  ELSE << [id |-> <<"test", "testSummary", testStatus>>, family |-> "test",
           source |-> "testSummary", category |-> "test_summary",
           status |-> "present", freshness |-> "current",
           confidence |-> IF testStatus = "unknown" THEN "low" ELSE "medium",
           words |-> {"test status", testStatus},
           lines |-> << {"test status", testStatus} >>, details |-> NoDetails] >>

\* A decision without an id ("") is told apart by its place in the list.
MemorySignal(decision, place) ==
  [id |-> <<"memory", decision.id, IF decision.id = "" THEN place ELSE 0,
            decision.concern>>,
   family |-> "memory",
   source |-> IF decision.id = "" THEN "priorDecision" ELSE decision.id,
   category |-> "prior_decision",
   status |-> "present", freshness |-> "current",
   confidence |-> IF decision.id = "" THEN "low" ELSE "medium",
   words |-> decision.words, lines |-> OneLine(decision.words), details |-> NoDetails]

(***************************************************************************)
(* Diagnostics, as a set: what is not present is reported, with a warning  *)
(* when it failed.                                                         *)
(***************************************************************************)
NotPresent(signal) ==
  [severity |-> IF signal.status = "failed" THEN "warning" ELSE "info",
   family |-> signal.family, source |-> signal.source, about |-> signal.category]

DiagnosticsOf(signals) ==
  {NotPresent(signals[i]) : i \in {j \in DOMAIN signals : signals[j].status # "present"}}

\* telemetryFromEvidence without an event: what the provider runner builds.
TelemetryFromEvidence(items) ==
  LET signals == [i \in 1..Len(items) |-> SignalOf(items[i])]
  IN [signals |-> signals, diagnostics |-> DiagnosticsOf(signals)]

\* telemetryFromEvidence with one: what a host event or a capture becomes.
TelemetryFromEvent(event, testStatus, decisions, items) ==
  LET fromEvidence == TelemetryFromEvidence(items)
      repository == RepositorySignals(event)
      status == ReadStatus(event.repoStatus)
  IN [signals |->
        <<LifecycleSignal(event)>> \o repository \o ChangeSignals(event)
          \o TestSignals(testStatus)
          \o [i \in 1..Len(decisions) |-> MemorySignal(decisions[i], i)]
          \o fromEvidence.signals,
      diagnostics |-> fromEvidence.diagnostics \cup
        IF status = "present" THEN {}
        ELSE {[severity |-> IF status = "failed" THEN "warning" ELSE "info",
               family |-> "repository", source |-> "repoSignals",
               about |-> "repo_summary"]}]

(***************************************************************************)
(* validateTelemetryBundle: no two signals with one id, and every signal   *)
(* well formed, which by construction only an empty source can break.      *)
(***************************************************************************)
DuplicateIds(signals) ==
  {signals[j].id : j \in {k \in DOMAIN signals :
      \E i \in DOMAIN signals : i < k /\ signals[i].id = signals[k].id}}

WellFormedSignal(signal) ==
  /\ signal.source # ""
  /\ signal.freshness \in Freshnesses
  /\ signal.confidence \in Confidences
  /\ signal.status \in Statuses

ValidBundle(bundle) ==
  /\ DuplicateIds(bundle.signals) = {}
  /\ \A i \in DOMAIN bundle.signals : WellFormedSignal(bundle.signals[i])

(***************************************************************************)
(* evidenceFromTelemetry: the five families in this order, lifecycle left  *)
(* out.                                                                    *)
(***************************************************************************)
FamilyOf(bundle, family) ==
  AtPlaces(bundle.signals, {i \in DOMAIN bundle.signals : bundle.signals[i].family = family})

ItemOf(signal) ==
  [source |-> signal.source, status |-> signal.status, category |-> signal.category,
   freshness |-> signal.freshness, confidence |-> signal.confidence,
   words |-> signal.words, lines |-> signal.lines]

EvidenceFromTelemetry(bundle) ==
  LET signals == FamilyOf(bundle, "repository") \o FamilyOf(bundle, "change")
                   \o FamilyOf(bundle, "test") \o FamilyOf(bundle, "runtime")
                   \o FamilyOf(bundle, "memory")
  IN [i \in 1..Len(signals) |-> ItemOf(signals[i])]
=============================================================================
