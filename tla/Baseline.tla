------------------------------ MODULE Baseline ------------------------------
(***************************************************************************)
(* The synthesized baseline: evidence is classified into concerns, a fact  *)
(* is drafted per concern, and each concern gets a confidence, a maturity  *)
(* and an adequacy.  Pure functions of the event, the evidence and the     *)
(* prior decisions.                                                        *)
(*                                                                         *)
(* Of the four decision axes only complexity is kept: no later step reads  *)
(* the others.                                                             *)
(***************************************************************************)
EXTENDS Complexity, SequencesExt

\* allConcerns, then the concern of what maps to none.
ConcernOrder ==
  <<"application_shape", "package_boundary", "entrypoint", "state_ownership",
    "data_storage", "authentication", "authorization", "deployment",
    "api_contract", "background_job", "testing", "observability",
    "risk_hotspot", "unknown">>

AlwaysTracked ==
  {"data_storage", "authentication", "authorization", "deployment",
   "api_contract", "testing"}

(***************************************************************************)
(* classifyEvidence: the words and the categories that speak of a concern, *)
(* and what a match adds to its draft.                                     *)
(***************************************************************************)
ConcernTerms(concern) ==
  CASE concern = "package_boundary" -> {"packages/", "workspace", "monorepo",
         "shared package", "package boundary", "runtime boundary", "rust/wasm",
         "native-module"}
    [] concern = "entrypoint"       -> {"entrypoint", "main.ts", "main.tsx", "app.tsx",
         "route", "handler", "frontend shape"}
    [] concern = "state_ownership"  -> {"usestate", "url serialization", "filter state",
         "shared state", "store"}
    [] concern = "data_storage"     -> {"localstorage", "indexeddb", "sqlite", "postgres",
         "database", "repository", "storage"}
    [] concern = "authentication"   -> {"auth", "login", "session", "oauth", "password",
         "account"}
    [] concern = "authorization"    -> {"authorization", "membership", "permission", "rbac",
         "access control"}
    [] concern = "deployment"       -> {"deploy", "hosting", "vercel", "cloudflare",
         "docker", "production"}
    [] concern = "api_contract"     -> {"public api", "openapi", "endpoint", "request",
         "response", "contract"}
    [] concern = "background_job"   -> {"queue", "cron", "worker", "background job"}
    [] concern = "testing"          -> {"vitest", "playwright", "test script", "test status",
         "test surface", "unit test", "integration test", "e2e", ".test.", ".spec.", "tests/",
         "__tests__"}
    [] concern = "observability"    -> {"log", "metric", "alert", "runtime error",
         "health check"}
    [] concern = "risk_hotspot"     -> {"failing", "error", "broad diff", "many files"}
    [] OTHER                        -> {}

ConcernCategories(concern) ==
  CASE concern = "application_shape" -> {"file_layout", "configuration_boundary",
                                         "architecture_shape"}
    [] concern = "testing"           -> {"test_posture"}
    [] concern = "observability"     -> {"runtime_error", "monitor_event"}
    [] concern = "risk_hotspot"      -> {"diagnostic"}
    [] OTHER                         -> {}

RoleSubjects == {"auth", "login", "session", "oauth", "user", "admin", "tenant",
                 "project", "resource", "account", "access"}

SpeaksOf(item, concern) ==
  \/ item.category \in ConcernCategories(concern)
  \/ Mentions(item.words, ConcernTerms(concern))
  \/ concern = "authorization" /\ "role" \in item.words /\ Mentions(item.words, RoleSubjects)

\* Of the label a match adds, the terms that are looked for later.
LabelWords(concern) ==
  CASE concern = "package_boundary" -> {"package", "workspace"}
    [] concern = "state_ownership"  -> {"state ownership", "state owner", "owner"}
    [] concern = "data_storage"     -> {"storage", "persistence"}
    [] concern = "api_contract"     -> {"api", "contract"}
    [] OTHER                        -> {}

\* event.recent: how many recent requests there are.
RepeatedRequestPressure(event) == event.recent >= 2 \/ Len(event.changed.files) >= 3

MatchThresholds(concern, words, event) ==
  CASE concern = "state_ownership" -> {"state_ownership"} \cup
         IF \/ RepeatedRequestPressure(event)
            \/ Mentions(words, {"repeat", "duplicate", "repeated", "duplicated"})
         THEN {"repetition"} ELSE {}
    [] concern = "data_storage" -> {"persistence"} \cup
         IF Mentions(words, {"share", "sharing", "sync", "team", "multi-user",
                             "collaboration", "collaborative"})
         THEN {"collaboration"} ELSE {}
    [] concern = "authentication" -> {"identity", "security"}
    [] concern = "authorization"  -> {"security"}
    [] concern = "deployment"     -> {"deployment"}
    [] concern = "api_contract"   -> {"public_api"}
    [] concern = "observability"  -> {"operational"}
    [] concern = "risk_hotspot"   -> {"blast_radius"}
    [] OTHER                      -> {}

LargeLayout == {"monorepo", "packages/", "apps/", "react/typescript", "rust crate",
                "runtime boundary"}

MatchComplexity(concern, words) ==
  CASE concern \in Security \cup {"risk_hotspot"} -> "high"
    [] concern \in {"entrypoint", "testing"}      -> "low"
    [] concern = "application_shape" -> IF Mentions(words, LargeLayout) THEN "medium" ELSE "low"
    [] concern = "unknown"                        -> "unknown"
    [] OTHER                                      -> "medium"

SourceRef(item) ==
  [source |-> item.source, category |-> item.category, status |-> item.status,
   freshness |-> item.freshness, confidence |-> item.confidence]

Match(concern, item, event) ==
  [concern |-> concern, label |-> LabelWords(concern), source |-> SourceRef(item),
   lines |-> item.lines, thresholds |-> MatchThresholds(concern, item.words, event),
   complexity |-> MatchComplexity(concern, item.words),
   conflict |-> concern = "risk_hotspot" /\ Mentions(item.words, {"conflict", "contradict"})]

(***************************************************************************)
(* Prior decisions and what makes their revisit conditions match.  A       *)
(* condition has its phrase, and the phrase with "ing" taken off or put on *)
(* ("" when neither applies).                                              *)
(***************************************************************************)
TextMatchesCondition(text, condition) ==
  Mentions(text, {condition.phrase, condition.stem} \ {""})

DecisionConcern(name) ==
  CASE name \in {"data_storage", "persistence"} -> "data_storage"
    [] name \in Security     -> "authentication"
    [] name = "deployment"   -> "deployment"
    [] name = "api_contract" -> "api_contract"
    [] name = "state_ownership" -> "state_ownership"
    [] OTHER                 -> "unknown"

\* The first of a decision's conditions that matches.
MatchedCondition(decision, text) ==
  LET Matching(condition) == TextMatchesCondition(text, condition)
  IN decision.revisitIf[SelectInSeq(decision.revisitIf, Matching)]

IsDue(decision, text) ==
  \E i \in DOMAIN decision.revisitIf : TextMatchesCondition(text, decision.revisitIf[i])

Due(decisions, text) ==
  AtPlaces(decisions, {i \in DOMAIN decisions : IsDue(decisions[i], text)})

RevisitMatch(decision, source, lines) ==
  [concern |-> DecisionConcern(decision.concern), label |-> {}, source |-> source,
   lines |-> lines, thresholds |-> {"revisit"}, complexity |-> "medium", conflict |-> FALSE]

DecisionRef(decision) ==
  [source |-> IF decision.id = "" THEN "priorDecision" ELSE decision.id,
   category |-> "prior_decision", status |-> "present", freshness |-> "current",
   confidence |-> "medium"]

ClassifyEvidence(item, event, decisions) ==
  LET spoken == AtPlaces(ConcernOrder,
                         {k \in DOMAIN ConcernOrder : SpeaksOf(item, ConcernOrder[k])})
      concerns == IF spoken = <<>> /\ item.lines # <<>> THEN <<"unknown">> ELSE spoken
      due == Due(decisions, item.words)
  IN IF item.category = "prior_decision" THEN <<>>
     ELSE [i \in DOMAIN concerns |-> Match(concerns[i], item, event)]
            \o [i \in DOMAIN due |-> RevisitMatch(due[i], SourceRef(item), item.lines)]

ChangedFileSpread(event) ==
  IF /\ Len(event.changed.files) >= 4 /\ event.changed.implementation
     /\ (event.changed.roots >= 2 \/ Len(event.changed.files) >= 6)
  THEN << [concern |-> "risk_hotspot", label |-> {},
           source |-> [source |-> "event.changedFiles", category |-> "changed_file_spread",
                       status |-> "present", freshness |-> "current",
                       confidence |-> "medium"],
           lines |-> event.changed.files, thresholds |-> {"blast_radius"},
           complexity |-> "high", conflict |-> FALSE] >>
  ELSE <<>>

\* The line such a match adds quotes the condition that matched.
Quoting(condition) == << {condition.phrase} \cup condition.tokens >>

PriorDecisionRevisits(event, decisions) ==
  LET text == event.request \cup event.recentWords \cup ChangedWords(event)
      due == Due(decisions, text)
  IN [i \in DOMAIN due |->
       RevisitMatch(due[i], DecisionRef(due[i]), Quoting(MatchedCondition(due[i], text)))]

\* Mutant: evidence counts whatever its status.
WhateverItsStatus(items) == items

Present(items) == AtPlaces(items, {i \in DOMAIN items : items[i].status = "present"})

EvidenceMatches(items, event, decisions) ==
  LET present == Present(items)
  IN FlattenSeq([i \in DOMAIN present |-> ClassifyEvidence(present[i], event, decisions)])

Matches(items, event, decisions) ==
  EvidenceMatches(items, event, decisions)
    \o ChangedFileSpread(event) \o PriorDecisionRevisits(event, decisions)

(***************************************************************************)
(* Confidence.                                                             *)
(***************************************************************************)
StrongCategories ==
  {"changed_file_spread", "architecture_shape", "architecture_claim",
   "configuration_boundary", "diagnostic", "file_layout", "import_relationship",
   "monitor_event", "runtime_error", "test_posture"}

\* Mutant: the first source speaks for all.
AsTheFirst(sources, conflict) ==
  IF sources = <<>> \/ conflict THEN "low" ELSE Head(sources).confidence

\* Sources are counted once per match, so the same one may count twice.
CombineConfidence(sources, conflict) ==
  LET Count(S) == Cardinality({i \in DOMAIN sources : sources[i] \in S})
      all == ToSet(sources)
      strong == {s \in all : s.category \in StrongCategories}
      high == {s \in all : s.confidence = "high"}
      fresh == \A s \in strong : s.freshness # "stale"
      claimed == \E s \in strong : s.category = "architecture_claim"
  IN IF all = {} \/ conflict THEN "low"
     ELSE IF (Count(strong) >= 2 \/ claimed) /\ high # {} /\ fresh THEN "high"
     ELSE IF strong # {} \/ Count({s \in all : s.confidence # "low"}) >= 2 THEN "medium"
     ELSE "low"

CombineFreshness(sources) ==
  IF \E s \in ToSet(sources) : s.freshness = "current" THEN "current"
  ELSE IF \E s \in ToSet(sources) : s.freshness = "stale" THEN "stale" ELSE "unknown"

\* The first of each source, category and status.
UniqueSources(sources) ==
  {sources[i] : i \in {j \in DOMAIN sources : ~\E k \in 1..(j - 1) :
     /\ sources[k].source = sources[j].source /\ sources[k].category = sources[j].category
     /\ sources[k].status = sources[j].status}}

\* Mutant: one source is as good as two.
TakeFactsWord(facts) ==
  IF \E f \in facts : f.confidence = "high" THEN "high"
  ELSE IF \E f \in facts : f.confidence = "medium" THEN "medium" ELSE "low"

CombineFactConfidence(facts) ==
  LET high == {f \in facts : f.confidence = "high"}
  IN IF \/ \E f \in high : \E s \in f.sources : s.category = "architecture_claim"
        \/ \E f \in high : Cardinality(f.sources) >= 2
        \/ high # {} /\ Cardinality(facts) >= 2
     THEN "high"
     ELSE IF \E f \in facts : f.confidence # "low" THEN "medium" ELSE "low"

(***************************************************************************)
(* Facts and concerns.                                                     *)
(***************************************************************************)
DraftOf(matches, concern) ==
  AtPlaces(matches, {i \in DOMAIN matches : matches[i].concern = concern})

\* The summary quotes the first three lines of the draft.
FactOf(draft, concern) ==
  LET sources == [i \in DOMAIN draft |-> draft[i].source]
      said == FlattenSeq([i \in DOMAIN draft |-> draft[i].lines])
  IN [concern |-> concern,
      confidence |-> CombineConfidence(sources, \E i \in DOMAIN draft : draft[i].conflict),
      freshness |-> CombineFreshness(sources),
      sources |-> UniqueSources(sources),
      words |-> (UNION {draft[i].label : i \in DOMAIN draft})
                  \cup (UNION {said[i] : i \in DOMAIN said \cap 1..3})]

\* combineConfidence again: a fact is inferred when its confidence is low.
Inferred(fact) == fact.confidence = "low"

Maturity(c, decisions) ==
  LET Crosses(ts) == c.thresholds \cap ts # {}
      high == c.confidence = "high"
  IN IF c.facts = {} THEN "Exploratory"
     ELSE IF Crosses({"revisit"}) THEN "Revisit"
     ELSE IF c.confidence = "low" THEN "Exploratory"
     ELSE IF \E i \in DOMAIN decisions : DecisionConcern(decisions[i].concern) = c.concern
       THEN IF Crosses({"persistence", "security", "public_api"}) THEN "LoadBearing" ELSE "Owned"
     ELSE IF Crosses({"security", "deployment", "operational", "public_api"})
       THEN IF high THEN "LoadBearing" ELSE "Owned"
     ELSE IF Crosses({"persistence", "state_ownership"})
       THEN IF high THEN "Owned" ELSE "Named"
     ELSE IF high THEN "Named" ELSE "Emerging"

AxisRank == [unknown |-> 0, low |-> 1, medium |-> 2, high |-> 3]

\* What the matches of a concern say of it.
ConcernDraft(concern, matches) ==
  LET draft == DraftOf(matches, concern)
      facts == IF draft = <<>> THEN {} ELSE {FactOf(draft, concern)}
      axes == {"unknown"} \cup {draft[i].complexity : i \in DOMAIN draft}
  IN [concern |-> concern, facts |-> facts,
      confidence |-> CombineFactConfidence(facts),
      thresholds |-> UNION {draft[i].thresholds : i \in DOMAIN draft},
      complexity |-> CHOOSE a \in axes : \A b \in axes : AxisRank[b] <= AxisRank[a]]

ConcernOf(concern, matches, decisions) ==
  LET c == ConcernDraft(concern, matches)
  IN [concern |-> concern, facts |-> c.facts, confidence |-> c.confidence,
      thresholds |-> c.thresholds, complexity |-> c.complexity,
      state |-> Maturity(c, decisions), adequacy |-> AdequacyOf(c)]

\* Concerns with a fact in the order their drafts were opened, then the ones
\* tracked though unknown (all of them when there is no evidence at all).
BaselineConcernOrder(items, matches) ==
  LET opening == AtPlaces(matches,
        {i \in DOMAIN matches : ~\E j \in 1..(i - 1) : matches[j].concern = matches[i].concern})
      known == [i \in DOMAIN opening |-> opening[i].concern]
      unknown == {c \in Concerns \ (ToSet(known) \cup {"unknown"}) :
                    c \in AlwaysTracked \/ items = <<>>}
  IN known \o AtPlaces(ConcernOrder, {k \in DOMAIN ConcernOrder : ConcernOrder[k] \in unknown})

\* synthesizeArchitectureBaseline: the concerns, in order.
BaselineOf(items, event, decisions) ==
  LET matches == Matches(items, event, decisions)
      order == BaselineConcernOrder(items, matches)
  IN [i \in DOMAIN order |-> ConcernOf(order[i], matches, decisions)]

Facts(baseline) == UNION {baseline[i].facts : i \in DOMAIN baseline}
=============================================================================
