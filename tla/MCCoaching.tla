----------------------------- MODULE MCCoaching -----------------------------
(***************************************************************************)
(* A small repository: storage that grows into sharing, a login, packages, *)
(* a deployment nobody has looked at lately, and failing checks.           *)
(***************************************************************************)
EXTENDS Coaching

\* Terms the kernel looks for come with the shorter terms they contain.
Within(words) ==
  LET shorter == [localstorage |-> {"storage"}, oauth |-> {"auth"}, login |-> {"log"},
                  sharing |-> {"shar"}]
  IN words \cup UNION {shorter[w] : w \in words \cap DOMAIN shorter}
           \cup (IF "packages/" \in words THEN {"package"} ELSE {})
           \cup (IF "tests/" \in words THEN {"test"} ELSE {})

Item(source, category, status, freshness, confidence, words) ==
  [source |-> source, category |-> category, status |-> status, freshness |-> freshness,
   confidence |-> confidence, words |-> Within(words), details |-> NoDetails]

Fact(item, concern, family, confidence, timeframe) ==
  [item EXCEPT !.details = [concern |-> concern, family |-> family,
                            confidence |-> confidence, timeframe |-> timeframe]]

Answered(items) == [collector |-> items[1].source, how |-> "answered", items |-> items]

Routes == Item("routes", "import_relationship", "present", "current", "high",
               {"login", "session"})
Guess == Item("routes", "import_relationship", "present", "current", "low", {"login"})

Imports == Item("imports", "import_relationship", "present", "current", "high",
                {"localstorage"})

CollectedItems == {
  Imports,
  Item("files", "file_layout", "present", "current", "high", {"indexeddb"}),
  Item("notes", "history_interaction", "present", "current", "medium", {"localstorage", "team"}),
  Item("layout", "file_layout", "present", "current", "high", {"packages/", "workspace"}),
  Item("guess", "history_interaction", "present", "current", "low", {"packages/"}),
  Item("shape", "architecture_shape", "present", "current", "medium",
       {"oauth", "session", "src/"}),
  Routes,
  Item("release", "configuration_boundary", "present", "stale", "high",
       {"deploy", "production"}),
  Item("lint", "diagnostic", "present", "current", "high", {"failing"}),
  Item("ci", "test_posture", "failed", "current", "high", {"test", "deploy", "database"}),
  Fact(Item("docs", "architecture_claim", "present", "current", "low",
            {"broad diff", "deploy"}), "deployment", "deployment_config", "high", "future")
}

MCOutcomes == {Answered(<<item>>) : item \in CollectedItems}
  \cup {Answered(<<Item("conflict", "history_interaction", "absent", "current", "high", {})>>),
        [collector |-> "git-diff", how |-> "threw", items |-> <<>>]}

\* A host repeats what its tools read: a source comes twice, sure or not.
MCSent == {<<Guess, Routes>>, <<Routes, Guess>>, <<Routes, Imports, Routes>>}

Event(event, request, changed, recent, recentWords, context) ==
  [host |-> "codex", event |-> event, cwd |-> "/repo", request |-> Within(request),
   recent |-> recent, recentWords |-> Within(recentWords), changed |-> changed,
   repoStatus |-> "absent", repoWords |-> {}, testStatus |-> "none", context |-> context,
   priors |-> <<>>]

NoChange == [files |-> <<>>, roots |-> 0, implementation |-> FALSE]
Spread == [files |-> <<Within({"packages/"}), {"src/"}, {"src/"}, Within({"tests/"})>>,
           roots |-> 3, implementation |-> TRUE]

Condition(phrase, stem, tokens, long) ==
  [phrase |-> phrase, stem |-> stem, tokens |-> tokens, long |-> long]

Sharing == Condition("sharing", "shar", {"sharing"}, {"sharing"})
MCConditions == { Sharing }
MCIds == <<"d1">>

\* What a host recalls of a decision of its own.
Recalled == [id |-> "p1", kind |-> "decision", concern |-> "data_storage",
             adviceStatus |-> "active", revisitIf |-> <<Sharing>>,
             pressure |-> "none", support |-> "unknown", words |-> {"localstorage", "storage"}]

MCEvents == {
  Event("UserPromptSubmit", {"add", "sharing"}, NoChange, 2, {"localstorage"}, "none"),
  Event("Stop", {}, Spread, 0, {}, "none"),
  Event("UserPromptSubmit", {"what should"}, NoChange, 0, {}, "none"),
  Event("UserPromptSubmit", {"assess repository"}, NoChange, 0, {}, "none"),
  [Event("UserPromptSubmit", {"sharing"}, NoChange, 0, {}, "none")
     EXCEPT !.priors = <<Recalled>>] }
=============================================================================
