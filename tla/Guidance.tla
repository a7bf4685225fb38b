------------------------------ MODULE Guidance ------------------------------
(***************************************************************************)
(* Principle and pattern guidance for the concerns of a baseline.  Only    *)
(* what a later choice reads is kept of a pattern: which one it is and how *)
(* sure it is.                                                             *)
(***************************************************************************)
EXTENDS Questions

ConcernPrinciples(concern) ==
  CASE concern = "state_ownership" \/ concern = "risk_hotspot" ->
         {"separation_of_concerns", "clear_ownership", "right_sized_abstraction"}
    [] concern = "data_storage" ->
         {"stable_contract", "right_sized_abstraction", "reversible_decision"}
    [] concern = "api_contract" ->
         {"stable_contract", "testability", "reversible_decision"}
    [] concern = "package_boundary" ->
         {"separation_of_concerns", "clear_ownership", "stable_contract"}
    [] concern = "testing"            -> {"testability"}
    [] concern \in Operations         -> {"operational_readiness", "testability"}
    [] concern \in Security           -> {"stable_contract", "clear_ownership", "testability"}
    [] OTHER                          -> {}

\* concern has a fact.  A concern of no table gets one principle when it is sure.
Principles(c) ==
  LET named == ConcernPrinciples(c.concern)
  IN (IF named = {} /\ c.confidence = "high" THEN {"reversible_decision"} ELSE named)
       \cup IF \/ c.state \in {"Owned", "LoadBearing", "Revisit"}
               \/ c.thresholds \cap {"persistence", "public_api", "security"} # {}
            THEN {"testability"} ELSE {}

\* Mutant: current evidence is trusted however weak it is.
TrustWhatIsCurrent(c) ==
  IF \E f \in c.facts : f.freshness # "current" THEN "low"
  ELSE IF c.confidence = "high" THEN "high" ELSE "medium"

\* confidenceForPrinciples and patternConfidence are the same function.
GuidanceConfidence(c) ==
  IF \/ c.confidence = "low"
     \/ \E f \in c.facts : f.confidence = "low" \/ f.freshness # "current"
     \/ Mentions(TextOf(c.facts), {"conflict", "contradict"})
  THEN "low"
  ELSE IF c.confidence = "high" /\ \E f \in c.facts : f.confidence = "high" THEN "high"
  ELSE "medium"

Pattern(id, confidence) == [pattern |-> id, confidence |-> confidence]

OrLow(supported, confidence) == IF supported THEN confidence ELSE "low"

\* The pattern of the concern itself, if it has one.
StatePattern(text, sure) ==
  IF Mentions(text, {"usestate", "useeffect", "effect", "url serialization",
                     "filter state", "imports projectstorage", "persistence call",
                     "state orchestration"})
  THEN Pattern("extract_custom_hook", sure) ELSE Pattern("name_state_owner", "low")

StoragePattern(text, sure) ==
  Pattern("insert_repository_boundary",
          OrLow(Mentions(text, {"localstorage", "indexeddb", "storage", "repository",
                                "saved project", "persistence"}), sure))

ContractPattern(text, sure) ==
  Pattern("record_api_contract",
          OrLow(Mentions(text, {"api", "endpoint", "request", "response", "contract",
                                "external", "public"}), sure))

ConcernPatterns(c) ==
  LET text == TextOf(c.facts)
      sure == GuidanceConfidence(c)
  IN IF c.concern = "state_ownership" THEN << StatePattern(text, sure) >>
     ELSE IF c.concern = "data_storage" THEN << StoragePattern(text, sure) >>
     ELSE IF c.concern = "api_contract" THEN << ContractPattern(text, sure) >>
     ELSE IF c.concern \in {"package_boundary", "testing"}
       THEN << Pattern("add_targeted_test_harness", sure) >>
     ELSE IF c.concern \in Security THEN << Pattern("run_security_review", sure) >>
     ELSE IF c.concern \in Operations THEN << Pattern("operationalize_runtime", sure) >>
     ELSE <<>>

\* A test harness too when testability is among the principles, once.
Patterns(c) ==
  LET own == ConcernPatterns(c)
      harness == Pattern("add_targeted_test_harness", GuidanceConfidence(c))
  IN IF "testability" \in Principles(c) /\ c.concern \notin {"package_boundary", "testing"}
     THEN Append(own, harness) ELSE own

\* Nothing reads the order of the guidance.
PrincipleGuidance(baseline) ==
  {[concern |-> c.concern, principles |-> Principles(c), patterns |-> Patterns(c)] :
     c \in {d \in ToSet(baseline) : d.facts # {} /\ Principles(d) # {}}}

(***************************************************************************)
(* The order in which patterns are worth recommending.                     *)
(***************************************************************************)
PatternScore(pattern, concern) ==
  LET base == [add_targeted_test_harness |-> IF concern = "package_boundary" THEN 95 ELSE 55,
               run_security_review |-> 88, operationalize_runtime |-> 82,
               extract_custom_hook |-> 90, insert_repository_boundary |-> 85,
               record_api_contract |-> 80, name_state_owner |-> 65]
      sure == [high |-> 35, medium |-> 30, low |-> 0]
  IN base[pattern.pattern] + sure[pattern.confidence]   \* 25 more than the code's

ActionForPattern ==
  [extract_custom_hook |-> "Extract", name_state_owner |-> "Name",
   insert_repository_boundary |-> "Insert boundary", record_api_contract |-> "Insert boundary",
   add_targeted_test_harness |-> "Add test harness", run_security_review |-> "Run review",
   operationalize_runtime |-> "Operationalize"]
=============================================================================
