----------------------------- MODULE Complexity -----------------------------
(***************************************************************************)
(* Complexity pressure against structural support, for one concern of a    *)
(* baseline.  A concern is a record with the facts that establish it (in a *)
(* fresh baseline at most one), its threshold candidates, its complexity   *)
(* axis and its confidence.  A fact carries the words of its label and     *)
(* summary; a text is the set of the terms the kernel looks for in it.     *)
(***************************************************************************)
EXTENDS Telemetry, FiniteSets

Concerns ==
  {"application_shape", "package_boundary", "entrypoint", "state_ownership",
   "data_storage", "authentication", "authorization", "deployment",
   "api_contract", "background_job", "testing", "observability",
   "risk_hotspot", "unknown"}

Security == {"authentication", "authorization"}
Operations == {"deployment", "observability"}

Mentions(text, terms) == text \cap terms # {}

ConfidenceRank == [low |-> 1, medium |-> 2, high |-> 3]
MinConfidence(a, b) == IF ConfidenceRank[a] <= ConfidenceRank[b] THEN a ELSE b

PressureRank == [none |-> 0, low |-> 1, medium |-> 2, high |-> 3]
\* supportRankFor, with unknown (-1 in the code) below absent.
SupportRank == [unknown |-> 0, absent |-> 1, localized |-> 2, named |-> 3,
                bounded |-> 4, contracted |-> 5, operationalized |-> 6]

TextOf(facts) == UNION {f.words : f \in facts}
SourceNames(facts) == {s.source : s \in UNION {f.sources : f \in facts}}

(***************************************************************************)
(* Pressure: drivers from the thresholds and from the text.                *)
(***************************************************************************)
ThresholdDrivers ==
  [repetition      |-> {"repetition"},
   state_ownership |-> {"shared_state"},
   persistence     |-> {"durable_state"},
   identity        |-> {"identity"},
   collaboration   |-> {"collaboration"},
   public_api      |-> {"public_access"},
   deployment      |-> {"operational_runtime"},
   operational     |-> {"operational_runtime"},
   security        |-> {"security_sensitive", "authorization"},
   blast_radius    |-> {"broad_change_surface"},
   revisit         |-> {"revisit_pressure"}]

Thresholds == DOMAIN ThresholdDrivers

TextDrivers ==
  [shared_state         |-> {"shared state", "store", "state ownership"},
   durable_state        |-> {"durable", "database", "sqlite", "postgres", "migration",
                             "localstorage", "indexeddb"},
   collaboration        |-> {"team", "share", "sharing", "multi-user", "collaboration",
                             "sync"},
   concurrency          |-> {"concurrent", "conflict", "many writers"},
   external_integration |-> {"external", "third-party", "webhook", "oauth provider"},
   broad_change_surface |-> {"broad diff", "many files", "blast radius"}]

DriversOf(c) ==
  (UNION {ThresholdDrivers[t] : t \in c.thresholds})
    \cup {d \in DOMAIN TextDrivers : Mentions(TextOf(c.facts), TextDrivers[d])}

Decisive == {"security_sensitive", "public_access", "collaboration", "concurrency",
             "broad_change_surface", "operational_runtime"}

LevelOfPressure(c, drivers) ==
  IF drivers = {} /\ c.facts = {} THEN "none"
  ELSE IF Mentions(drivers, Decisive \cup {"authorization"}) \/ c.complexity = "high" THEN "high"
  ELSE IF drivers # {} \/ c.complexity = "medium" \/ c.thresholds # {} THEN "medium"
  ELSE "low"

\* Low confidence, or a driver that is not decisive and rests on one source.
IsProvisional(c, drivers) ==
  \/ c.confidence = "low"
  \/ /\ c.complexity # "high" /\ ~Mentions(drivers, Decisive)
     /\ Cardinality(SourceNames(c.facts)) < 2 /\ drivers # {}

PressureOf(c) ==
  LET drivers == DriversOf(c)
      provisional == IsProvisional(c, drivers)
  IN [level |-> LevelOfPressure(c, drivers), provisional |-> provisional,
      confidence |-> IF provisional THEN "low" ELSE c.confidence]

(***************************************************************************)
(* Support.                                                                *)
(***************************************************************************)
SupportTerms(concern) ==
  CASE concern = "state_ownership"  -> {"custom hook", "useproject", "hook owns", "state owner"}
    [] concern = "data_storage"     -> {"repository", "adapter", "client boundary",
                                        "persistence boundary"}
    [] concern = "api_contract"     -> {"request", "response", "contract", "openapi", "schema"}
    [] concern \in Security         -> {"middleware", "session", "oauth", "membership",
                                        "role", "rbac", "access control"}
    [] concern \in Operations       -> {"health", "log", "metric", "alert", "rollback"}
    [] concern = "package_boundary" -> {"package", "workspace", "runtime boundary", "monorepo"}
    [] OTHER -> {}

NamedTerms == {"named", "owner", "handler", "route", "component", "module"}

SupportOf(c) ==
  LET text == TextOf(c.facts)
      supported == Mentions(text, SupportTerms(c.concern))
  IN IF c.facts = {} THEN "unknown"
     ELSE IF supported THEN
       CASE c.concern \in Operations     -> "operationalized"
         [] c.concern = "api_contract"   -> "contracted"
         [] OTHER                        -> "bounded"
     ELSE IF c.concern = "unknown" THEN "absent"
     ELSE IF Mentions(text, NamedTerms) THEN "named"
     ELSE "localized"

(***************************************************************************)
(* Adequacy.                                                               *)
(***************************************************************************)
FarBehind(pressure, support) == SupportRank[support] < PressureRank[pressure]

StatusOf(pressure, support) ==
  LET p == PressureRank[pressure.level]
      s == SupportRank[support]
  IN IF pressure.provisional \/ support = "unknown" THEN "unknown"
     ELSE IF FarBehind(pressure.level, support) THEN "under_structured"
     ELSE IF s > p + 3 /\ p <= 1 THEN "over_structured"
     ELSE IF s <= p THEN "watch" ELSE "adequate"

AdequacyOf(c) ==
  LET pressure == PressureOf(c)
      support == SupportOf(c)
  IN [concern |-> c.concern, pressure |-> pressure.level, support |-> support,
      status |-> StatusOf(pressure, support),
      confidence |-> IF pressure.provisional \/ support = "unknown" THEN "low"
                     ELSE MinConfidence(pressure.confidence, c.confidence)]

\* actionForAdequacy and coachActionForAdequacy in one.
ActionForAdequacy(adequacy) ==
  IF adequacy.status = "adequate" THEN "Continue"
  ELSE IF adequacy.status = "over_structured" THEN "Localize"
  ELSE IF adequacy.status \in {"unknown", "watch"} THEN "Record decision"
  ELSE CASE adequacy.concern = "state_ownership" -> "Extract"
    [] adequacy.concern \in {"data_storage", "api_contract", "package_boundary"} ->
         "Insert boundary"
    [] adequacy.concern \in Security \cup {"risk_hotspot"} -> "Run review"
    [] adequacy.concern \in Operations -> "Operationalize"
    [] OTHER -> "Name"

\* An accepted debt is outgrown when pressure rose or support fell since.
Outgrown(record, adequacy) ==
  \/ PressureRank[adequacy.pressure] > PressureRank[record.pressure]
  \/ SupportRank[adequacy.support] < SupportRank[record.support]
=============================================================================
