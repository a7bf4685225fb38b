------------------------------- MODULE Claims -------------------------------
(***************************************************************************)
(* Architecture claims: the evidence graph of a telemetry bundle, the      *)
(* claims its nodes support, and how sure each claim is.                   *)
(*                                                                         *)
(* A node cites the line it came from, or, for a collector's fact, the     *)
(* line it was attached to.  Lines with a "concern.family:" tag of their   *)
(* own are left out: a fact says the same.                                 *)
(***************************************************************************)
EXTENDS Baseline

ClaimFamilies ==
  {"route", "external_provider", "session", "credential", "authorization",
   "schema", "binding", "deployment_config", "package_boundary",
   "runtime_boundary", "test_surface", "observability", "unknown"}

\* residual: what the claim leaves open is worth a question.
ClaimRules == <<
  [concern |-> "authentication", required |-> {"route", "external_provider", "session"},
   optional |-> {"credential"}, residual |-> FALSE],
  [concern |-> "authentication", required |-> {"credential", "session"},
   optional |-> {}, residual |-> FALSE],
  [concern |-> "authorization", required |-> {"authorization"},
   optional |-> {"schema"}, residual |-> TRUE],
  [concern |-> "data_storage", required |-> {"schema"},
   optional |-> {"binding"}, residual |-> TRUE],
  [concern |-> "deployment", required |-> {"deployment_config"},
   optional |-> {}, residual |-> TRUE],
  [concern |-> "package_boundary", required |-> {"package_boundary"},
   optional |-> {"runtime_boundary", "test_surface"}, residual |-> FALSE],
  [concern |-> "package_boundary", required |-> {"runtime_boundary"},
   optional |-> {"test_surface"}, residual |-> FALSE],
  [concern |-> "testing", required |-> {"test_surface"},
   optional |-> {}, residual |-> FALSE],
  [concern |-> "observability", required |-> {"observability"},
   optional |-> {}, residual |-> TRUE] >>

(***************************************************************************)
(* Nodes.                                                                  *)
(***************************************************************************)
ConcernTexts == <<
  [of |-> "authentication",   terms |-> {"auth", "oauth", "login", "session", "api key", "token"}],
  [of |-> "authorization",    terms |-> {"authorization", "membership", "permission", "rbac",
                                         "access control"}],
  [of |-> "data_storage",     terms |-> {"migration", "database", "sqlite", "postgres", "d1",
                                         "kv", "storage"}],
  [of |-> "deployment",       terms |-> {"deploy", "worker", "cloudflare", "wrangler",
                                         "production", "appcast", "notari", "signing"}],
  [of |-> "package_boundary", terms |-> {"workspace", "runtime boundary", "rust/wasm",
                                         "package.swift", "crates/", "apps/", "packages/",
                                         "workers/"}],
  [of |-> "testing",          terms |-> {"test", "spec", "e2e", "harness"}],
  [of |-> "observability",    terms |-> {"health", "metric", "logging", "analytics",
                                         "observability"}] >>

FamilyTexts == <<
  [of |-> "route",             terms |-> {"/auth/", "login", "signin"}],
  [of |-> "external_provider", terms |-> {"oauth", "github"}],
  [of |-> "session",           terms |-> {"session"}],
  [of |-> "credential",        terms |-> {"api key", "token"}],
  [of |-> "authorization",     terms |-> {"authorization", "membership", "permission", "rbac",
                                          "access control"}],
  [of |-> "schema",            terms |-> {"migration", ".sql", "schema"}],
  [of |-> "binding",           terms |-> {"kv", "d1", "binding", "wrangler"}],
  [of |-> "deployment_config", terms |-> {"worker", "deploy", "appcast", "notari", "signing"}],
  [of |-> "package_boundary",  terms |-> {"workspace", "apps/", "packages/", "workers/",
                                          "package.swift", "crates/"}],
  [of |-> "runtime_boundary",  terms |-> {"rust", "wasm", "native"}],
  [of |-> "test_surface",      terms |-> {"test", "spec", "e2e"}],
  [of |-> "observability",     terms |-> {"health", "metric", "logging", "analytics"}] >>

\* The first rule a line satisfies; roles of somebody speak of authorization.
FirstOf(rules, words, otherwise) ==
  LET Speaks(rule) == \/ Mentions(words, rule.terms)
                      \/ /\ rule.of = "authorization" /\ "role" \in words
                         /\ Mentions(words, RoleSubjects)
      place == SelectInSeq(rules, Speaks)
  IN IF place = 0 THEN otherwise ELSE rules[place].of

ConcernFromText(words) == FirstOf(ConcernTexts, words, "none")
FamilyFromText(words) == FirstOf(FamilyTexts, words, "unknown")

FactNodes(signal) ==
  IF signal.details.concern = "none" THEN <<>>
  ELSE << [concern |-> signal.details.concern, family |-> signal.details.family,
           words |-> signal.words, confidence |-> signal.details.confidence] >>

TextNode(line, confidence) ==
  IF ConcernFromText(line) = "none" THEN <<>>
  ELSE << [concern |-> ConcernFromText(line), family |-> FamilyFromText(line),
           words |-> line, confidence |-> confidence] >>

TextNodes(signal) ==
  FlattenSeq([i \in DOMAIN signal.lines |-> TextNode(signal.lines[i], signal.confidence)])

\* The signals of five families, whatever their status.
EvidenceGraph(telemetry) ==
  LET signals == FamilyOf(telemetry, "repository") \o FamilyOf(telemetry, "change")
                   \o FamilyOf(telemetry, "test") \o FamilyOf(telemetry, "memory")
                   \o FamilyOf(telemetry, "runtime")
      nodes == FlattenSeq([i \in DOMAIN signals |-> FactNodes(signals[i]) \o TextNodes(signals[i])])
      IsFirst(i) == ~\E j \in 1..(i - 1) :
        nodes[j] = [nodes[i] EXCEPT !.confidence = nodes[j].confidence]
  IN {nodes[i] : i \in {j \in DOMAIN nodes : IsFirst(j)}}

(***************************************************************************)
(* Claims.                                                                 *)
(***************************************************************************)
CitedBy(nodes) == UNION {n.words : n \in nodes}

CodeAnchors == {".test.", "test/", "tests/", "src/", "workers/", "apps/"}
AccessShapes == {"membership", "member", "role", "rbac", "permission", "user project", "admin",
                 "resource"}

HasConcreteAuthorization(words) ==
  /\ Mentions(words, AccessShapes)
  /\ Mentions(words, CodeAnchors \cup {"migration/", "migrations/", ".sql"})

HasConcreteEvidence(concern, words) ==
  CASE concern = "authorization" -> HasConcreteAuthorization(words)
    [] concern = "deployment" ->
         /\ Mentions(words, {"cloudflare", "wrangler", "worker"})
         /\ Mentions(words, {"staging", "production", "preview", "local"})
         /\ Mentions(words, {"wrangler.toml", ".github/workflows", "scripts/deploy",
                             "docs/self-hosting", "docs/ops", "readme.md"})
    [] concern = "authentication" ->
         /\ Mentions(words, {"github", "oauth"}) /\ Mentions(words, {"session", "cookie"})
         /\ Mentions(words, CodeAnchors \cup {".env", "wrangler"})
    [] OTHER -> FALSE

\* The code keeps twelve nodes of a rule, the instances have fewer.
EvidenceNodes(rule, graph) ==
  {n \in graph : n.concern = rule.concern /\ n.family \in rule.required \cup rule.optional}

Supported(rule, nodes) ==
  /\ rule.required \subseteq {n.family : n \in nodes}
  /\ rule.concern = "authorization" => HasConcreteAuthorization(CitedBy(nodes))

\* Never low: every required family is there.
ConfidenceForClaim(rule, nodes) ==
  IF \/ HasConcreteEvidence(rule.concern, CitedBy(nodes))
     \/ Cardinality({n.family : n \in nodes}) >= 3
     \/ Cardinality({n \in nodes : n.confidence = "high"}) >= 2
  THEN "high" ELSE "medium"

ClaimsForTelemetry(telemetry) ==
  LET graph == EvidenceGraph(telemetry)
      rules == AtPlaces(ClaimRules,
                 {i \in DOMAIN ClaimRules :
                    Supported(ClaimRules[i], EvidenceNodes(ClaimRules[i], graph))})
  IN [i \in DOMAIN rules |->
       [concern |-> rules[i].concern, residual |-> rules[i].residual,
        confidence |-> ConfidenceForClaim(rules[i], EvidenceNodes(rules[i], graph)),
        words |-> CitedBy(EvidenceNodes(rules[i], graph))]]
=============================================================================
