------------------------------ MODULE UsageLog ------------------------------
(***************************************************************************)
(* Usage events: how an engagement is classified, and how the log is       *)
(* reviewed page by page.  Pure functions of the log; McpServer keeps it.  *)
(*                                                                         *)
(* An event is identified by its time and a key that stands for the rest   *)
(* of its id: events sort by occurredAt and then by id.                    *)
(***************************************************************************)
EXTENDS Naturals, FiniteSets

CONSTANTS
  DefaultPage, \* boundedLimit without a usable limit (50)
  LargestPage, \* boundedLimit's maximum (200)
  AllSessions  \* a query that names no session

ASSUME PageAssumption ==
  DefaultPage \in Nat \ {0} /\ LargestPage \in Nat \ {0}

EngagementTypes ==
  {"baseline_capture", "graph_query", "followup_injection", "passive_silence",
   "response_evaluation", "error", "user_visible_advice"}
Outcomes == {"engaged", "quiet", "failed", "skipped"}

Engagement(type, outcome, missed) ==
  [type |-> type, outcome |-> outcome, missed |-> missed]

\* classifyUsageEvent, per source.  A degraded or failed call is an error
\* before anything else is looked at.
ClassifyHook(effect, relevant, baselineExists, degraded) ==
  IF degraded THEN Engagement("error", "failed", FALSE)
  ELSE IF effect \in {"inject", "block"}
    THEN Engagement("followup_injection", "engaged", FALSE)
    ELSE Engagement("passive_silence", "quiet", relevant /\ baselineExists)

ClassifyMcp(tool, ok) ==
  IF ~ok THEN Engagement("error", "failed", FALSE)
  ELSE CASE tool = "capture_assessment" -> Engagement("baseline_capture", "engaged", FALSE)
         [] tool \in {"query_assessment_graph", "get_assessment_node"} ->
              Engagement("graph_query", "engaged", FALSE)
         [] OTHER -> Engagement("user_visible_advice", "engaged", FALSE)

SortsBefore(e, f) == e.at < f.at \/ (e.at = f.at /\ e.key < f.key)

\* Mutant: the event is added beside the one of the same id.
InsertAlways(log, e) == log \cup {e}

\* insert ... on conflict(event_id) do update: the later event replaces the
\* earlier one of the same id.
Insert(log, e) == {f \in log : <<f.at, f.key>> # <<e.at, e.key>>} \cup {e}

\* listUsageEvents and buildUsageReview apply the same filters.
Selected(log, query) ==
  {e \in log : /\ query.session \in {AllSessions, e.session}
               /\ e.at <= query.until}

BoundedLimit(limit) ==
  CASE limit = 0 -> DefaultPage
    [] limit \in 1..LargestPage -> limit
    [] OTHER -> LargestPage

Rank(events, e) == Cardinality({f \in events : SortsBefore(f, e)})

\* Mutant: the next page starts after a gap of one.
PageThenGap(log, query, offset) ==
  LET events == Selected(log, query)
      end == offset + BoundedLimit(query.limit)
  IN [events |-> {e \in events : Rank(events, e) \in offset..(end - 1)},
      more |-> end < Cardinality(events), next |-> end + 1,
      total |-> Cardinality(events), gaps |-> {}]

\* Mutant: the next page starts with the last event of this one.
PageOverlapping(log, query, offset) ==
  LET events == Selected(log, query)
      end == offset + BoundedLimit(query.limit)
  IN [events |-> {e \in events : Rank(events, e) \in offset..end},
      more |-> end < Cardinality(events), next |-> end,
      total |-> Cardinality(events), gaps |-> {}]

\* buildUsageReview.  The cursor is an offset into the log as it is now.
Page(log, query, offset) ==
  LET events == Selected(log, query)
      end == offset + BoundedLimit(query.limit)
  IN [events |-> {e \in events : Rank(events, e) \in offset..(end - 1)},
      more |-> end < Cardinality(events),
      next |-> end,
      total |-> Cardinality(events),
      gaps |-> {e \in events : e.engagement.missed}]
=============================================================================
