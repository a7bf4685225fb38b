-------------------------- MODULE AssessmentGraph --------------------------
(***************************************************************************)
(* The assessment graph, and a client of the MCP server that reads it page *)
(* by page while other processes capture, answer and decide.               *)
(*                                                                         *)
(* The graph is not stored.  The result of a command holds its first page; *)
(* each further page is a call of query_assessment_graph, which reads a    *)
(* run, the answers and the decisions by three statements and builds the   *)
(* graph anew.  A cursor holds the run, the filters and an offset into the *)
(* sorted nodes.  Commands are single steps here, made with what their     *)
(* process has read some steps before (AssessmentStore has their parts).   *)
(*                                                                         *)
(* Left out: labels, summaries and details of nodes, relations of edges;   *)
(* the filters by concern and relation; what an answer adds to the         *)
(* baseline.  Answers and decisions are listed in the order of their       *)
(* recording.                                                              *)
(***************************************************************************)
EXTENDS Naturals, FiniteSets, Sequences

CONSTANTS
  Questions, Decisions,
  Assessments,  \* what captures may find, a subset of AssessmentType
  KeyRank,      \* order of the keys of claims, and of diagnostics
  Filters,      \* nodeTypes of queries; {} stands for none
  Limits,       \* page limits clients ask for
  History,      \* runs, answers and decisions of earlier sessions
  MaxRuns,      \* bound: runs
  MaxAnswers,   \* bound: answers
  Lag           \* bound: how many records a process may have missed

DefaultLimit == 10
MaxLimit == 50

VARIABLES
  runs,       \* the runs, in the order they were saved; the last is the latest
  answers,    \* listAnswers()
  decisions,  \* listDecisions()
  pc,         \* the server: "idle", "readAnswers" or "readDecisions"
  loaded,     \* what its current call has read so far: a run's number, answers
  walk        \* the client's pages of one graph

ledgerVars == <<runs, answers, decisions>>
vars == <<ledgerVars, pc, loaded, walk>>

(***************************************************************************)
(* Nodes.  An id is a type and a key; runs are numbered from 1, and 0 is   *)
(* no run.  Artifacts are in the order of artifactPaths.                   *)
(***************************************************************************)
TypeOrder == <<"artifact", "claim", "concern", "decision", "diagnostic",
               "evidence", "fact", "question", "recommendation", "run">>
NodeTypes == {TypeOrder[i] : i \in DOMAIN TypeOrder}
TypeRank(type) == CHOOSE i \in DOMAIN TypeOrder : TypeOrder[i] = type

Artifacts == <<"latestAssessmentMd", "latestAssessmentJson", "questionsJson",
               "evidenceJson", "nextActionsMd", "decisionsJsonl",
               "changesSinceLastMd">>

Node(type, key, priority) == [id |-> <<type, key>>, priority |-> priority]
Ids(nodes) == {n.id : n \in nodes}

\* findings: the evidence, facts, concerns, claims and diagnostics, with their
\* priorities.  links: the edges among them, and from concerns to questions,
\* that follow from what they say.  next: questions that may move up when
\* others are answered.
FindingIds == {"evidence", "fact", "concern", "claim", "diagnostic"} \X STRING
Findings == [id : FindingIds, priority : Nat]
Links == FindingIds \X (FindingIds \cup {"question"} \X Questions)
AssessmentType ==
  [questions : Seq(Questions), next : SUBSET Questions,
   findings : SUBSET Findings, links : SUBSET Links]

\* What an assessment gives the graph: no two nodes of one id; claims share
\* their priorities, and diagnostics may, if there are many of them, all others
\* are numbered; and edges between what has a node.
WellMade(a) ==
  /\ IsFiniteSet(a.findings)
  /\ \A f \in a.findings, g \in a.findings :
       /\ f.id = g.id => f = g
       /\ f # g /\ f.priority = g.priority /\ f.id[1] = g.id[1] =>
            /\ f.id[1] \in {"claim", "diagnostic"}
            /\ KeyRank[f.id[2]] # KeyRank[g.id[2]]
  /\ \A f \in a.findings :
       f.id[1] \in {"claim", "diagnostic"} => KeyRank[f.id[2]] \in Nat
  /\ \A l \in a.links : {l[1], l[2]} \subseteq Ids(a.findings) \cup {"question"} \X Questions

\* A filter: the entries of s that are in K, in their order.
Kept(s, K) ==
  LET kept[i \in 0..Len(s)] ==
        IF i = 0 THEN << >>
        ELSE IF s[i] \in K THEN Append(kept[i - 1], s[i]) ELSE kept[i - 1]
  IN kept[Len(s)]

AnswersOf(statuses) == [question : Questions, status : statuses, run : Nat]
AnswerRecord == AnswersOf({"answered", "skipped"})
DecisionRecord == [id : Decisions, run : Nat]

(***************************************************************************)
(* The CaptureAssessmentResult the graph is built from: what a run, its    *)
(* open questions, the answers and the decisions are at that time.         *)
(***************************************************************************)
Result(r, run, open, as, ds) ==
  [runId |-> r, previous |-> run.previous, findings |-> run.findings,
   links |-> run.links, open |-> open,
   answered |-> Kept(as, AnswersOf({"answered"})),
   skipped |-> Kept(as, AnswersOf({"skipped"})),
   decisions |-> ds]

\* What loadPersistedGraph makes of a saved run.
Saved(r, as, ds) == Result(r, runs[r], runs[r].open, as, ds)

Settled(result) == result.answered \o result.skipped

\* Mutant: what is skipped gets no node.
QuestionNodesUnlessSkipped(result) ==
  {Node("question", result.open[i], 40 + i - 1) : i \in DOMAIN result.open}
    \cup {Node("question", result.answered[i].question, 55 + Len(result.open) + i - 1) :
            i \in {k \in DOMAIN result.answered :
                     \A j \in DOMAIN result.open : result.open[j] # result.answered[k].question}}

\* What has a node already does not get another one.
QuestionNodes(result) ==
  LET settled == Settled(result)
      open == Len(result.open)
      all == result.open \o [i \in DOMAIN settled |-> settled[i].question]
  IN {Node("question", all[i], (IF i <= open THEN 40 ELSE 55) + i - 1) :
        i \in {k \in DOMAIN all : \A j \in 1..(k - 1) : all[j] # all[k]}}

DecisionNodes(result) ==
  {Node("decision", result.decisions[i].id, 60 + i - 1) : i \in DOMAIN result.decisions}

ArtifactNodes == {Node("artifact", Artifacts[i], 80 + i - 1) : i \in DOMAIN Artifacts}

RunNodes(result) ==
  {Node("run", result.runId, 0), Node("recommendation", result.runId, 1)}
    \cup {Node("run", p, 90) : p \in {result.previous} \ {0}}

\* buildAssessmentGraph, its nodes
Nodes(result) ==
  RunNodes(result) \cup ArtifactNodes \cup result.findings
    \cup QuestionNodes(result) \cup DecisionNodes(result)

FindingEdges(result) ==
  LET findings == Ids(result.findings)
      of(types) == {f \in findings : f[1] \in types}
  IN {<<f, <<"recommendation", result.runId>>>> : f \in findings \ of({"diagnostic"})}
       \cup {<<f, <<"run", result.runId>>>> : f \in of({"diagnostic"})}
       \cup {<<f, <<"artifact", "evidenceJson">>>> : f \in of({"evidence", "fact"})}
       \cup {<<f, <<"artifact", "latestAssessmentJson">>>> : f \in of({"claim"})}
       \cup {l \in result.links :
               l[2][1] = "question" => \E i \in DOMAIN result.open : l[2][2] = result.open[i]}

\* The question of an answer is of concern "unknown", and is joined to the
\* decisions recorded for the same run.
QuestionEdges(result) ==
  LET settled == Settled(result)
      unknown == <<"concern", "unknown">>
  IN {<<q, <<"artifact", "questionsJson">>>> : q \in Ids(QuestionNodes(result))}
       \cup {<<unknown, <<"question", settled[i].question>>>> :
               i \in {k \in DOMAIN settled : unknown \in Ids(result.findings)}}
       \cup {<<<<"question", settled[x[1]].question>>, <<"decision", result.decisions[x[2]].id>>>> :
               x \in {y \in (DOMAIN settled) \X (DOMAIN result.decisions) :
                        settled[y[1]].run = result.decisions[y[2]].run}}

\* A decision leads to the run it was confirmed in.
DecisionEdges(result) ==
  {<<<<"decision", result.decisions[i].id>>, <<"run", result.decisions[i].run>>>> :
      i \in DOMAIN result.decisions}
    \cup {<<d, <<"artifact", "decisionsJsonl">>>> : d \in Ids(DecisionNodes(result))}

\* buildAssessmentGraph, its edges, as pairs of ids
Edges(result) ==
  LET run == <<"run", result.runId>>
  IN {<<run, <<"run", p>>>> : p \in {result.previous} \ {0}}
       \cup {<<<<"recommendation", result.runId>>, run>>}
       \cup {<<a, run>> : a \in Ids(ArtifactNodes)}
       \cup FindingEdges(result) \cup QuestionEdges(result) \cup DecisionEdges(result)

(***************************************************************************)
(* queryAssessmentGraph: by priority, type and id; only claims and         *)
(* diagnostics may agree in priority and type.                             *)
(***************************************************************************)
ComesBefore(m, n) ==
  \/ m.priority < n.priority
  \/ m.priority = n.priority /\ TypeRank(m.id[1]) < TypeRank(n.id[1])
  \/ /\ m.priority = n.priority
     /\ m.id[1] = n.id[1] /\ m.id[1] \in {"claim", "diagnostic"}
     /\ KeyRank[m.id[2]] < KeyRank[n.id[2]]

Filtered(nodes, types) == {n \in nodes : types = {} \/ n.id[1] \in types}

Offset(n, nodes) == Cardinality({m \in nodes : ComesBefore(m, n)})

\* Mutant: a page begins with the last item of the one before.
SliceFromLast(nodes, offset, limit) ==
  {n \in nodes : offset <= Offset(n, nodes) + 1 /\ Offset(n, nodes) < offset + limit}

Slice(nodes, offset, limit) ==
  {n \in nodes : offset <= Offset(n, nodes) /\ Offset(n, nodes) < offset + limit}

\* Mutant: one page more, in case.
HasNextPageAtEnd(next, total) == next <= total

HasNextPage(next, total) == next < total

(***************************************************************************)
(* A walk of the client: the run it names (0: the latest), its filter, the *)
(* cursor of its next page, what it has been shown, and how often it has   *)
(* been shown something again.  origin is the tool that gave it its first  *)
(* page; present, answersThen and decisionsThen are what that was made of. *)
(***************************************************************************)
NothingLoaded == [run |-> 0, answers |-> << >>]

Origins == {"query", "capture", "answer", "decide"}
NoCursor == [run |-> 0, offset |-> 0]

NewWalk(origin, named, types) ==
  [status |-> "paging", origin |-> origin, named |-> named, types |-> types,
   cursor |-> NoCursor, shown |-> {}, repeats |-> 0,
   present |-> {}, answersThen |-> 0, decisionsThen |-> 0]

\* The walk w after its next page, taken from the graph of result.
WithPage(w, result, limit) ==
  LET matching == Filtered(Nodes(result), w.types)
      items == Slice(matching, w.cursor.offset, limit)
      next == w.cursor.offset + Cardinality(items)
      first == w.cursor = NoCursor
  IN [w EXCEPT
        !.status = IF HasNextPage(next, Cardinality(matching)) THEN "paging" ELSE "done",
        !.cursor = [run |-> result.runId, offset |-> next],
        !.shown = @ \cup Ids(items),
        !.repeats = @ + Cardinality(w.shown \cap Ids(items)),
        !.present = IF first THEN Ids(matching) ELSE @,
        !.answersThen = IF first THEN Len(Settled(result)) ELSE @,
        !.decisionsThen = IF first THEN Len(result.decisions) ELSE @]

RunRecord ==
  [previous : Nat, open : Seq(Questions), next : SUBSET Questions,
   findings : SUBSET Findings, links : SUBSET Links]

ASSUME AssessmentsAssumption ==
  Assessments \subseteq AssessmentType /\ \A a \in Assessments : WellMade(a)
ASSUME QueriesAssumption ==
  /\ \A types \in Filters : types \subseteq NodeTypes
  /\ Limits \subseteq 1..MaxLimit
ASSUME HistoryAssumption ==
  /\ History.runs \in Seq(RunRecord) /\ History.runs # << >>
  /\ History.answers \in Seq(AnswerRecord)
  /\ History.decisions \in Seq(DecisionRecord)
  /\ \A r \in DOMAIN History.runs :
       WellMade(History.runs[r]) /\ History.runs[r].previous < r
  /\ \A i \in DOMAIN History.decisions :
       /\ History.decisions[i].run \in DOMAIN History.runs
       /\ \A j \in DOMAIN History.decisions :
            History.decisions[i].id = History.decisions[j].id => i = j
ASSUME BoundsAssumption == MaxRuns \in Nat /\ MaxAnswers \in Nat /\ Lag \in Nat

Init ==
  /\ runs = History.runs
  /\ answers = History.answers
  /\ decisions = History.decisions
  /\ pc = "idle"
  /\ loaded = NothingLoaded
  /\ walk = [NewWalk("query", 0, {}) EXCEPT !.status = "none"]

-----------------------------------------------------------------------------
(***************************************************************************)
(* The commands.  A process may have read the run, the answers and the     *)
(* decisions when there were fewer of them.  The server is one of the      *)
(* processes: when the client has called it, createAssessmentIndex makes   *)
(* the first page of the result, and the client may go on from there.      *)
(***************************************************************************)
Stale(n) == {k \in 0..n : k + Lag >= n}

Unanswered(questions, as) == Kept(questions, Questions \ {as[i].question : i \in DOMAIN as})

\* Who called gets the first page; others do not.
InitialPage(origin, result) ==
  \/ UNCHANGED walk
  \/ /\ pc = "idle" /\ walk.status # "paging"
     /\ \E named \in {0, result.runId} :
          walk' = WithPage(NewWalk(origin, named, {}), result, DefaultLimit)

Capture ==
  /\ Len(runs) < MaxRuns
  /\ \E a \in Assessments, p \in Stale(Len(runs)),
        i \in Stale(Len(answers)), j \in Stale(Len(decisions)) :
       LET known == SubSeq(answers, 1, i)
           run == [previous |-> p, open |-> Unanswered(a.questions, known),
                   next |-> a.next, findings |-> a.findings, links |-> a.links]
       IN /\ runs' = Append(runs, run)
          /\ InitialPage("capture", Result(Len(runs) + 1, run, run.open, known,
                                           SubSeq(decisions, 1, j)))
  /\ UNCHANGED <<answers, decisions, pc, loaded>>

\* The result shows the questions still open once the answer is applied, some
\* of which may have moved up; the run keeps those it was saved with.
RecordAnswer ==
  /\ Len(answers) < MaxAnswers
  /\ \E r \in Stale(Len(runs)) \ {0} : \E i \in DOMAIN runs[r].open :
       \E status \in {"answered", "skipped"} :
         /\ answers' = Append(answers, [question |-> runs[r].open[i],
                                        status |-> status, run |-> r])
         /\ \E up \in {<< >>} \cup {<<q>> : q \in runs[r].next} :
              InitialPage("answer",
                          Result(r, runs[r], Unanswered(runs[r].open \o up, answers'),
                                 answers', decisions))
  /\ UNCHANGED <<runs, decisions, pc, loaded>>

RecordDecision ==
  /\ \E r \in Stale(Len(runs)) \ {0} : \E id \in Decisions :
       /\ \A i \in DOMAIN decisions : decisions[i].id # id
       /\ decisions' = Append(decisions, [id |-> id, run |-> r])
       /\ InitialPage("decide", Result(r, runs[r], runs[r].open, answers, decisions'))
  /\ UNCHANGED <<runs, answers, pc, loaded>>

(***************************************************************************)
(* The client asks for a graph, and for page after page of it; the server  *)
(* serves each call by loadPersistedGraph and queryAssessmentGraph.  A     *)
(* cursor of another run is refused.                                       *)
(***************************************************************************)
Ask ==
  /\ pc = "idle" /\ walk.status # "paging"
  /\ \E named \in 0..Len(runs), types \in Filters :
       walk' = NewWalk("query", named, types)
  /\ UNCHANGED <<ledgerVars, pc, loaded>>

\* Mutant: the run the client names is not looked at.
ReadLatestRun ==
  /\ pc = "idle" /\ walk.status = "paging"
  /\ loaded' = [loaded EXCEPT !.run = Len(runs)]
  /\ pc' = "readAnswers"
  /\ UNCHANGED <<ledgerVars, walk>>

\* Mutant: no run is taken for the latest.
ReadNamedRun ==
  /\ pc = "idle" /\ walk.status = "paging"
  /\ loaded' = [loaded EXCEPT !.run = walk.named]
  /\ pc' = "readAnswers"
  /\ UNCHANGED <<ledgerVars, walk>>

ReadRun ==
  /\ pc = "idle" /\ walk.status = "paging"
  /\ loaded' = [loaded EXCEPT !.run = IF walk.named = 0 THEN Len(runs) ELSE walk.named]
  /\ pc' = "readAnswers"
  /\ UNCHANGED <<ledgerVars, walk>>

ReadAnswers ==
  /\ pc = "readAnswers"
  /\ loaded' = [loaded EXCEPT !.answers = answers]
  /\ pc' = "readDecisions"
  /\ UNCHANGED <<ledgerVars, walk>>

\* Mutant: the run of the cursor is not compared.
CursorUnchecked(cursor, r) == cursor.offset >= 0

\* decodeCursor
CursorMatches(cursor, r) == cursor = NoCursor \/ cursor.run = r

ReadDecisions ==
  /\ pc = "readDecisions"
  /\ IF CursorMatches(walk.cursor, loaded.run)
       THEN \E limit \in Limits :
              walk' = WithPage(walk, Saved(loaded.run, loaded.answers, decisions), limit)
       ELSE walk' = [walk EXCEPT !.status = "refused"]
  /\ pc' = "idle" /\ loaded' = NothingLoaded
  /\ UNCHANGED ledgerVars

Next ==
  \/ Capture \/ RecordAnswer \/ RecordDecision
  \/ Ask \/ ReadRun \/ ReadAnswers \/ ReadDecisions

Spec == Init /\ [][Next]_vars

-----------------------------------------------------------------------------
\* Every variable has its type; a call in progress has read a run there is.
TypeOK ==
  /\ runs \in Seq(RunRecord)
  /\ answers \in Seq(AnswerRecord)
  /\ decisions \in Seq(DecisionRecord)
  /\ pc \in {"idle", "readAnswers", "readDecisions"}
  /\ pc # "idle" => loaded.run \in DOMAIN runs
  /\ loaded.answers \in Seq(AnswerRecord)
  /\ walk.status \in {"none", "paging", "done", "refused"}
  /\ walk.origin \in Origins /\ walk.named \in 0..Len(runs)
  /\ walk.cursor \in [run : 0..Len(runs), offset : Nat] /\ walk.repeats \in Nat

\* A client that has paged to the end was shown everything there was when it
\* began, although the graph is built anew for every page and decisions are
\* recorded and runs captured meanwhile; and it was shown something again at
\* most once for each of these decisions.  Not so when an answer has been
\* recorded since: it moves other nodes.  Nor when it began with the result of
\* answer_question, which is made of the questions still open, and the further
\* pages of those the run was saved with.
WalksOmitNothing ==
  walk.status = "done" /\ walk.origin # "answer" /\ Len(answers) = walk.answersThen =>
    /\ walk.present \subseteq walk.shown
    /\ walk.repeats <= Len(decisions) - walk.decisionsThen

\* A cursor is refused only to a client that asks for the latest run, and only
\* after another run has been saved: queryAssessmentGraph never refuses the
\* cursor it has just handed out for a run the client names.
OnlyLatestIsRefused ==
  walk.status = "refused" => walk.named = 0 /\ Len(runs) > walk.cursor.run

\* The pages of one walk are of one run, whichever run is the latest by the
\* time they are made: all that was shown is in that run's graph today.
PagesAreOfOneRun ==
  walk.cursor # NoCursor /\ walk.origin # "answer" =>
    walk.shown \subseteq Ids(Nodes(Saved(walk.cursor.run, answers, decisions)))

\* A client that is told of a next page finds something on it: what the cursor
\* of queryAssessmentGraph points at is still there when the page is asked for.
CursorsPointAtNodes ==
  walk.status = "paging" /\ walk.cursor # NoCursor /\ walk.origin # "answer" =>
    walk.cursor.offset <
      Cardinality(Filtered(Nodes(Saved(walk.cursor.run, answers, decisions)), walk.types))

\* Edges join nodes of the graph, for every run and whatever has been answered
\* and decided since, with one exception: the edge of a decision to the run it
\* was confirmed in, unless that is this run or the one before it.
EdgesJoinNodesOrLeadToRuns ==
  \A r \in DOMAIN runs :
    LET result == Saved(r, answers, decisions)
        ids == Ids(Nodes(result))
    IN \A e \in Edges(result) :
         /\ e[1] \in ids
         /\ \/ e[2] \in ids
            \/ /\ e[1][1] = "decision" /\ e[2][1] = "run"
               /\ e[2][2] \in DOMAIN runs \ {r, runs[r].previous}
=============================================================================
