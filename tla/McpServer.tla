----------------------------- MODULE McpServer -----------------------------
(***************************************************************************)
(* The MCP server and the usage log it shares with the hook processes.     *)
(*                                                                         *)
(* The host writes JSON-RPC lines; the server takes them strictly one      *)
(* after another, answers each and appends a usage event after the work of *)
(* a tool call is done.  A hook process reads the clock when it starts and *)
(* appends its event, with that time, when it ends.  One client walks      *)
(* review_usage page by page, following the cursors.                       *)
(***************************************************************************)
EXTENDS UsageLog, Sequences

CONSTANTS
  Lines,      \* what the host may write besides the walk's calls
  Hooks,      \* hook processes
  Query,      \* the query of the walk
  Keys,       \* keys of the events, below FirstMcpKey those of the hooks
  FirstMcpKey,
  HookKey,    \* HookKey[h]: the key of h's event
  MaxTime,    \* bound of the clock
  MaxSent     \* bound of the lines the host writes

\* A line: kind "blank", "garbage" (not JSON), "null" (the JSON value),
\* "notification", "ping" (initialize and tools/list), "unknown" (any other
\* method, or a JSON value without one), "nameless" or "call".  A call names a
\* tool, says where its input gives the project root and whether the tool
\* accepts the rest of its input.
RootForms == {"given", "event", "bad event", "none", "not a record"}

\* Tools that never read the project root, and those that require it.
PureTools == {"plan_interview", "apply_interview_answers"}
RootedTools ==
  {"get_memory", "record_decision", "query_assessment_graph",
   "get_assessment_node", "review_usage"}
RootlessTools ==   \* fall back on the server's directory, or need no memory
  {"capture_assessment", "answer_question", "assess_change", "horizon_scan",
   "review_structure", "check_revisit_triggers", "scan_repository"}
Tools == PureTools \cup RootedTools \cup RootlessTools

Call(tool, root, accepted) ==
  [kind |-> "call", tool |-> tool, root |-> root, accepted |-> accepted]
ReviewCall == Call("review_usage", "given", TRUE)

ASSUME McpAssumption ==
  /\ Keys \subseteq Nat /\ FirstMcpKey \in Nat
  /\ HookKey \in [Hooks -> {k \in Keys : k < FirstMcpKey}]
  /\ MaxTime \in Nat \ {0} /\ MaxSent \in Nat
  /\ Query.limit \in Nat /\ Query.until \in Nat

VARIABLES
  now,      \* the clock, which both kinds of process read
  log,      \* usage_events
  sent,     \* the lines written so far
  handled,  \* how many of them the server has taken
  alive,    \* the stdin loop has not thrown
  replies,  \* what it has written: [line, kind, worked]
  started,  \* started[h]: when h started, 0 before
  ended,    \* the hooks that have ended
  walk      \* the client's walk

vars == <<now, log, sent, handled, alive, replies, started, ended, walk>>

\* before and last are the log as the first and the latest page saw it.
Walk(state, offset, pages, before, last) ==
  [state |-> state, offset |-> offset, pages |-> pages, before |-> before,
   last |-> last]

Init ==
  /\ now = 1 /\ log = {} /\ sent = <<>> /\ handled = 0 /\ alive = TRUE
  /\ replies = <<>> /\ started = [h \in Hooks |-> 0] /\ ended = {}
  /\ walk = Walk("idle", 0, <<>>, {}, {})

Tick == now < MaxTime /\ now' = now + 1
        /\ UNCHANGED <<log, sent, handled, alive, replies, started, ended, walk>>

Send(line) ==
  /\ Len(sent) < MaxSent
  /\ sent' = Append(sent, line)
  /\ UNCHANGED <<now, log, handled, alive, replies, started, ended, walk>>

-----------------------------------------------------------------------------
\* invokeArchitectureTool.

\* Whether the tool's own function throws, which becomes a structured failure.
Works(call) ==
  /\ call.accepted /\ call.tool \in Tools /\ call.root # "not a record"
  /\ call.tool \in PureTools \/ call.root # "bad event"
  /\ call.tool \in RootedTools => call.root # "none"

\* readActiveProjectRoot throws on an event it cannot normalize; it runs
\* before the try block of recordMcpUsage.
LoggingThrows(call) == call.root = "bad event"
IsLogged(call) == call.root \in {"given", "event"}

Reply(kind, worked) == [line |-> handled + 1, kind |-> kind, worked |-> worked]

McpEvent(call, key) ==
  [at |-> now, key |-> key, session |-> Query.session,
   engagement |-> ClassifyMcp(call.tool, Works(call))]

\* The store may refuse the event; the call does not notice.
LogCall(call) ==
  \/ ~IsLogged(call) /\ log' = log
  \/ IsLogged(call) /\ log' = log
  \/ /\ IsLogged(call)
     /\ \E k \in Keys :
          /\ k >= FirstMcpKey
          /\ \A e \in log : e.key # k
          /\ log' = Insert(log, McpEvent(call, k))

\* Mutant: only calls that work are answered.
AnswerIfItWorks(line) ==
  replies' = IF line.kind = "call" /\ ~Works(line) THEN replies
             ELSE Append(replies, Reply("result", line.kind = "call"))

\* handleMcpJsonRpc: one response per request, none for the notification.
Answer(line) ==
  replies' =
    CASE line.kind = "notification" -> replies
      [] line.kind = "ping" -> Append(replies, Reply("result", FALSE))
      [] line.kind = "unknown" -> Append(replies, Reply("-32601", FALSE))
      [] line.kind = "nameless" -> Append(replies, Reply("-32602", FALSE))
      [] OTHER -> Append(replies,
           Reply(IF LoggingThrows(line) THEN "-32603" ELSE "result", Works(line)))

Serves == alive /\ handled < Len(sent)
Line == sent[handled + 1]

SkipBlank ==
  /\ Serves /\ Line.kind = "blank"
  /\ handled' = handled + 1
  /\ UNCHANGED <<now, log, sent, alive, replies, started, ended, walk>>

\* Outside every try block JSON.parse throws on what is not JSON, and
\* handleMcpJsonRpc on null, whose id it reads first.
FatalKinds == {"garbage", "null"}

\* What throws there ends the loop, and with it the server.
LoopThrows ==
  /\ Serves /\ Line.kind \in FatalKinds
  /\ alive' = FALSE /\ handled' = handled + 1
  /\ UNCHANGED <<now, log, sent, replies, started, ended, walk>>

HandleRequest ==
  /\ Serves /\ Line.kind \notin FatalKinds \cup {"blank"}
  /\ handled' = handled + 1
  /\ Answer(Line)
  /\ IF Line.kind = "call" THEN LogCall(Line) ELSE UNCHANGED log
  /\ UNCHANGED <<now, sent, alive, started, ended, walk>>

\* The walk's next call: the page is read, the reply written, and the call
\* itself is logged.  Its lines are served like any other, when the host has
\* nothing else in the pipe.
ReviewPage ==
  /\ alive /\ handled = Len(sent)
  /\ walk.state \in {"idle", "walking"}
  /\ LET page == Page(log, Query, walk.offset)
     IN walk' = Walk(IF page.more THEN "walking" ELSE "done", page.next,
                     Append(walk.pages, page.events),
                     IF walk.state = "idle" THEN log ELSE walk.before, log)
  /\ LogCall(ReviewCall)
  /\ UNCHANGED <<now, sent, handled, alive, replies, started, ended>>

-----------------------------------------------------------------------------
\* Hook processes.

StartHook(h) ==
  /\ started[h] = 0
  /\ started' = [started EXCEPT ![h] = now]
  /\ UNCHANGED <<now, log, sent, handled, alive, replies, ended, walk>>

\* finalizeResponse: the event carries the time the hook started; a store
\* that throws is ignored.
EndHook(h) ==
  /\ started[h] # 0 /\ h \notin ended
  /\ ended' = ended \cup {h}
  /\ \/ log' = log
     \/ \E relevant, degraded \in BOOLEAN :
          log' = Insert(log,
            [at |-> started[h], key |-> HookKey[h], session |-> Query.session,
             engagement |-> ClassifyHook("silence", relevant, TRUE, degraded)])
  /\ UNCHANGED <<now, sent, handled, alive, replies, started, walk>>

Serve == SkipBlank \/ LoopThrows \/ HandleRequest

Next ==
  \/ Tick \/ Serve \/ ReviewPage
  \/ \E line \in Lines : Send(line)
  \/ \E h \in Hooks : StartHook(h) \/ EndHook(h)

\* The server reads on while it lives.
Spec == Init /\ [][Next]_vars /\ WF_vars(Serve)

-----------------------------------------------------------------------------
Shown == UNION {walk.pages[i] : i \in 1..Len(walk.pages)}
\* The log knows an event by its id.
IsShown(e) == \E f \in Shown : f.at = e.at /\ f.key = e.key

TypeOK ==
  /\ now \in 1..MaxTime
  /\ \A e, f \in log : e.at = f.at /\ e.key = f.key => e = f
  /\ \A e \in log : e.at <= now /\ e.key \in Keys
  /\ handled \in 0..Len(sent)
  /\ walk.state \in {"idle", "walking", "done"}

\* A finished walk has shown every event the log held when it began, and of
\* those recorded up to its last page every one but those that sort before an
\* event the walk had already shown.
WalkOmitsNothing ==
  walk.state = "done" =>
    \A e \in Selected(walk.last, Query) :
      \/ IsShown(e)
      \/ /\ \A b \in walk.before : <<b.at, b.key>> # <<e.at, e.key>>
         /\ \E f \in Shown : SortsBefore(e, f)

\* An event is shown twice only if, between two pages, one was recorded whose
\* time lies before what the walk had shown: a hook that had started earlier,
\* or a call of the same instant.
WalkRepeatsOnlyAfterBackdating ==
  \A i, j \in DOMAIN walk.pages :
    (i < j /\ \E e \in walk.pages[i] : \E f \in walk.pages[j] :
                 e.at = f.at /\ e.key = f.key)
      => \E e \in log \ walk.before : \E f \in walk.pages[i] : SortsBefore(e, f)

\* A request that no line which ends the loop came before gets its one reply,
\* whatever is written after it.
IsRequest(i) == sent[i].kind \notin FatalKinds \cup {"blank", "notification"}
ReachesTheServer(i) == \A j \in 1..(i - 1) : sent[j].kind \notin FatalKinds
RepliesTo(i) == {r \in DOMAIN replies : replies[r].line = i}
RequestsAreAnswered ==
  \A i \in 1..MaxSent :
    (i <= Len(sent) /\ IsRequest(i) /\ ReachesTheServer(i))
      ~> [](Cardinality(RepliesTo(i)) = 1)

\* The replies are to the requests among the lines taken so far, one to each
\* and in the order in which they were written.
RepliesFollowRequests ==
  /\ \A r \in DOMAIN replies : replies[r].line \in 1..handled /\ IsRequest(replies[r].line)
  /\ \A i \in 1..handled : IsRequest(i) => RepliesTo(i) # {}
  /\ \A q, r \in DOMAIN replies : q < r => replies[q].line < replies[r].line

\* Usage logging must never alter MCP tool behavior: a call whose tool has done
\* its work is answered with a result.
LoggingNeverAltersTheReply ==
  \A r \in DOMAIN replies : replies[r].worked => replies[r].kind = "result"
=============================================================================
