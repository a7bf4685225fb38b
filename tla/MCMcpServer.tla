---------------------------- MODULE MCMcpServer ----------------------------
\* A few lines of each kind, two hooks of one kind, a walk of one event a page.
EXTENDS McpServer

MCLines ==
  {[kind |-> k] : k \in {"blank", "notification", "garbage", "null"}} \cup
  {Call("capture_assessment", "event", TRUE), Call("get_memory", "none", TRUE)}

\* Everything a line can be, for the replies alone.
MCAllLines ==
  {[kind |-> k] : k \in {"blank", "notification", "ping", "unknown", "nameless", "garbage", "null"}}
    \cup {Call(t, r, TRUE) : t \in {"plan_interview", "get_memory", "assess_change",
                                    "query_assessment_graph", "no such tool"},
                             r \in RootForms}
    \cup {Call("assess_change", "event", FALSE)}

MCQuery == [session |-> "s", until |-> 3, limit |-> 1]
MCHooks == {"h1", "h2"}
MCHookKey == [h \in MCHooks |-> 0]

MCNoKey == [h \in {} |-> 0]
=============================================================================
