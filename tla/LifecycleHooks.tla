--------------------------- MODULE LifecycleHooks ---------------------------
(***************************************************************************)
(* A session of a coding host, Claude Code or Codex, with the lifecycle    *)
(* hooks of Tech Lead installed.  The user sends a prompt, which a hook    *)
(* may block; the agent uses tools, which change the repository, and tries *)
(* to end its turn; a blocked Stop makes it go on, and the host then tells *)
(* the hooks so (stop_hook_active) until the turn ends.  Meanwhile the     *)
(* user may answer the questions that are open.                            *)
(*                                                                         *)
(* The hooks are one process per event and keep nothing: each event is one *)
(* step.  The host is external, modelled by what the hooks take from it.   *)
(***************************************************************************)
EXTENDS HookPolicy, Naturals

CONSTANTS
  Hosts,            \* a subset of {"claude", "codex"}
  Situations,       \* what assessments of the repository may find
  MayBeMalformed,   \* kinds of events the host may send without a cwd
  MaxBlocks         \* bound: Stops blocked in one turn

ASSUME SituationsAssumption ==
  /\ Hosts \subseteq {"claude", "codex"}
  /\ Situations \subseteq SituationType
  /\ MaxBlocks \in Nat

VARIABLES
  host, mode,  \* fixed for the session
  phase,       \* "new", "ready" for a prompt, or "working" on one
  situation,   \* what an assessment of the repository would find now
  context,     \* the saved project context
  answered,    \* questions the user has answered or skipped, in the database
  continuing,  \* stop_hook_active: the agent goes on because of a Stop hook
  blocks,      \* Stops blocked in the current, or last, turn
  last         \* the last event, with what was found, and its effect

vars == <<host, mode, phase, situation, context, answered, continuing, blocks, last>>

Event(kind, malformed, active, relevant) ==
  [kind |-> kind, malformed |-> malformed, stopHookActive |-> active,
   relevant |-> relevant]

\* The event handled now, and what is left of it for the properties.
Handle(e, s) ==
  last' = [event |-> e, situation |-> s, context |-> context,
           effect |-> Effect(host, e, mode, s, context)]

MalformedOrNot(kind) == {FALSE} \cup {b \in {TRUE} : kind \in MayBeMalformed}

Init ==
  /\ host \in Hosts
  /\ mode \in Modes
  /\ phase = "new"
  /\ situation \in Situations
  /\ context \in Contexts
  /\ answered = {}
  /\ continuing = FALSE
  /\ blocks = 0
  /\ last = [event |-> Event("SessionStart", FALSE, FALSE, FALSE),
             situation |-> situation, context |-> context, effect |-> "none"]

StartSession ==
  /\ phase = "new"
  /\ \E m \in MalformedOrNot("SessionStart") :
       Handle(Event("SessionStart", m, FALSE, FALSE), situation)
  /\ phase' = "ready"
  /\ UNCHANGED <<host, mode, situation, context, answered, continuing, blocks>>

\* A blocked prompt starts no turn.
Prompt ==
  /\ phase = "ready"
  /\ \E m \in MalformedOrNot("UserPromptSubmit"), relevant \in BOOLEAN :
       Handle(Event("UserPromptSubmit", m, FALSE, relevant), situation)
  /\ phase' = IF last'.effect = "block" THEN "ready" ELSE "working"
  /\ continuing' = FALSE
  /\ blocks' = 0
  /\ UNCHANGED <<host, mode, situation, context, answered>>

\* Codex asks before a tool runs, and is not answered after it.
UseCodexTool ==
  /\ host = "codex" /\ phase = "working"
  /\ \E kind \in {"PreToolUse", "PermissionRequest", "PostToolUse"} :
       \E m \in MalformedOrNot(kind) :
         Handle(Event(kind, m, FALSE, FALSE), situation)
  /\ situation' \in IF last'.effect = "block" THEN {situation} ELSE Situations
  /\ UNCHANGED <<host, mode, phase, context, answered, continuing, blocks>>

\* Claude Code reports a batch of tool calls once it has run.
UseClaudeTools ==
  /\ host = "claude" /\ phase = "working"
  /\ situation' \in Situations
  /\ \E m \in MalformedOrNot("PostToolBatch") :
       Handle(Event("PostToolBatch", m, FALSE, FALSE), situation')
  /\ UNCHANGED <<host, mode, phase, context, answered, continuing, blocks>>

AttemptStop ==
  /\ phase = "working"
  /\ blocks < MaxBlocks
  /\ \E m \in MalformedOrNot("Stop") :
       Handle(Event("Stop", m, continuing, FALSE), situation)
  /\ IF last'.effect = "block"
       THEN /\ phase' = "working"
            /\ continuing' = TRUE
            /\ blocks' = blocks + 1
       ELSE /\ phase' = "ready"
            /\ continuing' = FALSE
            /\ UNCHANGED blocks
  /\ UNCHANGED <<host, mode, situation, context, answered>>

\* The user answers a question the assessment asks, by the CLI or a tool.
Answer ==
  /\ \E q \in situation.questions \ answered : answered' = answered \cup {q}
  /\ UNCHANGED <<host, mode, phase, situation, context, continuing, blocks, last>>

\* Another process captures an assessment, or is in the middle of it.
ChangeContext ==
  /\ context' \in Contexts
  /\ UNCHANGED <<host, mode, phase, situation, answered, continuing, blocks, last>>

Next ==
  \/ StartSession \/ Prompt
  \/ UseCodexTool \/ UseClaudeTools
  \/ AttemptStop
  \/ Answer \/ ChangeContext

Spec == Init /\ [][Next]_vars

\* However many tools it uses, the agent tries again to end its turn.
FairSpec == Spec /\ WF_vars(AttemptStop)

-----------------------------------------------------------------------------
\* The session is in a state of the host, and hooks answer what hosts know.
TypeOK ==
  /\ host \in Hosts /\ mode \in Modes
  /\ phase \in {"new", "ready", "working"}
  /\ situation \in Situations
  /\ context \in Contexts
  /\ answered \subseteq Questions
  /\ continuing \in BOOLEAN
  /\ blocks \in 0..MaxBlocks
  /\ last \in [event : EventType, situation : Situations, context : Contexts,
               effect : Effects]

\* docs/spec-v1.md, "Advisory mode never blocks": no event does, failures of the
\* hook itself included.
AdvisoryNeverBlocks == mode = "advisory" => last.effect # "block"

\* A stricter mode never lets through what a more lenient one holds up: had the
\* user chosen a stricter mode, the last event would have had an effect at
\* least as strong.
ModesAreOrdered ==
  phase # "new" =>
    \A m \in Stricter(mode) :
      last.effect \in
        NoStrongerThan(Effect(host, last.event, m, last.situation, last.context))

\* The loop guard: the hooks hold a turn up once at most.
BlockedOncePerTurn == blocks <= 1

\* The completion gate: a turn ends over a high-risk finding, or in strict mode
\* over any recommendation or question, only if it was held up for something.
GateIsPassedKnowingly ==
  last.event.kind = "Stop" /\ last.effect = "none" /\ ~last.situation.fails
    /\ phase = "ready" =>
      \/ blocks > 0
      \/ mode = "advisory"
      \/ /\ last.situation.questions \cap HighRisk = {}
         /\ last.situation.intervention \notin {"block", "decision-required"}
         /\ mode = "strict" =>
              /\ last.situation.questions = {}
              /\ last.situation.intervention \in {"silent", "note"}

\* Whatever the hooks find and the agent does, every turn comes to its end.
TurnsEnd == (phase = "working") ~> (phase = "ready")

\* docs/spec-v1.md: in balanced mode Stop blocks "only high-risk unresolved
\* issues, including unanswered high-risk interview questions".
AnsweredDoesNotBlock ==
  [][mode = "balanced" /\ AttemptStop /\ last'.effect = "block" =>
       \/ situation.intervention \in {"block", "decision-required"}
       \/ (situation.questions \cap HighRisk) \ answered # {}]_vars
=============================================================================
