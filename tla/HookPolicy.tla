----------------------------- MODULE HookPolicy -----------------------------
(***************************************************************************)
(* What a lifecycle hook of Tech Lead answers its host: nothing, context   *)
(* to inject, or a block.  Pure functions of the event, the mode the user  *)
(* has chosen and what the hook finds in the repository; LifecycleHooks    *)
(* puts them into a session.                                               *)
(*                                                                         *)
(* Claude Code and Codex share one handler, which the Codex adapter calls  *)
(* with its own events renamed.  Left out: the texts, and the audit and    *)
(* usage rows, whose failures the handler swallows.                        *)
(***************************************************************************)
CONSTANTS
  Questions,  \* baseline questions an assessment may raise
  HighRisk    \* those about the concerns of highRiskConcerns

ASSUME HighRiskAssumption == HighRisk \subseteq Questions

Modes == {"advisory", "balanced", "strict"}
Effects == {"none", "inject", "block", "failed"}   \* failed: exit status 1, no output

ClaudeKinds == {"SessionStart", "UserPromptSubmit", "PostToolBatch", "Stop"}
CodexKinds == {"SessionStart", "UserPromptSubmit", "PreToolUse",
               "PermissionRequest", "PostToolUse", "Stop"}

Interventions == {"silent", "note", "recommend", "interview-required",
                  "decision-required", "block"}

(***************************************************************************)
(* What the hook finds: the assessment of the repository (its intervention *)
(* and questions; whether its action is Continue and no temporal evidence  *)
(* makes it worth a word; whether it has guidance, risk evidence or a      *)
(* reason of its own), or a failure to collect or assess.  The hooks pass  *)
(* no decision records, so there are no revisit alerts.                    *)
(***************************************************************************)
SituationType ==
  [intervention : Interventions, questions : SUBSET Questions,
   continues : BOOLEAN, notable : BOOLEAN, fails : BOOLEAN]

\* The saved project context: latest-assessment.md, or .archcoach/state.md.
\* "absent" includes an empty file; "unreadable" is one that exists and cannot
\* be read.
Contexts == {"absent", "present", "unreadable"}

\* An event, as the host sends it: without a cwd it is malformed.
EventType ==
  [kind : ClaudeKinds \cup CodexKinds, malformed : BOOLEAN,
   stopHookActive : BOOLEAN, relevant : BOOLEAN]

-----------------------------------------------------------------------------
(***************************************************************************)
(* evaluateUnsafeCompletionGate, for the one assessment the hook passes.   *)
(***************************************************************************)
Actionable(s) ==
  \/ s.intervention \in {"recommend", "interview-required", "decision-required", "block"}
  \/ s.questions # {}

BlocksBalanced(s) ==
  \/ s.intervention \in {"block", "decision-required"}
  \/ s.questions \cap HighRisk # {}

BlocksStrict(s) == Actionable(s)

\* Mutant: strict mode forgets the open questions.
StopGateNoQuestions(mode, s) ==
  CASE mode = "advisory" -> IF Actionable(s) THEN "note" ELSE "finish"
    [] mode = "balanced" -> IF BlocksBalanced(s) THEN "block" ELSE "finish"
    [] mode = "strict"   -> IF s.intervention \in {"recommend", "interview-required",
                                                   "decision-required", "block"}
                              THEN "block" ELSE "finish"

StopGate(mode, s) ==
  CASE mode = "advisory" -> IF Actionable(s) THEN "note" ELSE "finish"
    [] mode = "balanced" -> IF BlocksBalanced(s) THEN "block" ELSE "finish"
    [] mode = "strict"   -> IF BlocksStrict(s) THEN "block" ELSE "finish"

-----------------------------------------------------------------------------
\* Mutant: strict mode blocks only the interventions its own clause names.
EffectForAssessmentShort(intervention, mode) ==
  IF \/ mode = "balanced" /\ intervention \in {"block", "decision-required"}
     \/ mode = "strict" /\ intervention \in {"recommend", "interview-required",
                                             "decision-required"}
    THEN "block" ELSE "inject"

EffectForAssessment(intervention, mode) ==
  IF \/ mode = "balanced" /\ intervention \in {"block", "decision-required"}
     \/ mode = "strict" /\ intervention \in {"block", "recommend", "interview-required",
                                             "decision-required"}
    THEN "block" ELSE "inject"

ShouldSurface(s) ==
  /\ s.intervention # "silent"
  /\ ~s.continues
  /\ s.questions # {} \/ s.notable

\* Mutant: a diagnostic is shown in every mode, and blocks in all but one.
DiagnosticLoud(mode) == IF mode = "balanced" THEN "inject" ELSE "block"

\* diagnosticResponse
Diagnostic(mode) ==
  CASE mode = "advisory" -> "none"
    [] mode = "balanced" -> "inject"
    [] mode = "strict"   -> "block"

\* Mutant: the guard is not looked at.
GuardNever(e) == FALSE

\* isStopLoopGuardActive
GuardActive(e) == e.stopHookActive

(***************************************************************************)
(* The parts of handleClaudeHookEvent.                                     *)
(***************************************************************************)
\* Mutant: the outcome of the gate is handed on as it is.
StopEffectRaw(mode, s) == StopGate(mode, s)

StopEffect(mode, s) == IF StopGate(mode, s) = "block" THEN "block" ELSE "none"

SessionEffect(context) ==
  CASE context = "absent" -> "none"
    [] context = "present" -> "inject"
    [] context = "unreadable" -> "failed"

\* followUpEngagementResponse: a prompt about architecture is pointed to the
\* saved context; failing to read it counts as a failed assessment.
FollowUpEffect(e, mode, context) ==
  IF e.kind = "UserPromptSubmit" /\ e.relevant
    THEN CASE context = "absent" -> "none"
           [] context = "present" -> "inject"
           [] context = "unreadable" -> Diagnostic(mode)
    ELSE "none"

SharedEffect(e, mode, s, context) ==
  CASE e.malformed -> Diagnostic(mode)
    [] ~e.malformed /\ e.kind = "Stop" /\ GuardActive(e) -> "none"
    [] ~e.malformed /\ e.kind = "SessionStart" -> SessionEffect(context)
    [] OTHER ->
         CASE s.fails -> Diagnostic(mode)
           [] ~s.fails /\ e.kind = "Stop" -> StopEffect(mode, s)
           [] ~s.fails /\ e.kind # "Stop" /\ ShouldSurface(s) ->
                EffectForAssessment(s.intervention, mode)
           [] OTHER -> FollowUpEffect(e, mode, context)

\* handleCodexHookEvent: a malformed event is thrown back; PostToolUse is
\* ignored; the events around a tool call are handled as one tool batch.
MappedKind(kind) ==
  IF kind \in {"PreToolUse", "PermissionRequest"} THEN "PostToolBatch" ELSE kind

CodexEffect(e, mode, s, context) ==
  CASE e.malformed -> "failed"
    [] ~e.malformed /\ e.kind = "PostToolUse" -> "none"
    [] OTHER -> SharedEffect([e EXCEPT !.kind = MappedKind(e.kind)], mode, s, context)

Effect(host, e, mode, s, context) ==
  IF host = "codex" THEN CodexEffect(e, mode, s, context)
  ELSE SharedEffect(e, mode, s, context)

-----------------------------------------------------------------------------
\* Modes, from the most lenient to the strictest, and the order of effects.
Stricter(m) ==
  CASE m = "advisory" -> {"balanced", "strict"}
    [] m = "balanced" -> {"strict"}
    [] m = "strict" -> {}

NoStrongerThan(e) ==
  CASE e = "block" -> Effects
    [] e = "inject" -> {"none", "inject"}
    [] e = "none" -> {"none"}
    [] e = "failed" -> {"failed"}
=============================================================================
