----------------------- MODULE LifecycleHooks_proofs -----------------------
(***************************************************************************)
(* Proofs about HookPolicy and LifecycleHooks, for any questions, any      *)
(* situations and any events the host may send malformed.                  *)
(***************************************************************************)
EXTENDS LifecycleHooks, TLAPS

-----------------------------------------------------------------------------
(***************************************************************************)
(* The policy.                                                             *)
(***************************************************************************)

\* The handler the hosts share answers with an effect a host knows.
LEMMA SharedEffectType ==
  ASSUME NEW e \in EventType, NEW m \in Modes, NEW s \in SituationType,
         NEW c \in Contexts
  PROVE  SharedEffect(e, m, s, c) \in Effects
BY DEF SharedEffect, Diagnostic, SessionEffect, StopEffect, EffectForAssessment,
       FollowUpEffect, Effects, Modes, Contexts, EventType, SituationType

\* What a Codex event is handled as is an event too.
LEMMA MappedEvent ==
  ASSUME NEW e \in EventType
  PROVE  /\ [e EXCEPT !.kind = MappedKind(e.kind)] \in EventType
         /\ e.kind = "Stop" => [e EXCEPT !.kind = MappedKind(e.kind)] = e
BY DEF EventType, MappedKind, ClaudeKinds, CodexKinds

\* A hook answers with an effect its host knows.
LEMMA EffectType ==
  ASSUME NEW h, NEW e \in EventType, NEW m \in Modes, NEW s \in SituationType,
         NEW c \in Contexts
  PROVE  Effect(h, e, m, s, c) \in Effects
BY SharedEffectType, MappedEvent DEF Effect, CodexEffect, Effects

\* In advisory mode the shared handler does not block, come what may.
LEMMA SharedAdvisory ==
  ASSUME NEW e, NEW s, NEW c \in Contexts
  PROVE  SharedEffect(e, "advisory", s, c) # "block"
BY DEF SharedEffect, Diagnostic, SessionEffect, StopEffect, StopGate,
       EffectForAssessment, FollowUpEffect, Contexts

\* In advisory mode no hook of either host does.
LEMMA EffectAdvisory ==
  ASSUME NEW h, NEW e, NEW s, NEW c \in Contexts
  PROVE  Effect(h, e, "advisory", s, c) # "block"
BY SharedAdvisory DEF Effect, CodexEffect

\* What balanced mode blocks at a Stop, strict mode blocks.
LEMMA BalancedGateIsStrict ==
  ASSUME NEW s \in SituationType, BlocksBalanced(s)
  PROVE  BlocksStrict(s)
BY DEF BlocksBalanced, BlocksStrict, Actionable

\* The parts of the handler are ordered by mode.
LEMMA PartsAreOrdered ==
  ASSUME NEW m \in Modes, NEW n \in Stricter(m), NEW s \in SituationType
  PROVE  /\ Diagnostic(m) \in NoStrongerThan(Diagnostic(n))
         /\ StopEffect(m, s) \in NoStrongerThan(StopEffect(n, s))
         /\ EffectForAssessment(s.intervention, m)
              \in NoStrongerThan(EffectForAssessment(s.intervention, n))
<1>1. \/ m = "advisory" /\ n = "balanced"
      \/ m = "advisory" /\ n = "strict"
      \/ m = "balanced" /\ n = "strict"
  BY DEF Modes, Stricter
<1>2. Diagnostic(m) \in NoStrongerThan(Diagnostic(n))
  BY <1>1 DEF Diagnostic, NoStrongerThan, Effects
<1>3. StopEffect(m, s) \in NoStrongerThan(StopEffect(n, s))
  BY <1>1, BalancedGateIsStrict DEF StopEffect, StopGate, NoStrongerThan, Effects
<1>4. EffectForAssessment(s.intervention, m)
        \in NoStrongerThan(EffectForAssessment(s.intervention, n))
  BY <1>1 DEF EffectForAssessment, NoStrongerThan, Effects
<1>. QED
  BY <1>2, <1>3, <1>4

LEMMA SharedIsOrdered ==
  ASSUME NEW e \in EventType, NEW m \in Modes, NEW n \in Stricter(m),
         NEW s \in SituationType, NEW c \in Contexts
  PROVE  SharedEffect(e, m, s, c) \in NoStrongerThan(SharedEffect(e, n, s, c))
<1>1. \A x \in {"none", "inject", "failed"} : x \in NoStrongerThan(x)
  BY DEF NoStrongerThan
<1>2. FollowUpEffect(e, m, c) \in NoStrongerThan(FollowUpEffect(e, n, c))
  BY <1>1, PartsAreOrdered DEF FollowUpEffect, Contexts
<1>3. SessionEffect(c) \in NoStrongerThan(SessionEffect(c))
  BY <1>1 DEF SessionEffect, Contexts
<1>4. CASE e.malformed
  BY <1>4, PartsAreOrdered DEF SharedEffect
<1>5. CASE ~e.malformed /\ e.kind = "Stop" /\ GuardActive(e)
  BY <1>1, <1>5 DEF SharedEffect
<1>6. CASE ~e.malformed /\ e.kind = "SessionStart"
  BY <1>3, <1>6 DEF SharedEffect
<1>7. CASE ~e.malformed /\ ~(e.kind = "Stop" /\ GuardActive(e)) /\ e.kind # "SessionStart"
  <2>1. CASE s.fails
    BY <1>7, <2>1, PartsAreOrdered DEF SharedEffect
  <2>2. CASE ~s.fails /\ e.kind = "Stop"
    BY <1>7, <2>2, PartsAreOrdered DEF SharedEffect
  <2>3. CASE ~s.fails /\ e.kind # "Stop" /\ ShouldSurface(s)
    BY <1>7, <2>3, PartsAreOrdered DEF SharedEffect
  <2>4. CASE ~s.fails /\ e.kind # "Stop" /\ ~ShouldSurface(s)
    BY <1>2, <1>7, <2>4 DEF SharedEffect
  <2>. QED
    BY <2>1, <2>2, <2>3, <2>4
<1>. QED
  BY <1>4, <1>5, <1>6, <1>7

\* For every event, situation and context, on both hosts, a stricter mode has
\* an effect at least as strong.
THEOREM EffectsAreOrdered ==
  ASSUME NEW h, NEW e \in EventType, NEW m \in Modes, NEW n \in Stricter(m),
         NEW s \in SituationType, NEW c \in Contexts
  PROVE  Effect(h, e, m, s, c) \in NoStrongerThan(Effect(h, e, n, s, c))
<1>1. \A x \in {"none", "failed"} : x \in NoStrongerThan(x)
  BY DEF NoStrongerThan
<1>2. CASE h = "codex"
  <2>1. CASE e.malformed
    BY <1>1, <1>2, <2>1 DEF Effect, CodexEffect
  <2>2. CASE ~e.malformed /\ e.kind = "PostToolUse"
    BY <1>1, <1>2, <2>2 DEF Effect, CodexEffect
  <2>3. CASE ~e.malformed /\ e.kind # "PostToolUse"
    BY <1>2, <2>3, MappedEvent, SharedIsOrdered DEF Effect, CodexEffect
  <2>. QED
    BY <2>1, <2>2, <2>3
<1>3. CASE h # "codex"
  BY <1>3, SharedIsOrdered DEF Effect
<1>. QED
  BY <1>2, <1>3

-----------------------------------------------------------------------------
(***************************************************************************)
(* The session.                                                            *)
(***************************************************************************)

\* The last response is the one the policy gives to the last event.
LastIsPolicy ==
  phase # "new" =>
    last.effect = Effect(host, last.event, mode, last.situation, last.context)

\* The host's flag says whether a Stop of this turn was blocked.
FlagIsKept ==
  /\ continuing => blocks > 0
  /\ phase = "working" /\ blocks > 0 => continuing

IInv == TypeOK /\ LastIsPolicy /\ FlagIsKept /\ GateIsPassedKnowingly

\* An event the host sends is an event.
LEMMA EventIsEvent ==
  ASSUME NEW kind \in ClaudeKinds \cup CodexKinds, NEW m \in MalformedOrNot(kind),
         NEW active \in BOOLEAN, NEW relevant \in BOOLEAN
  PROVE  /\ Event(kind, m, active, relevant) \in EventType
         /\ Event(kind, m, active, relevant).kind = kind
         /\ Event(kind, m, active, relevant).malformed = m
         /\ Event(kind, m, active, relevant).stopHookActive = active
BY DEF Event, EventType, MalformedOrNot

\* What handling an event leaves behind.
LEMMA Handled ==
  ASSUME TypeOK, NEW e \in EventType, NEW s \in Situations, Handle(e, s)
  PROVE  /\ last' \in [event : EventType, situation : Situations,
                       context : Contexts, effect : Effects]
         /\ last'.event = e /\ last'.situation = s
         /\ last'.effect = Effect(host, e, mode, s, context)
         /\ last'.effect = Effect(host, last'.event, mode, last'.situation, last'.context)
<1>1. s \in SituationType
  BY SituationsAssumption
<1>2. Effect(host, e, mode, s, context) \in Effects
  BY <1>1, EffectType DEF TypeOK
<1>3. last' = [event |-> e, situation |-> s, context |-> context,
               effect |-> Effect(host, e, mode, s, context)]
  BY DEF Handle
<1>. QED
  BY <1>2, <1>3 DEF TypeOK

\* An event of each kind, handled.
LEMMA HandledEvent ==
  ASSUME TypeOK, NEW kind \in ClaudeKinds \cup CodexKinds,
         NEW m \in MalformedOrNot(kind), NEW active \in BOOLEAN,
         NEW relevant \in BOOLEAN, NEW s \in Situations,
         Handle(Event(kind, m, active, relevant), s)
  PROVE  /\ last' \in [event : EventType, situation : Situations,
                       context : Contexts, effect : Effects]
         /\ last'.event.kind = kind
         /\ last'.event.stopHookActive = active
         /\ last'.effect = Effect(host, last'.event, mode, last'.situation, last'.context)
<1> DEFINE e == Event(kind, m, active, relevant)
<1>1. e \in EventType /\ e.kind = kind /\ e.stopHookActive = active
  BY EventIsEvent
<1>2. Handle(e, s)
  OBVIOUS
<1>. HIDE DEF e
<1>. QED
  BY <1>1, <1>2, Handled

\* Every step that handles an event leaves the policy's response to it, and
\* only AttemptStop handles a Stop.
LEMMA StepsHandle ==
  ASSUME TypeOK, Next
  PROVE  \/ /\ UNCHANGED last
            /\ Answer \/ ChangeContext
         \/ /\ last' \in [event : EventType, situation : Situations,
                          context : Contexts, effect : Effects]
            /\ last'.effect = Effect(host, last'.event, mode, last'.situation,
                                     last'.context)
            /\ AttemptStop \/ last'.event.kind # "Stop"
<1>1. situation \in Situations /\ continuing \in BOOLEAN
  BY DEF TypeOK
<1>2. CASE StartSession
  <2>1. PICK m \in MalformedOrNot("SessionStart") :
          Handle(Event("SessionStart", m, FALSE, FALSE), situation)
    BY <1>2 DEF StartSession
  <2>2. "SessionStart" \in ClaudeKinds \cup CodexKinds
    BY DEF ClaudeKinds
  <2>. QED
    BY <1>1, <2>1, <2>2, HandledEvent
<1>3. CASE Prompt
  <2>1. PICK m \in MalformedOrNot("UserPromptSubmit"), r \in BOOLEAN :
          Handle(Event("UserPromptSubmit", m, FALSE, r), situation)
    BY <1>3 DEF Prompt
  <2>2. "UserPromptSubmit" \in ClaudeKinds \cup CodexKinds
    BY DEF ClaudeKinds
  <2>. QED
    BY <1>1, <2>1, <2>2, HandledEvent
<1>4. CASE UseCodexTool
  <2>1. PICK kind \in {"PreToolUse", "PermissionRequest", "PostToolUse"} :
          \E m \in MalformedOrNot(kind) : Handle(Event(kind, m, FALSE, FALSE), situation)
    BY <1>4 DEF UseCodexTool
  <2>2. PICK m \in MalformedOrNot(kind) : Handle(Event(kind, m, FALSE, FALSE), situation)
    BY <2>1
  <2>3. kind \in ClaudeKinds \cup CodexKinds /\ kind # "Stop"
    BY <2>1 DEF CodexKinds
  <2>. QED
    BY <1>1, <2>2, <2>3, HandledEvent
<1>5. CASE UseClaudeTools
  <2>1. PICK m \in MalformedOrNot("PostToolBatch") :
          Handle(Event("PostToolBatch", m, FALSE, FALSE), situation')
    BY <1>5 DEF UseClaudeTools
  <2>2. situation' \in Situations
    BY <1>5 DEF UseClaudeTools
  <2>3. "PostToolBatch" \in ClaudeKinds \cup CodexKinds
    BY DEF ClaudeKinds
  <2>. QED
    BY <2>1, <2>2, <2>3, HandledEvent
<1>6. CASE AttemptStop
  <2>1. PICK m \in MalformedOrNot("Stop") :
          Handle(Event("Stop", m, continuing, FALSE), situation)
    BY <1>6 DEF AttemptStop
  <2>2. "Stop" \in ClaudeKinds \cup CodexKinds
    BY DEF ClaudeKinds
  <2>. QED
    BY <1>1, <1>6, <2>1, <2>2, HandledEvent
<1>7. CASE Answer \/ ChangeContext
  BY <1>7 DEF Answer, ChangeContext
<1>. QED
  BY <1>2, <1>3, <1>4, <1>5, <1>6, <1>7 DEF Next

LEMMA TypeOKStep ==
  ASSUME TypeOK, [Next]_vars
  PROVE  TypeOK'
<1>. USE DEF TypeOK
<1>1. CASE UNCHANGED vars
  BY <1>1 DEF vars
<1>2. CASE Next
  <2>0. last' \in [event : EventType, situation : Situations,
                   context : Contexts, effect : Effects]
    <3>1. last \in [event : EventType, situation : Situations,
                    context : Contexts, effect : Effects]
      OBVIOUS
    <3>. QED
      BY <1>2, <3>1, StepsHandle
  <2>1. CASE StartSession
    BY <2>0, <2>1 DEF StartSession
  <2>2. CASE Prompt
    <3>1. /\ phase' = IF last'.effect = "block" THEN "ready" ELSE "working"
          /\ continuing' = FALSE
          /\ blocks' = 0
          /\ UNCHANGED <<host, mode, situation, context, answered>>
      BY <2>2 DEF Prompt
    <3>2. phase' \in {"new", "ready", "working"}
      BY <3>1
    <3>3. blocks' \in 0..MaxBlocks
      BY <3>1, SituationsAssumption
    <3>. QED
      BY <2>0, <3>1, <3>2, <3>3
  <2>3. CASE UseCodexTool
    BY <2>0, <2>3 DEF UseCodexTool
  <2>4. CASE UseClaudeTools
    BY <2>0, <2>4 DEF UseClaudeTools
  <2>5. CASE AttemptStop
    <3>1. /\ phase' \in {"ready", "working"} /\ continuing' \in BOOLEAN
          /\ blocks' = blocks + 1 \/ blocks' = blocks
          /\ UNCHANGED <<host, mode, situation, context, answered>>
          /\ blocks < MaxBlocks
      BY <2>5 DEF AttemptStop
    <3>2. blocks' \in 0..MaxBlocks
      BY <3>1, SituationsAssumption
    <3>. QED
      BY <2>0, <3>1, <3>2
  <2>6. CASE Answer
    <3>1. situation.questions \subseteq Questions
      BY SituationsAssumption DEF SituationType
    <3>. QED
      BY <2>0, <2>6, <3>1 DEF Answer
  <2>7. CASE ChangeContext
    BY <2>0, <2>7 DEF ChangeContext
  <2>. QED
    BY <1>2, <2>1, <2>2, <2>3, <2>4, <2>5, <2>6, <2>7 DEF Next
<1>. QED
  BY <1>1, <1>2

LEMMA LastIsPolicyStep ==
  ASSUME TypeOK, LastIsPolicy, [Next]_vars
  PROVE  LastIsPolicy'
<1>1. host' = host /\ mode' = mode
  BY DEF Next, vars, StartSession, Prompt, UseCodexTool, UseClaudeTools,
         AttemptStop, Answer, ChangeContext
<1>2. CASE UNCHANGED vars \/ Answer \/ ChangeContext
  BY <1>2 DEF LastIsPolicy, vars, Answer, ChangeContext
<1>3. CASE Next /\ ~(Answer \/ ChangeContext)
  <2>1. last'.effect = Effect(host, last'.event, mode, last'.situation, last'.context)
    BY <1>3, StepsHandle
  <2>. QED
    BY <1>1, <2>1 DEF LastIsPolicy
<1>. QED
  BY <1>2, <1>3

LEMMA FlagIsKeptStep ==
  ASSUME TypeOK, FlagIsKept, [Next]_vars
  PROVE  FlagIsKept'
<1>0. blocks \in Nat
  BY DEF TypeOK
<1>1. CASE Prompt
  <2>1. continuing' = FALSE /\ blocks' = 0
    BY <1>1 DEF Prompt
  <2>. QED
    BY <2>1 DEF FlagIsKept
<1>2. CASE AttemptStop
  <2>1. CASE last'.effect = "block"
    <3>1. continuing' = TRUE /\ blocks' = blocks + 1
      BY <1>2, <2>1 DEF AttemptStop
    <3>. QED
      BY <1>0, <3>1 DEF FlagIsKept
  <2>2. CASE last'.effect # "block"
    <3>1. continuing' = FALSE /\ phase' = "ready"
      BY <1>2, <2>2 DEF AttemptStop
    <3>. QED
      BY <3>1 DEF FlagIsKept
  <2>. QED
    BY <2>1, <2>2
<1>3. CASE UNCHANGED <<phase, continuing, blocks>>
  BY <1>3 DEF FlagIsKept
<1>4. CASE StartSession
  <2>1. continuing' = continuing /\ blocks' = blocks /\ phase' = "ready"
    BY <1>4 DEF StartSession
  <2>. QED
    BY <2>1 DEF FlagIsKept
<1>. QED
  BY <1>1, <1>2, <1>3, <1>4 DEF Next, vars, UseCodexTool, UseClaudeTools, Answer,
     ChangeContext

\* Without a block the shared handler passes a Stop only if the guard is active,
\* the mode is advisory, or the gate lets it pass.
LEMMA StopPolicy ==
  ASSUME NEW h, NEW e \in EventType, NEW m \in Modes, NEW s \in SituationType,
         NEW c \in Contexts, e.kind = "Stop", ~s.fails,
         Effect(h, e, m, s, c) = "none"
  PROVE  \/ e.stopHookActive
         \/ m = "advisory"
         \/ m = "balanced" /\ ~BlocksBalanced(s)
         \/ m = "strict" /\ ~BlocksStrict(s)
<1>1. CASE e.malformed
  BY <1>1 DEF Effect, CodexEffect, SharedEffect, Diagnostic, Modes
<1>2. CASE ~e.malformed /\ ~GuardActive(e)
  <2>1. Effect(h, e, m, s, c) = SharedEffect(e, m, s, c)
    BY <1>2, MappedEvent DEF Effect, CodexEffect
  <2>2. SharedEffect(e, m, s, c) = StopEffect(m, s)
    BY <1>2 DEF SharedEffect
  <2>. QED
    BY <2>1, <2>2 DEF StopEffect, StopGate, Modes
<1>. QED
  BY <1>1, <1>2 DEF GuardActive

LEMMA GateStep ==
  ASSUME TypeOK, FlagIsKept, GateIsPassedKnowingly, [Next]_vars
  PROVE  GateIsPassedKnowingly'
<1>0. TypeOK'
  BY TypeOKStep
<1>1. CASE AttemptStop
  <2>1. PICK m \in MalformedOrNot("Stop") :
          Handle(Event("Stop", m, continuing, FALSE), situation)
    BY <1>1 DEF AttemptStop
  <2> DEFINE e == Event("Stop", m, continuing, FALSE)
  <2>2. /\ e \in EventType /\ e.kind = "Stop" /\ e.stopHookActive = continuing
        /\ situation \in Situations /\ situation \in SituationType
    <3>1. "Stop" \in ClaudeKinds \cup CodexKinds /\ continuing \in BOOLEAN
      BY DEF TypeOK, ClaudeKinds
    <3>2. situation \in Situations /\ situation \in SituationType
      BY SituationsAssumption DEF TypeOK
    <3>. QED
      BY <3>1, <3>2, EventIsEvent
  <2>3. /\ last'.situation = situation
        /\ last'.effect = Effect(host, e, mode, situation, context)
    BY <2>1, <2>2, Handled
  <2>4. mode' = mode /\ blocks' \in Nat /\ (last'.effect # "block" => blocks' = blocks)
    BY <1>0, <1>1 DEF AttemptStop, TypeOK
  <2>. SUFFICES ASSUME last'.effect = "none", ~situation.fails, ~continuing,
                       mode # "advisory"
                PROVE  /\ situation.questions \cap HighRisk = {}
                       /\ situation.intervention \notin {"block", "decision-required"}
                       /\ mode = "strict" =>
                            /\ situation.questions = {}
                            /\ situation.intervention \in {"silent", "note"}
    BY <2>3, <2>4 DEF GateIsPassedKnowingly, FlagIsKept
  <2>5. \/ mode = "balanced" /\ ~BlocksBalanced(situation)
        \/ mode = "strict" /\ ~BlocksStrict(situation)
    <3>1. mode \in Modes /\ context \in Contexts /\ ~e.stopHookActive
      BY <2>2 DEF TypeOK
    <3>. HIDE DEF e
    <3>. QED
      BY <2>2, <2>3, <3>1, StopPolicy
  <2>6. CASE mode = "balanced" /\ ~BlocksBalanced(situation)
    BY <2>6 DEF BlocksBalanced
  <2>7. CASE mode = "strict" /\ ~BlocksStrict(situation)
    BY <2>2, <2>7 DEF BlocksStrict, Actionable, SituationType, Interventions
  <2>. QED
    BY <2>5, <2>6, <2>7
<1>2. CASE UNCHANGED vars \/ Answer \/ ChangeContext
  BY <1>2 DEF GateIsPassedKnowingly, vars, Answer, ChangeContext
<1>3. CASE Next /\ ~(Answer \/ ChangeContext) /\ ~AttemptStop
  <2>2. last'.event.kind # "Stop"
    BY <1>3, StepsHandle
  <2>. QED
    BY <2>2 DEF GateIsPassedKnowingly
<1>. QED
  BY <1>1, <1>2, <1>3

-----------------------------------------------------------------------------
\* The invariant holds at the start, and every step keeps it.
THEOREM Invariance == Spec => []IInv
<1>1. Init => IInv
  <2>. SUFFICES ASSUME Init PROVE IInv
    OBVIOUS
  <2>1. Event("SessionStart", FALSE, FALSE, FALSE) \in EventType
    BY DEF Event, EventType, ClaudeKinds
  <2>2. last \in [event : EventType, situation : Situations, context : Contexts,
                  effect : Effects]
    BY <2>1 DEF Init, Effects
  <2>3. TypeOK
    <3>1. blocks \in 0..MaxBlocks
      BY SituationsAssumption DEF Init
    <3>2. /\ answered \subseteq Questions /\ continuing \in BOOLEAN
          /\ phase \in {"new", "ready", "working"}
      BY DEF Init
    <3>. QED
      BY <2>2, <3>1, <3>2 DEF Init, TypeOK
  <2>4. FlagIsKept /\ LastIsPolicy /\ GateIsPassedKnowingly
    BY DEF Init, FlagIsKept, LastIsPolicy, GateIsPassedKnowingly, Event
  <2>. QED
    BY <2>3, <2>4 DEF IInv
<1>2. IInv /\ [Next]_vars => IInv'
  BY TypeOKStep, LastIsPolicyStep, FlagIsKeptStep, GateStep DEF IInv
<1>. QED
  BY <1>1, <1>2, PTL DEF Spec

\* The session stays in the states of its host.
THEOREM TypeCorrect == Spec => []TypeOK
BY Invariance, PTL DEF IInv

\* Before the session starts no hook has answered.
Unanswered == phase = "new" => last.effect = "none"

\* In advisory mode no session is ever held up, whatever is found or fails.
THEOREM AdvisoryIsHarmless == Spec => []AdvisoryNeverBlocks
<1>1. IInv /\ Unanswered => AdvisoryNeverBlocks
  BY EffectAdvisory DEF IInv, TypeOK, LastIsPolicy, Unanswered, AdvisoryNeverBlocks
<1>2. Init => Unanswered
  BY DEF Init, Unanswered
<1>3. Unanswered /\ [Next]_vars => Unanswered'
  BY DEF Unanswered, Next, vars, StartSession, Prompt, UseCodexTool, UseClaudeTools,
         AttemptStop, Answer, ChangeContext
<1>. QED
  BY <1>1, <1>2, <1>3, Invariance, PTL DEF Spec

\* At every point of a session a stricter mode would have been as strict.
THEOREM SessionsAreOrdered == Spec => []ModesAreOrdered
<1>1. IInv => ModesAreOrdered
  <2>. SUFFICES ASSUME IInv, phase # "new", NEW n \in Stricter(mode)
                PROVE  last.effect \in NoStrongerThan(
                         Effect(host, last.event, n, last.situation, last.context))
    BY DEF ModesAreOrdered
  <2>1. /\ mode \in Modes /\ last.event \in EventType
        /\ last.situation \in SituationType /\ last.context \in Contexts
    BY SituationsAssumption DEF IInv, TypeOK
  <2>2. last.effect = Effect(host, last.event, mode, last.situation, last.context)
    BY DEF IInv, LastIsPolicy
  <2>. QED
    BY <2>1, <2>2, EffectsAreOrdered
<1>. QED
  BY <1>1, Invariance, PTL

\* No turn ends over what the mode is meant to stop without having been held up.
THEOREM GateHolds == Spec => []GateIsPassedKnowingly
BY Invariance, PTL DEF IInv

\* If the host never sends a Stop without a cwd, a turn is held up once at most.
THEOREM LoopGuardHolds ==
  ASSUME "Stop" \notin MayBeMalformed
  PROVE  Spec => []BlockedOncePerTurn
<1>1. Init => BlockedOncePerTurn
  BY DEF Init, BlockedOncePerTurn
<1>2. IInv /\ BlockedOncePerTurn /\ [Next]_vars => BlockedOncePerTurn'
  <2>. SUFFICES ASSUME IInv, BlockedOncePerTurn, [Next]_vars
                PROVE  BlockedOncePerTurn'
    OBVIOUS
  <2>1. TypeOK /\ FlagIsKept /\ blocks \in Nat
    BY DEF IInv, TypeOK
  <2>2. CASE Prompt
    <3>1. blocks' = 0
      BY <2>2 DEF Prompt
    <3>. QED
      BY <3>1 DEF BlockedOncePerTurn
  <2>3. CASE AttemptStop
    <3>1. CASE continuing
      <4>1. PICK m \in MalformedOrNot("Stop") :
              Handle(Event("Stop", m, continuing, FALSE), situation)
        BY <2>3 DEF AttemptStop
      <4> DEFINE e == Event("Stop", m, continuing, FALSE)
      <4>2. ~e.malformed /\ e.kind = "Stop" /\ GuardActive(e)
        BY <3>1 DEF Event, MalformedOrNot, GuardActive
      <4>3. MappedKind(e.kind) = e.kind /\ [e EXCEPT !.kind = e.kind] = e
        BY <4>2 DEF MappedKind, Event
      <4>4. last'.effect = Effect(host, e, mode, situation, context)
        BY <4>1 DEF Handle
      <4>. HIDE DEF e
      <4>5. Effect(host, e, mode, situation, context) = "none"
        BY <4>2, <4>3 DEF Effect, CodexEffect, SharedEffect
      <4>6. blocks' = blocks
        BY <2>3, <4>4, <4>5 DEF AttemptStop
      <4>. QED
        BY <4>6 DEF BlockedOncePerTurn
    <3>2. CASE ~continuing
      <4>1. blocks = 0
        BY <2>1, <2>3, <3>2 DEF AttemptStop, FlagIsKept
      <4>2. blocks' = blocks \/ blocks' = blocks + 1
        BY <2>3 DEF AttemptStop
      <4>. QED
        BY <4>1, <4>2 DEF BlockedOncePerTurn
    <3>. QED
      BY <3>1, <3>2
  <2>4. CASE UNCHANGED blocks
    BY <2>4 DEF BlockedOncePerTurn
  <2>. QED
    BY <2>2, <2>3, <2>4 DEF Next, vars, StartSession, UseCodexTool, UseClaudeTools,
       Answer, ChangeContext
<1>. QED
  BY <1>1, <1>2, Invariance, PTL DEF Spec
=============================================================================
