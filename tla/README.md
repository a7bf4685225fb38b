# Tech Lead (tech-coach): TLA+ specifications and proofs

Tech Lead is an architecture coach for coding agents, written in TypeScript. It
looks at a repository, decides whether the agent should be told something, asks
the user the few questions the evidence cannot answer, remembers answers and
decisions, and speaks up at the lifecycle events of Claude Code and Codex. This
directory models the parts of it that keep state or decide over time, checks
them with TLC and proves the main results with TLAPS.

Paths below are relative to the repository root (`packages/...`).

## The system

| Part | Source | State | Operations | What makes it correct |
|---|---|---|---|---|
| Baseline interview and merge | `packages/kernel/src/baselineInterview.ts`, `baselineMerge.ts` | none | plan questions, apply answers | the limit is kept, certain facts are not asked about, first answers count |
| Durable store, capture and reports | `packages/persistence/src/{store,capture,artifacts,lifecycle}.ts` | `tech-lead.db` (runs, latest pointer, answers, decisions, artifact index), seven report files | capture, answer, decide | append-only, nothing recorded is lost, reports never run ahead, a successful command repairs them |
| Decision memory | `packages/kernel/src/memory.ts` | `.archcoach/memory.jsonl` | append, list, read | acknowledged decisions can be read back, ids are unique |
| Claude Code hooks | `packages/claude-hooks/src` | none of their own; the loop-guard flag is the host's | one call per lifecycle event | advisory never blocks, stricter modes are stricter, turns end |
| Codex hooks | `packages/codex-hooks/src` | as above | rename events, call the shared handler | as above |
| Completion gate | `packages/kernel/src/gates.ts`, `packages/claude-hooks/src/stopGate.ts` | none | finish, note or block a Stop | high-risk findings are not passed silently |
| Assessment graph | `packages/persistence/src/assessmentGraph.ts` | none; rebuilt for each call | query a page, get a node | paging shows every node once |
| MCP tools and server | `packages/mcp/src/tools.ts`, `mcp/server/index.ts` | the place in the input, the usage log | fourteen tools over a JSON-RPC loop | every request gets its one reply, logging never changes it |
| CLI | `packages/cli/src` | none | the commands of the store | – |
| Signal providers | `packages/signals/src/providerRunner.ts` | the loop's place, promises not settled, what is collected | run optional providers, in turn, with a timeout | failures are contained and visible, nothing late gets in |
| Signal collectors | the rest of `packages/signals/src`, `packages/persistence/src/repositorySignals.ts` | none | read files and git | – |
| Analysis | `packages/kernel/src/{normalize,telemetry,baseline,claims,complexity,policy,revisit,patterns,principles,assessment}.ts` | none; it reads the decision memory | evidence to facts, claims, questions, adequacy, one advice | advice is as firm as its evidence, the order of evidence does not matter |
| Specialist escalation | `packages/kernel/src/escalation.ts` | none | called from tests only | – |
| Usage events | `packages/kernel/src/usageEvents.ts`, table in `store.ts` | one table | record, review by pages, count | pages omit nothing they could show |
| Host adapters, evaluation, plugin, scripts | `packages/{adapters,evaluation,plugin}`, `scripts`, `bin`, `hooks` | none | packaging and tests | – |

How they interact. Several processes work on one repository and know nothing of
each other: the CLI, an MCP server per session, and one short-lived hook process
per event. They share the database and the files. `captureAssessment` reads the
latest run, the answers and the decisions, assesses the repository in memory,
saves a run and renders the reports; `applyPersistedAnswer` and
`confirmPersistedDecision` append one row and render the latest run again.
`architecture.record_decision` appends to `memory.jsonl`. The hooks assess the
repository anew at each event, read `latest-assessment.md` for context, and
answer the host by injecting text or blocking. An assessment itself is a pure
function: collectors and providers yield evidence, telemetry sorts it into
signals, the baseline and the claims are synthesized from them, and questions,
adequacy, revisit alerts and guidance lead to one action. Hooks and MCP calls leave
usage events in a table of the same database, which `review_usage` pages through.

What is hard about it. Reads are not in one transaction with the writes that
depend on them; seven files are rewritten one after the other without a lock;
steps fail between a commit and the rendering of it; processes are killed; two
processes append to one file; a blocked Stop brings the agent back and may be
blocked again; the mode is consulted in several places that must agree. A provider
answers after its timeout; usage events arrive with times of the past; the
confidence of one reading travels through seven functions before it colours an
advice, and evidence comes in whatever order collectors have.
`PROJECT.json` lists the hazards one by one, at their lines.

## The modules

| Module | Models | State and actions |
|---|---|---|
| `Interview` | `planBaselineInterviewQuestions`, `applyBaselineAnswers`, `applyPriorAnswers`, `filterOpenQuestions` | pure operators over sets of questions; an assessment's evidence says which questions are candidates |
| `AssessmentLedger` | what the store promises: an append-only ledger | `RecordRun`, `RecordAnswer`, `RecordDecision` |
| `AssessmentStore` | the three commands as concurrent processes (EXTENDS `Interview`, refines `AssessmentLedger`) | tables, files and each process's locals; one action per SQL statement, two per file |
| `ProjectMemory` | `ProjectMemoryStore` | the lines of the file, whether the last has its newline, each process's pending record |
| `HookPolicy` | event handling of both hosts, gate, modes, diagnostics | pure: `Effect(host, event, mode, situation, context)` |
| `LifecycleHooks` | a session of a host with the hooks installed (EXTENDS `HookPolicy`) | phase of the session, what the repository looks like, loop-guard flag, blocks in this turn |
| `AssessmentGraph` | `buildAssessmentGraph`, `queryAssessmentGraph`, first pages in results of commands, `loadPersistedGraph` | runs, answers and decisions as lists, the server's current call, the client's walk over the pages |
| `Subsequences` | `Array.prototype.filter`, external: the items at the places kept, in order | pure; `Telemetry` and what follows from it filter with it |
| `Telemetry` | `telemetry.ts`: signals of an event, families, validity of a bundle, bundle to evidence | pure |
| `ProviderRunner` | `runOptionalSignalProviders`, `withTimeout` (EXTENDS `Telemetry`) | the loop's place, the promise awaited and those still running, evidence, diagnostics, the bundle |
| `UsageLog` | `classifyUsageEvent`, `appendUsageEvent`, `reviewUsage` | pure: classification, insertion, selection, a page |
| `McpServer` | `runMcpServer`, `handleMcpJsonRpc`, `invokeArchitectureTool`, `recordMcpUsage`, hooks as writers of usage events (EXTENDS `UsageLog`) | lines sent, lines handled, replies, the log, hooks under way, the walk of one client |
| `Complexity` | `complexity.ts`: pressure, support, adequacy (EXTENDS `Telemetry`) | pure |
| `Baseline` | `baseline.ts`, `baselineConfidence.ts` (EXTENDS `Complexity`) | pure: evidence to drafts, facts and concerns |
| `Claims` | `claims.ts` (EXTENDS `Baseline`) | pure: evidence graph, rules, the claims they support and how sure each is |
| `Questions` | `baselineInterview.ts` from a baseline on (EXTENDS `Claims`) | pure; `Interview` is the same code seen by the store, with candidates given |
| `Guidance` | `principles.ts`, `patterns.ts` (EXTENDS `Questions`) | pure |
| `Policy` | `revisit.ts`, `policy.ts`, the debt part of `assessment.ts` (EXTENDS `Guidance`) | pure: alerts, debt, interaction context, the selected action |
| `Coaching` | `assessArchitecture` and the collecting loop, with a memory that grows (EXTENDS `Policy`) | the decision memory, the last assessment and what it was made of |
| `MC...` | instances for TLC | values of constants only |
| `..._proofs` | theorems of the module they are named after | – |
| `Places` | lemmas several of them cite: a member's place in a finite order, the places of a sequence, filters, rearrangements | – |

How the code corresponds.

* `AssessmentStore`. A process is in `pc[p]`: `Begin` opens the store and does the
  first read, `AppendAnswer`/`AppendDecision` the insert, `ReadAnswers` and
  `ReadDecisions` the two further reads (the pack is computed in memory in the
  same step as the last read), `SaveRun` the transaction of `store.saveRun`,
  `Truncate` and `Put` each `writeFileSync`, `Index` the rows of the artifact
  index, kept as one step because nothing reads them back. `Fail` is any of these
  steps throwing; which outcome the caller sees follows the `catch` of
  `captureAssessment` or its absence in the other two commands. `Crash` is the
  process being killed. A run id is the millisecond of its capture, as in
  `makeRunId`, so two captures may collide. An assessment is a choice from
  `Evidence`.
* `ProjectMemory`. `Start` is validation, reading and the search for the id;
  `StartUnread` the same with a failing read, which `append` takes for an empty
  file; `Write` and `WriteFails` the appending `writeFileSync`. A line carries the
  number of lines its writer had read, a history variable the properties use.
* `HookPolicy` and `LifecycleHooks`. Every hook is one process that runs to its
  end, so an event is one step. A situation is what an assessment may say:
  intervention, questions, whether it is worth a word, or a failure. The host is
  external and modelled by what the hooks take from it: a blocked prompt starts
  no turn, a blocked Stop continues it with `stop_hook_active` set until the turn
  ends.
* `AssessmentGraph`. A graph is a set of nodes with priorities and a set of pairs of
  ids, functions of the result of a command (`Result`) or of what
  `loadPersistedGraph` makes of the tables (`Saved`). `Capture`, `RecordAnswer` and
  `RecordDecision` are whole commands here, made with what their process may have
  read `Lag` records ago; whoever called gets the first page (`InitialPage`). `Ask`
  starts a walk by a query, `ReadRun`, `ReadAnswers` and `ReadDecisions` are the
  three reads of one call, the last of them with the page that is returned. What
  the client has been shown is a history variable.
* `ProviderRunner`. `Call` asks the next provider and waits, `Resolve` and `Reject`
  are its promise settling, `TimerFires` the race of `withTimeout`: the promise stays
  in `running` and may settle for nobody later. `Weigh` takes or skips one signal,
  `NextProvider` goes on, `Compose` makes the bundle and validates it. `heard` is a
  history variable: how each wait has ended.
* `McpServer`. `Send` is the host writing a line, `HandleRequest`, `SkipBlank` and
  `LoopThrows` the server taking one (a line that is not JSON, or is the JSON value
  `null`, throws outside every `try` and ends the loop). `ReviewPage` is the walk's next call of `review_usage`. A hook reads its
  clock in `StartHook` and stores its event, with that time, in `EndHook`.
* `Telemetry` to `Coaching`. A line of text is the set of the terms the kernel looks for
  in it. An item of evidence has one line, as summaries of the repository and of the tests
  and decisions do; the changed files of an event are one line each. A module is a stage of
  `assessArchitecture`, and `AssessmentOf` puts the stages together in the code's
  order. `AssessCollected` is one event with what any few collectors come back with, in any
  order: `assertValidTelemetryBundle` throws on a bundle with two signals of one id, and
  then nothing is assessed. `AssessSent` is one event with items the host sent along, which
  nothing validates (`Sent`). `AcceptDebt` and `RecordDecision` are the host recording what the assessment
  led to, `MoveOn` the host doing nothing about it.

## The runs

| Run | Instance | Shows |
|---|---|---|
| `store_concurrent` | 2 processes, 3 commands, 3 milliseconds, 2 fact questions, 2 reports, 1 failing step, 1 kill, symmetric processes | types, `InFlightIsBacked`, `ReportsShowOnlyStored`, `DurableIsStored`, refinement of the ledger |
| `store_solo` | 1 process, 4 commands, 4 kinds of evidence, questions of all three kinds, 3 reports, 1 failing step, 1 kill | `DurableRepairsReports`, `NotAskedAgain`, `OpenQuestionsAreCandidates` |
| `memory_faults` | 2 processes, 6 appends, 2 decisions and a malformed one, 2 faults, 1 kill | types, `LossIsBounded`, `DuplicatesOverlap`, `RecordsStand`, `BrokenForGood` |
| `memory_list` | 2 processes, 4 appends, no faults | `ListWorks` is violated |
| `hooks_session` | both hosts, three modes, 8 situations, all events but Stop possibly malformed | types, `AdvisoryNeverBlocks`, `ModesAreOrdered`, `BlockedOncePerTurn`, `GateIsPassedKnowingly`, `TurnsEnd` |
| `hooks_malformed` | as above, Stop possibly malformed | `BlockedOncePerTurn` is violated |
| `hooks_answered` | as above, nothing malformed | `AnsweredDoesNotBlock` is violated |
| `graph_walks` | 3 runs, 2 answers (one of them from before), 2 decisions, graphs of 14 to 22 nodes, pages of 10 and 8, one record of lag | types, `WalksOmitNothing`, `OnlyLatestIsRefused`, `PagesAreOfOneRun`, `CursorsPointAtNodes`, `EdgesJoinNodesOrLeadToRuns` |
| `providers_faults` | 3 providers with overlapping answers, each may answer, say nothing, throw, or be too slow | types, `EvidenceIsWhatWasAwaited`, `FailuresAreVisible`, `InvalidBundlesAreFlagged`, `RunnerReturns` |
| `mcp_usage` | pages of one event, 2 hooks, 2 lines of six kinds, 2 times, 4 keys | types, `WalkOmitsNothing`, `WalkRepeatsOnlyAfterBackdating`, `RequestsAreAnswered` |
| `mcp_logging` | one line of every kind | `LoggingNeverAltersTheReply` is violated |
| `coaching_advice` | 5 events (one brings a decision the host recalls), up to 3 of 13 collector outcomes, in any order, or one of 3 lists of items a host sends, one record (decision or debt) | types, `FirmAdviceIsCorroborated`, `FactsRestOnPresentEvidence`, `WeakEvidenceIsProvisional`, `ReopenedDebtIsRaised`, `OrderDoesNotMatter` |

Why the bounds are enough. Races of the store are between a read and a write of
one process and a write of another; two processes and three commands give every
order of a capture, an answer and a decision, and three milliseconds give equal,
adjacent and distinct run ids. Two reports are the least that can disagree, three
let a failure hit the first, a middle and the last one. `QuestionLimit` is 2 with
up to three candidates, so the limit cuts. A walk of the graph takes
two or three pages, so every record can come before, between and after the pages and
between the reads of one call; three runs give a decision a run that is neither shown
nor the one before. Six appends let two faults be followed
by further appends on the damaged line. `MaxBlocks` is 3 where the property says 1.
Three providers put a late answer before, during and after another one's turn, and
their answers share a source, a category and a text. A page of one event makes every
insertion fall before, on or after a cursor; two hooks can both be late. Three
collectors are what it takes for two strong sources and a contradiction, and for the
three lines of text a fact quotes, which four changed files exceed; the items a host sends
name a source twice, which those of collectors cannot; the collectors' items are chosen so that the policy
reaches each of its reasons to speak, except two no synthesized baseline reaches:
"over-structured" (contracted or operationalized support comes with high pressure
only) and "load-bearing" (each such concern has a pattern, which is chosen first).
Limits the code sets far above these instances (twelve nodes and ten citations of a
claim) are not modelled.
Where the state space ends because commands, appends or milliseconds are used up,
the configuration says `CHECK_DEADLOCK FALSE`; a session never stops, and there
deadlock is checked.

Fairness. Three properties need any. `TurnsEnd`: `WF_vars(AttemptStop)`, the agent, however
many tools it uses, tries again to end its turn. The model gives the agent no
fairness about the repository: it may look alarming at every attempt. The bound
`MaxBlocks` disables `AttemptStop` once it is reached, so it cannot be what ends
a turn; that it is never reached is `BlockedOncePerTurn`. No liveness is claimed
for the store or the memory: a command may fail at any step and nothing retries.
`RunnerReturns`: weak fairness of the loop's own steps and of its timer, which an event
loop grants; a provider owes nothing, and without `timeoutMs` nothing is claimed.
`RequestsAreAnswered`: weak fairness of the server taking the next line, and none of
the host or the hooks. It is claimed for a request that no line which ends the loop
came before; such a line after it takes nothing away.

### Where the code and its documentation disagree

* `ListWorks` (`memory_list`): two processes that append one id at once leave a
  file that `list()` refuses, for good (`BrokenForGood`).
* `BlockedOncePerTurn` (`hooks_malformed`): malformed input is answered before the
  loop guard is looked at, and blocks in strict mode.
* `AnsweredDoesNotBlock` (`hooks_answered`): the hooks assess without the stored
  answers, so a settled question still blocks.
* `LoggingNeverAltersTheReply` (`mcp_logging`): `recordMcpUsage` reads the project root
  before its `try` begins, and reading it throws on an event that does not normalize. A
  tool that needs no event, and has done its work, is answered with an error.

Seen while modelling, without a run of their own:

* `confirmPersistedDecision` renders the questions the run was saved with, so
  `questions.json` ("generated open, answered, and skipped question index", README
  line 279) lists a question as open and as answered.
* With any stored answer the questions are planned again without the claims, and a
  question that evidence had answered comes up (`docs/evaluation/timely-advice.md` line
  50 says it does not).
* The run an answer updates is rendered but not saved; a question that moved up into
  `questions.json` is refused as unknown.
* The first page in the result of `answer_question` sorts the answered question with
  the answers, the next page with the open questions; a client that pages on is never
  shown it.
* `selectPolicyAction` does not look at accepted debt: an accepted, active debt is
  advised against again (`timely-advice.md` line 53 says accepted debt is preserved).
* `uniqueSources` keeps the first reading of a source and category, while
  `combineConfidence` has counted them all: a fact may be of high confidence and show
  low sources only. It takes items a host sends: telemetry of collectors that names a
  source and category twice is refused. `FirmAdviceIsCorroborated` is stated accordingly.
* An item that meets a revisit condition counts as evidence of the decision's concern,
  whatever it speaks of. `FirmAdviceIsCorroborated` therefore asks for an item that
  bears on the concern, not one that speaks of it (`BearsOn`).
* `checkRevisit` reads decisions the host sends with an event and those of the memory,
  `buildArchitectureDebt` those of the memory alone: a debt the host sent would be
  raised and not reported as reopened. `ReopenedDebt` assumes the host sends none.
* The runner takes a provider's word for the source of a signal; a provider that
  called itself `providerRunner` would hide what the runner says of the bundle.
  `InvalidityShows` assumes none does.
* `handleMcpJsonRpc` turns what goes wrong in it into an error reply, but reads the id
  of the request before its `try` begins: the JSON line `null` ends the server, as a line
  that is not JSON does.
* `summarizeDraft` quotes three lines, and complexity pressure is read from the quoted
  text: with a fourth line about one concern the order of collectors decides. The changed
  files of an event are a line each, so two items may have more than three.

`WalksOmitNothing` leaves out walks during which an answer is recorded. There the
code does omit nodes: an answer moves the skipped questions down by one, and the one
at priority 59 passes the first decision.

## What is proved

All theorems hold for every value of the constants that satisfies the named
assumptions. These are of three sorts. Types and bounds: commands, evidence, situations,
events and outcomes have their types, what the code keeps in an array is a sequence, what
it finds in a repository is finite (`EvidenceAssumption`), bounds are natural numbers.
Names: kinds of questions are disjoint with distinct rank keys (`QuestionsAssumption`,
`ScoreAssumption`), reports are finitely many and distinct (`ArtifactsAssumption`),
malformed ids are ids (`IdsAssumption`), providers are distinct (`OrderAssumption`),
records have ids of their own (`RecordsAssumption`), a hook's id comes before those the
server draws (`McpAssumption`). And how the history of the graph is made
(`AssessmentsAssumption`, `HistoryAssumption`): within a run ids are distinct, nodes of one type that share a
priority are claims or diagnostics with keys to order them, links join nodes, and a run
continues an older one. TLC evaluates all of them on the instances it checks. Some theorems have
a hypothesis more, named in their statement: `SoleProcess`, `SourcesAreNamed`,
`EventsBringNoDebts`, well-formed Stop events, and those of `AnyOrder` and
`OrderOfAdvice` on the state, `SureAlike`, `FewLines` and `OneContender`.

`AssessmentStore_proofs`. The inductive invariant is
`TypeOK /\ RunsArePast /\ FilesInOrder /\ InFlightIsBacked /\ ReportsShowOnlyStored`.
`ReportsShowOnlyStored` alone is not inductive: a file gets its pack from the
process that renders it, so the pack of a process about to render must be backed by
the database (`InFlightIsBacked`), which in turn needs what it has read to stay
there. The key lemma is `BackedStays`: the tables only grow, so a command that was
backed stays so whatever another process does (`TablesGrow`, `OthersKept`).
`RunsArePast` (no run is younger than the clock) gives that a new run is younger
than the one it continues; `FilesInOrder` keeps the index into the list of
reports in range. `ImplementsLedger` then maps every step to a step of
`AssessmentLedger` (`Ledger == INSTANCE AssessmentLedger WITH ...`, the four tables
being the ledger's state) or to a stutter: `SaveRun` to `RecordRun`, `AppendAnswer` to
`RecordAnswer`, `AppendDecision` to `RecordDecision`, all else to a stutter.

What a command has recorded is a second invariant, `AccountInv`: a process keeps an
account of its answer or decision, first in the tables, then in what it has read
(`InTables`), then in its pack (`InPack`), and `DurableIsStored` is the account of a
process that has finished. `Justified` says of every run, and of the run about to be
saved, that it asks only what the planner asks; `OpenQuestionsAreCandidates` follows, with
the lemma that the questions planned are the `QuestionLimit` first by rank.
`NotAskedAgain` and `DurableRepairsReports` are false with two processes, which may
render each other's past. `SoloInv` proves them for one process, however often it
fails, is killed and is started again: what it has read is what is stored (`Current`),
and the reports before the one it is at show its pack (`WrittenSoFar`).

`ProjectMemory_proofs`. `LossIsBounded` is not inductive: a record whose newline is
missing is readable now and spoilt by the next append, without a new fault. The
inductive form, `SafeLossIsBounded`, counts such a record as lost already (`Safe` are
the ids no later append can spoil); `Invariance` joins it with `TypeOK`,
`DuplicatesOverlap` and `PendingIsFresh`.
`DuplicatesOverlap` needs that a pending record is absent
from the part of the file its writer has read (`PendingIsFresh`). The two action
properties use type correctness only. `LoneWriterKeepsListWorking` shows that the race and
the faults are the only causes of `ListWorks` failing: with one process and no
faults it is an invariant.

`LifecycleHooks_proofs`. `EffectsAreOrdered` is about the pure policy, by cases on
the parts of the handler; the rest is an invariant that says that the last effect
is what the policy answers to the last event, and that the loop-guard flag is set
exactly while the turn has been blocked. `LoopGuardHolds` assumes that no Stop
event is malformed; `hooks_malformed` shows the assumption is needed.

`AssessmentGraph_proofs`. `CursorsAreBound` says that the cursor of a walk belongs to
the run it names, or to one no younger than the latest, and that a call under way
reads no older one; it makes `OnlyLatestIsRefused` inductive. What the nodes are plays
no part there. It does in the others. Their invariant `GInv` has the tables
(`LedgerInv`), the call under way, which has read a beginning of them (`CallInv`), and the
walk (`WalkInv`): in the graph of some number of decisions, no fewer than at the first
page, the nodes of the first page's graph that come before the cursor have all been
shown (`Covered`), and the offset is the number of nodes shown and of repeats. That each
page was cut out of another graph is what `MatchGrows` deals with: while no
answer is recorded the graph grows by decisions only, so a node's place never falls
back behind the cursor, and a page repeats at most one node for each decision.
`Places` gives
what is needed about the place of a node in a finite order. `EdgesJoinNodes` needs no
invariant but the tables': links join nodes, and answers and decisions lead to their run.

`McpServer_proofs`. `SInv` is type correctness, a log without events of the future
(`LogUpTo`), and `WalkInv`: in the list of the walk's last page, what lies before the offset
was shown or recorded late, before something shown (`NothingPassedOver`); what a page
showed lies before the offset, unless a late event has moved it (`InPlace`); and two pages
show one event only if a late event came before it (`NoRepeats`). Events are told
apart by their places in a finite order; `LateComesBefore` says what a late one does to
the places of others. `RInv` says of the replies that they are those of the requests
taken so far, one to each and in order (`RepliesFollowRequests`, `RepliesAreInOrder`);
that the next request is taken at all is `RequestsAreAnswered`, for TLC.

`ProviderRunner_proofs`. `EvidenceIsWhatWasAwaited` speaks of the end of the loop only.
The invariant `IInv` is an account kept at every step: what is collected, together with
what is still in the queue, is what was heard of providers so far (`Accounts`), and no
provider is heard of before its turn (`Unheard`), so that its end is counted once
(`HearingAdds`). `VisibleFailures` adds two facts, that each failure has left its trace in
the evidence (`Traced`) and that the bundle keeps the traces (`Bundled`). A late answer
changes `running` alone, which none of them mentions. `InvalidityShows` goes back from
the bundle to its sources: none is empty or the runner's own (`Sourced`), so what makes
the bundle invalid is what the runner's diagnostic says, and the bundle is the one
composed with it (`Composed`).

`Coaching_proofs`. An advice is a function of what the assessment was given, so
`WeakEvidence` is a fact about `SelectPolicyAction` for every baseline `ConcernOf` can
build (`BaselinesAreWellMade`), with one lemma for each branch of the policy
(`RiskAdmits`, `UnderStructuredAdmits`, `PackageAdmits`, `PatternAdmits`, `NotesAdmit`).
The hardest branch is the patterns': the policy looks only at the pattern's confidence,
and `OfferedPatterns` shows that every pattern offered for a concern of low confidence
is of low confidence itself. The choices of the least by rank need `LeastRank`, from
the well-foundedness of the natural numbers.

The others are about a session. `SessionInv` says that the result in hand is that of the
items the collectors came back with and of the memory, `MemoryInv` that records are made
as the host makes them. `FirmAdvice` follows an advice to block or to demand a
decision back to its evidence: the confidence it rests on is that of an entry
of the baseline or of a claim (`IsEntry`, `RestsOn`), that of an entry comes from the
items that bear on its concern (`Founded`, `Grounded`), with a lemma for every branch that
can be firm. `FactsRest` shows that dropping the items that are not present before
synthesis yields the same facts, by an algebra of filters and maps
(`KeepOfFamilies`, `KeepOfMap` in `Places`), and that the facts of a baseline quote
present items only (`FactsOfBaseline`). `OrderOfItems` is about the order in which
the items come, which nothing in the code fixes but the order of the collectors. A
sequence is rearranged when it has equally many of whatever is looked for
(`Rearranged`), which filters, maps and flattened arrays preserve, so permuted items
lead to permuted evidence (`EvidenceRearranged`) and permuted matches
(`EvidenceMatchesRearranged`); what the changed files and the prior decisions add comes
after them, the same for any order (`MatchesSplit`). What the baseline reads of them, counts of sources and
extremes of levels, is then the same for every concern (`ConcernsAlike`); the source
kept of several with one name may differ in what is not its key, and which lines are
quoted depends on the order when there are more than three, unless they all are of one
match; adequacy is claimed where it does not (`Quotable`). `ReopenedDebt` ties two parts of one result
that are computed separately: the debts and the alerts. `CoachingType` has the bounds
of the ranks of questions.

`AnyOrder` goes on from there to what the session says, for every order of the items. A
claim comes from the evidence graph, which keeps the first node of each line it reads:
`Firsts` is what it keeps of a sequence, `FirstsMerge` says that reading two sequences one
after the other merges what is read of each, and so rearranged items leave the same graph
(`GraphsAlike`), if items of one family that read the same line are equally sure of it
(`SureAlike`); otherwise the first one's confidence stands.
Questions are ranked from the facts and the claims (`QuestionsAlike`). Where the evidence
of every concern is `Quotable` (`FewLines`) the two baselines have the same entries but for their order and
for the sources that stand for several (`Interchangeable`); then the alerts, the guidance
and each rule of the policy come out the same (`AlertsAlike`, `GuidanceAlike`,
`SelectedAlike`). The rule about under-structured concerns takes the most urgent, and the rank
of an entry tells its concern, as the names break ties (`RankTellsConcern`). Three rules
take the first of the baseline instead: for over-structured concerns, for load-bearing ones,
and for a revisit alert whose concern the baseline does not have. Where one of those selects
among several concerns (`Contenders`), `AnyOrder` claims the rule only, not the concern.
`OrderOfAdvice` concludes `OrderDoesNotMatter` where none of the three limits is met.

Model-checked only: `TurnsEnd`, `RunnerReturns` and `RequestsAreAnswered`, which are
liveness under fairness and out of the reach of the provers, and `OrderDoesNotMatter`
where `OrderOfAdvice` does not reach: there the order may decide which confidence the graph
keeps, which lines are quoted, or which concern the advice is about. In `coaching_advice` all items are sure alike and no rule has a choice,
so the hypotheses hold of states with three items, among them advice that blocks and
four questions. Some concerns do have more lines than are quoted, where an item joins the
changed files of an event, but none whose words change the pressure, so that the property
holds in every state.

## Not modelled

* What is said: prompts, messages, reports' layout, the audit and usage rows, whose
  failures the hooks swallow.
* How evidence is found in a repository: the collectors read files and git and match
  patterns in text; their items are inputs. The three decision axes nothing reads.
* Specialist escalation (`escalation.ts`): exported, and called from tests only.
* The checks of single fields of host events, and the sanitizing of usage metadata.
* `Coaching` and `LifecycleHooks` are not composed: an assessment's intervention and
  questions are a situation of `HookPolicy`, which takes any combination of them.
* Details of the graph's nodes, relations of its edges, navigation hints.
* Caller-supplied ids, times and statuses of answers and runs (used by tests and
  by the CLI's options): times are the clock's.
* `allowedTransitions` of `lifecycle.ts`: only tests call it.
* Argument parsing of CLI and MCP tools, adapters, evaluation harness, packaging.

## Plan

Done, in this order: `Interview`, `AssessmentLedger`, `AssessmentStore` and its
proofs; `ProjectMemory` and its proofs; `HookPolicy`, `LifecycleHooks` and their
proofs; `AssessmentGraph`; `Telemetry`, `ProviderRunner` and its
proofs; `UsageLog` and `McpServer`; the stages of an assessment from `Complexity` to
`Policy`, `Coaching`; the proofs of the store's account and of its sole process, of the
graph, of the server and of the coach, up to the advice in any order of the evidence.

Next:

1. `Coaching` inside `LifecycleHooks`, so that the situations of a session are those
   assessments lead to.
2. `AssessmentGraph`: node details and the pages of a node's edges; filters by
   concern and relation.
