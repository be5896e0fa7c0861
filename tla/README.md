# Dark Kitchen orchestrator: formal models

Dark Kitchen is a daemon that reads tasks from an issue tracker, runs agent
workflows on them in git worktrees, opens pull requests, merges them when the
configured checks pass, and asks people when something needs a decision. This
directory holds TLA+ models of it, TLC configurations that check them, and
TLAPS proofs. Paths are relative to the repository root.

- [Inventory](#inventory): parts, state, interactions, what is hard
- [Modules](#modules-and-the-code): how each module corresponds to the code
- [Runs](#what-the-runs-check): what is checked, bounds, deadlock, fairness
- [Proofs](#what-is-proved): what is proved and how
- [Disagreements](#where-code-and-documents-disagree): what the code does that its documents deny
- [Plan](#plan), [Not modelled](#not-modelled)

## Inventory

| Component | State | Operations | What makes it correct |
|---|---|---|---|
| **RunSupervisor** (`runtime/src/scheduler.ts`) | `activeRuns`, `completedTasks`, `manuallyPaused` (memory) | `tick` (promote dependents, pick, launch), complete, fail, pause, resume, stop, retry, `recoverActive`, `recoverPaused` | dependency order, one launch per task, the limit, no slot lost |
| **DaemonLoop** (`runtime/src/daemon-loop.ts`) | the timer, the promises of running tasks | `start`, `tick`, `reconcile`, `runTask`, `settle`, `stop` | restart resumes what was cut off, pauses what waits; every end of a task frees its slot or keeps it on purpose |
| **Composition root** (`apps/cli/src/daemon.ts`) | the run table, the channel wiring, the lock file | select and run a workflow, record the run, apply answers, build the gate, serve agent calls, record verdicts, stop | an answer has the effect the person asked for, once |
| **InterventionService** (`runtime/src/interventions.ts`) | intervention rows, `transitionsInFlight` | create, resolve, dismiss, askHuman, subscribe | one terminal transition per record |
| **Approval gate, high-risk workflow** (`workflows/src/approval-gate.ts`, `default.ts`) | the journalled plan, the gate's record | plan, request, decide, implement, review | only an approved plan is implemented |
| **PR lifecycle** (`runtime/src/pr-lifecycle.ts`) | none of its own: everything is on the SCM and tracker | gates, find/create/update PR, poll checks, merge, verify, close, delete, release | only tested heads merged, close after merge, clean-up last, bounded |
| **GitHub SCM adapter** (`scm/src/github-scm.ts`) | pull requests, branches, checks (remote) | find, create, list checks, merge, verify, delete branch | merge refuses what is not proven |
| **Workflow executor** (`runtime/src/workflow-executor.ts`) | the worktree | execute, commit, push, merge the base, tear down | what is pushed is what was tested |
| **Workspace manager** (`workspace-manager/src`) | worktrees on disk, map in memory | allocate, find, release | one worktree per task, nothing unmerged removed |
| **Built-in workflows, selection** (`workflows/src`) | local variables | bounded review and verification loops | loops end, a failing review never passes |
| **Verification environment** (`runtime/src/verification-environment.ts`) | started commands | prepare once, tear down | teardown always runs |
| **Verification service** (`verification/src/durable-service.ts`) | runs in a file and in memory, the write queue | request, mark running, complete, retry, cancel | a verdict stays |
| **Workflow engine** (`workflow-engine/src`, `runtime/src/durable-journal.ts`) | the journal: call key to result, in-flight checkpoints; the semaphore | agent, parallel, workflow, retry, abort | a replay yields the same keys and repeats no completed call |
| **Agent controls** (`runtime/src/agent-controls.ts`) | session rows, bindings | send, interrupt, stop, pause, resume, retry, switch profile | the workflow gets the answer to its own prompt |
| **ACP and process adapters** (`harness/src`, `harness-deepseek/src`, `process-execution/src`) | sessions, turn queues, timers, child processes, payload files | start, send, cancel, restore, run a process | one end per session, no prompt left on disk |
| **Failover, role router** (`harness/src`) | candidates, sessions | start, send, restore, fall back | quota is reported only when the chain is used up |
| **Channel gateway** (`channels/src/gateway.ts`) | correlations, receipts, deliveries in flight | notify, handle inbound, retry | each reply acts at most once and on the right question |
| **Channel adapters** (`channels/src`) | sockets, timers, bots, what was sent lately | connect, reconnect, send, receive, destroy | a link that is down is rebuilt; one poller; no echo taken for a reply |
| **Trackers** (`tracker/src`: GitHub, Linear, Jira) | issues and dependencies (remote), dependencies remembered | list, update, create, add and remove dependencies | statuses arrive, no dependency cycle |
| **Capabilities service** (`capabilities/src`) | plans in a file, tools on disk | inspect, plan, ensure, remove | nothing installed without an approved plan |
| **Config store** (`config/src`) | the configuration file | load, edit a section, patch, validate | what was saved routes every role at the next start |
| **MCP tools** (`mcp/src`) | none | `dk_*` tools over the services above | tools do what their descriptions say |
| **Runtime store** (`runtime-store-sqlite/src`) | tables, migrations | CRUD in transactions | a row is old or new, never in between |
| **ADE bridge**, **CLI**, **API**, **domain types** | see [Not modelled](#not-modelled) | | |

### How they interact

1. A timer calls `DaemonLoop.tick`. It reads the whole task graph from the
   tracker, then hands it to `RunSupervisor.tick`, which promotes backlog tasks
   whose blockers are completed (one tracker call each), computes the ready
   ones and launches as many as there is room for. Nothing stops a second timer
   tick while the first waits.
2. A launch is a `runTask` that nobody awaits: it supersedes old incidents,
   records the run, runs the workflow, then the PR lifecycle, then completes the
   task and deletes its journal. Each of these waits for the store, an agent, the
   tracker or the SCM, and at each of them everything else may happen.
3. The workflow is selected by the labels of the task. Its executor allocates a
   worktree; the engine makes its agent calls, or replays them from the journal of
   the run; each call is served by a closure of the daemon that starts or
   reattaches a session of the harness, which people may talk to, interrupt, stop
   and replace meanwhile. A failover may move the session to another harness.
4. Failures and gates become interventions, delivered to channels and MCP. A
   reply is resolved durably first and applied to supervisor, journal and
   tracker afterwards, by whoever resolved it.
5. Operators and clients use the MCP tools: task controls change the supervisor
   at once and the tracker later; others edit the configuration, the
   dependencies, the capabilities and the verification runs.
6. On a restart only the store, the journals, the files, the tracker and the SCM
   are left; `reconcile` rebuilds the supervisor from run rows and the task graph.

JavaScript does not preempt: what runs between two `await`s is atomic. That is
the grain of every action here. Calls of the SQLite store are synchronous behind
`async` methods, so a chain of them is not interrupted by network or process events.

### What is hard

Overlapping polls over stale snapshots; answers that arrive while the question
is still being sent; operators acting on a task that is executing; a crash at
any `await`; a tracker that is away while the daemon starts; a branch that moves
while its checks are read and its merge requested; calls that succeed and lose
their answer; two people answering at once; a plan re-made after it was
approved; a turn that ends while it is cancelled, stalled or interrupted; a retried
round that meets the calls of the failed one; a reply delivered twice; whole-file writes
that overtake each other; the events of an old socket. `PROJECT.json` lists each at
its line under `hazards`.

## Modules and the code

| Module | Models | Instance |
|---|---|---|
| `DaemonLoop` (+ `DaemonLoopProofs`), `TaskBoard` | RunSupervisor, DaemonLoop, and the handlers of `daemon.ts` and `mcp/src/tools.ts` that touch the same state, for many tasks; what they promise to who watches the tracker | `MCDaemonLoop` |
| `PrLifecycle` (+ `PrLifecycleProofs`), `Delivery` | `PrLifecycleOrchestrator.run` over the GitHub adapter and the executor's git calls, for one task and branch; what it promises of the pull request, the task and the branch | `MCPrLifecycle` |
| `TaskExecution` (+ `TaskExecutionProofs`) | one task from selection to push: workflow, worktree, journal, verification environment | `MCTaskExecution` |
| `WorkflowEngine` (+ `WorkflowEngineProofs`), `DurableCalls` | the engine and the durable journal of one run; what they promise about calls | `MCWorkflowEngine` |
| `AgentSession` (+ `AgentSessionProofs`) | one agent call: acpx adapter, the daemon's closure, agent controls | `MCAgentSession` |
| `Channels` (+ `ChannelsProofs`) | interventions and the channel gateway, in one conversation | `MCChannels` |
| `ApprovalGate` (+ `ApprovalGateProofs`), `GateDecision` | the gate, its record and its concurrent answers, for one task; what it promises to the task | `MCServices` |
| `HarnessFailover` | the failover around the runtimes of one role | `MCServices`, `MCHarnessFailover` |
| `CliHarness` | native, acp and dsh adapters over `executeProcess` | `MCServices` |
| `ProjectConfig` | the config store, its tools, the start of the daemon | `MCServices` |
| `Capabilities` | managed tools: plan, approval, installation, removal | `MCServices` |
| `ChatLinks`, `OpenClawSocket`, `WhatsAppLink` | the chat transports | `MCServices` |
| `TaskTrackers` | the GitHub, Linear and Jira adapters | `MCServices` |
| `VerificationRuns` | the durable verification service | `MCServices` |
| `ServicesProofs` | the proofs about the services, in their composition | `MCServices` |

How they fit. `DaemonLoop` takes a workflow, the PR lifecycle and the gate by their
effects. `TaskExecution` opens up one execution of it, `PrLifecycle` what follows a
push, `ApprovalGate` the gate; `WorkflowEngine` has how one agent call of an execution is
made and journalled, `AgentSession` what a harness does with it, `HarnessFailover`
and `CliHarness` what is below that. Where one module takes another by its effects it is
written to allow at least what the other does (an agent call in `TaskExecution` may
bring any verdict, a harness in `WorkflowEngine` may answer, throw or be abandoned);
that is an argument, not a proof, but for the gate: `DaemonLoop` and `ApprovalGate` implement
the same `GateDecision`. What is checked and proved is that four of the modules implement
abstract specifications of what they promise:

| Specification | Implemented by | Under |
|---|---|---|
| `TaskBoard`: tasks at work, done, asked about, proposed | `DaemonLoop` (`KeepsTheBoard`) | at work: some execution is on its way and has not gone on to delete the journal of a closed task; asked: an open incident or gate; proposed: it has a pull request; alive: `phase` is "up" |
| `Delivery`: one pull request, the task, the workflow's outcome, branch and workspace | `PrLifecycle` (`Delivers`) | the state of the branch's pull requests taken together (`Request`), what the gates of the code make of the result (`Outcome`), whether the branch exists |
| `GateDecision`: a gate not asked for, open, approved, rejected, and work behind it | `ApprovalGate` (`GateDecides`) | the record's status, and what is read back of its details (`Verdict`); behind: from the implementation on |
| | `DaemonLoop`, for each gated task (`GatesDecide`) | `gate[t]`; behind: an execution in its lifecycle |
| `DurableCalls`: a call idle, executing, answered, recorded | `WorkflowEngine` (`Implements`) | the strand at each key, and the journal (`CallState`) |

`MCServices` composes services that share no state with each other. A behaviour is one
of a single service (`part`), with the others at rest: interleaving them would multiply
their states and add nothing to what any of them can do.

### DaemonLoop

State. `status` is the tracker's view (`resolveStatus` of the GitHub adapter);
`runState` the row of the runs table, one per task because the run id is derived
from the task; `journal` whether the durable journal of the task holds completed
calls; `incident`, `gate` the interventions; `pr` the pull request. These survive
a crash. `activeRuns`, `completedTasks`, `manuallyPaused` are the supervisor's
fields; `poll` is each `tick` in flight (its snapshot of the tracker, of the
active runs, and what is left to promote); `exec` where each `runTask` is;
`inflight` the handlers between resolving and applying an answer, or between
changing the supervisor and writing to the tracker. `done` is a history
variable: tasks the tracker has shown as completed.

Actions. `Tick*` are the stretches of `DaemonLoop.tick`; `Supersede` to
`ClearJournal` are the stretches of `runTask` in the order of the code;
`Reconcile` is `reconcile` followed by `start`, `ReconcileWithoutTracker` its
catch branch; `PauseTask`, `ResumeTask`, `StopTask`, `RestartTask` are the tools;
`AnswerIncident`, `AnswerGate` are the durable resolution, `ApplyRetry`,
`ApplyStop`, `ApplyNothing` the branches of `applyInterventionResolution`;
`TrackerWrite` the tracker call at the end of a tool or handler; `Crash`,
`Shutdown`, `Boot` the process; `EditTracker`, `HumanMerges` people.

Abstractions. An agent call is "the journal now holds something". A promotion
chooses any order, a launch any candidates: the code's order is the tracker's
listing order, which the model does not fix. The two constants that bound the
state are `Polls`, ticks in flight, and `Slots`, executions of one task; a launch
waits in the model when all slots of a task are taken (`HasRoom`).

### PrLifecycle

Each SCM, tracker and git call is one action, named for it, and `pc` is the
`await` the lifecycle is in. The branch is a commit number (`head`), its pull
requests a sequence, CI a status per commit and check. `result` is what the
workflow reported: each gate of the code (`repositoryTestsPassed`,
`reviewPassed`, `worktreeClean`, proofs, commits) is a field. The merge policy is
chosen at every start because the configuration may be edited between two.
`CallFails` is a call that throws and the state the code reports for it; `Merge` and
`CloseTracker` may also take effect and lose their answer; `Dies` is the process.
`CheckMoves`, `BaseMoves`, `SomebodyPushes`, `SomebodyReviews`, `SomebodyReopens` are
the outside world.

`Delivery` has none of this: a result is proposed, merged or declined, completed and
cleaned up. That nothing leads out of "merged" there is what makes the look of `findReusablePullRequest` at
merged pull requests necessary; that `CleanUp` needs the completed task is the order of
the last three calls.

### TaskExecution

`pc` is the await an execution is in; `flow` is the workflow that was selected, `at` the
call it has come to; `journal` maps calls to the answers recorded. The content of the
worktree is a version number (`tree`), so that a verdict can say at which content it was
given. `NextStage`, `AfterReview`, `AfterVerification` are the control of the four
workflows of `default.ts`, `Take` lets a workflow read a verdict from agent or journal.
`disk` and `primary` are the worktree on disk and the manager's entry for it.
`Prepare` and `Teardown` are the environment of the verifier, with the memoised
`preparePromise`. History: `spent`, a journal was left behind by an epoch that ended;
`edited`, people edited the task since its journal was started.

### WorkflowEngine and DurableCalls

The workflow is a nested `workflow()` with a retry policy, whose body makes calls one
after the other and then runs `parallel()` branches: the shape in which builders, retries
and the semaphore meet. A strand is one line of calls of one round; the strands of a
failed round go on while the next one starts. A key is the path that `keys.ts` builds:
the branches have a builder of their own in each round, the body keeps one. Checkpoints
of calls in flight, the abort signal, a late `onCheckpoint` and the deletion of the
journal are actions. `DurableCalls` is the abstract specification: a call executes at
most once at a time on a bounded number of slots, and a recorded one never again.
`WorkflowEngine` maps each key to its state there (`CallState`) and implements it.

### AgentSession

`sess` are the sessions of the acpx adapter with their queue of prompts and the turn
under way; `row` and `source` the session rows and bindings of the store; `call` the
closure of the daemon. A step is everything between two waits for a backend. Events
of a session reach two listeners, that of the controls and that of the call
(`RowAfter`, `CallAfter`), in the code's order. `FailsOpen` covers a stream error and
the watchdog, after either of which the stream may still end.

### Channels

One conversation on one channel. `record` is the intervention's row, `correlation`,
`processed` the tables of the gateway; `delivery` the notification of each question
under way; `handling` each copy of a reply the provider delivers. `Route` is the order
in which the gateway looks for the question of a reply: quoted message, code, only one
pending. `Control` is the incident that the daemon opens when a resolution cannot be
applied. A second send for one question is either refused by `completed` and
`Pending` or, at a start, forced.

### ApprovalGate

`pc` follows one task's execution; `record` is the gate's intervention with the
plan its details show; `transition` is the entry in `transitionsInFlight`; `call`
is where each caller of resolve or dismiss is. A call joins the transition in
flight whatever that one asked for (`Joins`), and applies its own action
afterwards. `record.approved` is the line of the details that `daemon.ts` parses
back to recognise an approval, written only when there is an answer text. The
tasks' scheduling is `DaemonLoop`'s; here one execution is at work at a time.

### The services

- `HarnessFailover`: `index` is `candidateIndex`, `inner` the session on each
  candidate with the turns it was given. Starting, restoring and switching are separate
  stages, so a prompt, a cancellation and the end of an old turn come in between.
- `CliHarness`: every wait of `executeProcess` and of the adapters over it is a stage;
  exit and close of the child, stdin and abort are events of their own.
- `ProjectConfig`: files are inodes, the path names one of them. Opening the shared
  temporary path truncates the inode, `Rename` moves it over the file; edits are
  checked in memory before they are written. `Start` reads the file as the daemon does.
- `Capabilities`: a plan is loaded, asked for, kept and written in separate steps; a
  request that executes it checks, inspects, installs, validates and records.
- `ChatLinks`: `entry` is the adapter in the transport's map; each Telegram adapter has
  its bot, its retry timer and its flags. `OpenClawSocket`: sockets are numbered, their
  events act on the one link. `WhatsAppLink`: a clock, the chat as a sequence, and what
  the adapter remembers of what it sent and saw.
- `TaskTrackers`: one module for three adapters, which differ in where a status is
  kept (labels, state, transition) and where dependencies are (server, memory).
- `VerificationRuns`: `mem` is the map, `file` the disk, `queue` the chain of writes.

### Mutants

A definition marked `mutant` is a plausible bug in the definition it precedes (a
dropped guard, a missing reset, a swapped order). With it in place of the
original, the property named in `PROJECT.json` fails: no property holds by the
shape of the model alone.

## What the runs check

| Run | Instance | Properties |
|---|---|---|
| `DaemonOverlap` | two tasks, one blocking the other and the other gated, limit 1, **two polls in flight**, two slots, crashes | `BlockersDone`, `OneExecutionPerTask`, `PausedIsAsked`, `RunningRowsAreExecuting`, `GatedIsNotRestarted`, `KeepsTheBoard` |
| `DaemonRestart` | three tasks, limit 2, crashes and shutdowns at any step, fairness | `ClosedStaysClosed`, `MergedIsNotRedone`, `UnblockedIsHandled` |
| `DaemonHumans` | one task, all operator tools, a gate approved, a stop answered repeatedly, reopening, tracker failures, manual merge | `NoLeakedSlot`, `GatesDecide` |
| `PrMerge` | two checks, three attempts, both merge policies, failures and deaths, two starts | `MergesTestedCode` |
| `PrEnds` | every kind of result, people pushing, reviewing and reopening, failures, fairness | `ClosedIsJustified`, `Delivers`, `LifecycleEnds` |
| `TaskRun` | four workflows over three views of the task, two lives, two requests, edits in both directions, failing git and agents | `JournalIsCurrent`, `EnvironmentIsTornDown`, `PublishedIsJudged` |
| `WorkflowRun` | two branches on two permits, two rounds, a retried call, two executions, a crash, a cancellation, fairness | `SlotsConserved`, `OwnAnswers`, `RunEnds`, `Implements` |
| `AgentCall` | three sessions, any two controls or faults, fairness | `AnswerIsOwn`, `OneReplacement`, `FreshCallEnds` |
| `Channels` | a question and the incident of a failed control, two replies, one delivered twice, two attempts, one fault, fairness | `RepliesActOnce`, `OpenIsAnswerable` |
| `Services` | ten services, one per behaviour | `QuotaSurfacesLast`, `OneEnd`, `PromptIsRemoved`, `SavedConfigRoutes`, `InstalledWasApproved`, `ReturnedPlansSurvive`, `LinksKeepTrying`, `OnePoller`, `CyclesNeedABlindSpot`, `EchoesAreNotReplies`, `OneLeader`, `VerdictsLast`, `GateDecides` |
| `MergeNotBound` | a push between head comparison and merge | `MergeIsBound` is violated |
| `TurnIsLost` | a failover of a restored session | `TurnIsRestarted` is violated |

What the passing runs say:

- **Order.** No task is executed before each blocker was completed at some
  time, even though a tick decides on a snapshot it took several awaits ago
  (`BlockersDone`).
- **One execution, within the limit.** Two overlapping polls do not launch a task
  twice, because the last check reads `activeRuns` and `completedTasks` fresh in
  the stretch that also launches. A restart with the tracker at hand resumes no
  more than were running.
- **Rows and memory.** While the daemon is up every row that says running is
  backed by an execution; what the daemon paused has an open question.
- **Slots, no starvation.** A slot is held by an execution or by a pull request that
  waits for a person. Once the daemon stays up, a task that stays unblocked is handled.
- **Board.** To who reads the tracker the daemon is `TaskBoard`: a task is begun in order
  and within the limit, and work on it ends with the task completed, with a question to
  a person or with a pull request for one to merge; it is never just dropped.
- **Merges.** Only a head on which each required check has passed is merged when
  nobody else pushes. The lifecycle is a `Delivery`: the tracker is closed before branch
  and worktree go, a retry finds the pull request there is and proposes nothing that was
  merged before. The bounded loop ends.
- **Executions.** What is pushed was validated and verified at exactly that content;
  a retry replays nothing of the request before; every end of an execution tears the
  verifier's environment down.
- **Calls.** The semaphore loses no permit over failures and aborts; a key never hands
  one call the answer of another; a recorded call is never made again, and no run waits
  for ever. The workflow gets the answer to its own prompt, whatever people make of
  the session; repeated requests make one replacement; a silent backend is ended.
- **Answers.** A reply acts once however often it is delivered, an open question can be
  answered in the conversation, and nothing but the first durable answer decides the gate:
  the work behind it begins only when that answer approved.
- **Services.** What each service promises at its boundary, in the table above.

### What the properties exclude

Where a known flaw breaks a property, the property names the case instead of leaving
the behaviour out of the model; the flaw is listed below. `overtaken`, `overlapped`,
`crossed`, `forgotten`, `raced`, `refusal`, `spent` are history variables for this.

- `VerdictsLast` unless a call overtook the first read of the file; `ReturnedPlansSurvive`
  unless two requests overlapped.
- `CyclesNeedABlindSpot`: a cycle can close only when two changes crossed, an adapter's
  memory missed an edge, or GitHub has more issues than a page.
- `OnePoller` unless sends or `destroy` raced the building or reconnecting of an adapter;
  `LinksKeepTrying` rests after a handshake that failed in an attempt of a send.
- `EchoesAreNotReplies` names the four ways in which text and time cannot tell.
- `SavedConfigRoutes` leaves out torn files and what the validation does not look at.
- `JournalIsCurrent` unless a journal was left behind; `PublishedIsJudged` unless the task
  was edited between executions that share a journal (`edited`).
- `OwnAnswers` is about a retried workflow whose body makes one call before its branches;
  see the disagreements for a body of more.
- `AnswerIsOwn`, `FreshCallEnds` are about calls that started their session. A call that
  reattached one after a restart does not listen before its prompt is answered.
- `RepliesActOnce` allows one more application per fault: receipts are written last.
- `ClosedStaysClosed` and `MergedIsNotRedone` have one poll, no answers and no edits: with
  two polls TLC finds the promotion on an old snapshot that is listed below.
- `OneExecutionPerTask`, `PausedIsAsked` and `KeepsTheBoard` have no answers and controls.

### Bounds, and why they are enough

- `Polls`: two. The hazards of overlap are pairs (one decides on what the other
  changed); a tick carries nothing to the next. One where overlap is not the question.
- `Slots` of `DaemonLoop`: two where overlapping polls could launch a task twice, one
  elsewhere. A launch that finds no slot waits in the model, so one slot serializes.
- Tasks: a dependency needs two; competition for the limit beside it a third.
- `MaxHead` 3 in `PrMerge`: the first push, a base merge, and a second run's push; 2 in
  `PrEnds`, where people push: one commit of ours and one of theirs. `MaxPrs` 2: one and a
  duplicate. `MaxStarts` 2: a run and its retry or restart. `MaxAttempts` 3 is the
  code's default. Two checks: one passing beside one that is not.
- `TaskRun`: one fix cycle of each kind is a loop entered and left; two contents are
  before and after a fix; two lives and requests are a restart and a retry.
- `WorkflowRun`: a round left behind competes with the next one; two branches on two
  permits make the body's call of the next round wait. A second execution replays.
- `AgentCall`: a session and two replacements of it; two things people ask, since each
  hazard is a control that meets a turn, or two that meet; a crash or a failed start
  takes the place of one of them.
- `Channels`: the second delivery meets the first one in every stage; two attempts are a
  failure and a retry.
- `Services`: two of each caller, the one that acts and the one that meets it; three
  candidates have a first, a next and a last; three sockets or adapters are the old, the
  new and one more; three issues close a circle that is not the direct one, over two dependencies
  people added. More issues than a page is left to the proof of `CyclesAreKeptOut`.
- One plan at the gate in `Services`: the plan re-made after an approval is a
  disagreement below, and `OnlyApproved` is proved for any number of plans.

### Deadlock

Checked in the runs of `DaemonLoop`: a timer, a crash or a person can always act.
Off in the others, which really may stop: a task, a run or a call that has ended, a
conversation without open questions, or the model's bounds used up.

### Fairness

- `DaemonLoop!FairSpec`: weak fairness of `Boot`, `Reconcile`, each poll, each
  execution, each handler. `setInterval` fires as long as the process lives; the
  promises of tracker, store and channel calls settle; an agent's turn ends, for
  the harnesses bound it. No fairness for answers, operators, edits or crashes. A
  "ready" written late really can reopen a blocker completed meanwhile, which is why
  `UnblockedIsHandled` is about tasks whose blockers stay completed. Endless retries by
  a person of a failing task may starve others, as the code takes candidates in
  listing order; the run has no answers.
- `PrLifecycle!FairSpec`: weak fairness of the lifecycle's own steps, since every
  call settles or times out; none for CI, pushes, reviews or starts.
- `WorkflowEngine!FairSpec`, `TaskExecution!FairSpec`: weak fairness of the program's own
  steps, none for people, cancellation, crashes. A harness answers or fails in the
  end: that is what `AgentSession` checks of a call that started its session.
- `AgentSession!FairSpec`: weak fairness of the closure and of each watchdog, which is a
  timer. Nothing is assumed of a backend.
- `Channels!FairSpec`: weak fairness of deliveries, of the polling of questions and of
  the handling of replies; none for people and faults.

## What is proved

Every safety property that a passing run checks, invariant or action property, is also a
theorem about the specification, for every value of the constants: any number of tasks,
polls, slots, plans, callers, checks, sessions, messages, issues, any graph and any limit.
So are the five refinements.

| Theorem | Says | Argument |
|---|---|---|
| **`DaemonLoopProofs`** | | |
| `TypeCorrect` | `[]TypeOK` | each action, conjunct by conjunct |
| `NoSlotLeaks` | `[]NoLeakedSlot` | the strengthening `SlotsAreHeld` counts an execution that only deletes the journal of a completed task as holding no slot: the step that ends the work is the one that leaves `activeRuns`, except where a pull request waits for a person |
| `DependenciesRespected` | `[]BlockersDone` | what a poll has seen completed was completed (`SeenIsDone`), and every task with a run row or a launch had its blockers done (`StartedInOrder`); the latter is what makes the resumption after a crash safe |
| `OneExecution` | `[]OneExecutionPerTask`; stop, restart, answers not used | `Lone`: an execution at work has its task in `activeRuns`, or in `completedTasks` while its journal is cleared, so no launch picks it |
| `PausesAreAsked` | `[]PausedIsAsked`; no pauses by operators, no answers | `AskedFirst`: the record of a question is open before the task is paused for it, and a paused task does not execute |
| `LimitIsRespected` | `[]WithinLimit`, the limit of `TaskBoard`; no stop, restart, answers, edits, outages | `LimitIsKept`: the limit holds of `activeRuns` while the daemon is up, and of the rows a restart would resume while it is down; `RowsAreBacked` ties the two together |
| `RunningRowsExecute` | `[]RunningRowsAreExecuting`; as above | `RowsAreBacked`: a row that says running belongs to an execution on its way, or to a task that was closed before the start and that every poll has read as completed |
| `GatedRunsWait` | `GatedIsNotRestarted`; as above, and no resume | `Restartable`: a task whose row waits is paused, and a closed task is kept out of every poll that might take it for ready |
| `ClosedTasksStayClosed` | `ClosedStaysClosed`; one poll, no stop, restart, answers, edits | `BacklogIsLeftOnce`: what a poll still has to promote was in the backlog when it read the graph, and only this poll takes it out |
| `MergedTasksAreNotRedone` | `MergedIsNotRedone`; as above | `MergedIsJournalled`: a merged task that may be executed again has its journal |
| `DaemonImplementsBoard` | `KeepsTheBoard`; no stop, restart, answers, edits, outages | step simulation over `BoardInv`: the invariants above, and `Accounted`: the question, the gate or the completion that an execution will end with is there before it ends. A poll and a restart map to `Begin` (`BoardBegins`), each stretch of `runTask` to one step of the task it works on (`BoardRuns`), a crash to `Die`, the rest to a stutter |
| `GatesAreDecisions` | `GatesDecide`, whatever people do | step simulation, gate by gate: an execution comes behind its gate only by `WorkflowSucceeds` (`RunsPassGates`, `LaunchesAreInFront`), and an answer decides only what is open |
| **`ApprovalGateProofs`** | | |
| `GateTypeCorrect` | `[]TypeOK` | each action |
| `OnlyApproved` | `[]OnlyApprovedIsImplemented`, `GateDecision` by way of the answer itself | `DecidedOnce`: a settled record and the first decision agree from the first save on, and a settled record is never saved again |
| `WaitingIsShown` | `[]WaitingHasGate` | `GateShown`: past the request there is a record with a plan, and records are never removed |
| `TransitionsAreSerialized` | `[]OneLeader` | inductive as it stands: a call leads only when there is no transition |
| `GateIsDecision` | `GateDecides` | step simulation with `GateShown`: only `Save` changes a verdict, and whoever saves has found a record that was asked for and is still open; a step that leaves the record alone can but leave the work (`NoDecision`) |
| **`PrLifecycleProofs`** | | |
| `LifecycleTypeCorrect` | `[]TypeOK` | `PrInv`, which says at each wait what the lifecycle knows of its result and its pull request |
| `MergedCodeIsTested` | `MergesTestedCode`, when nobody pushes | `TestedInv`: between the poll and the merge the head is one on which each required check has passed |
| `LifecycleImplementsDelivery` | `Delivers`, whatever people do | step simulation over `DeliveryInv`: at most one pull request of the branch is open or merged (`OneLive`), so that their states can be taken together (`RequestIs`, `RequestBecomes`), and who deals with pull requests has code on the remote |
| `CleanupIsLast` | `CleanupComesLast`, which `Delivery` keeps of the branch and the worktree | `PrInv`: who deletes or releases has closed the task |
| `PullRequestsAreReused` | `NoDuplicatePr`, the same for the pull requests one by one | `PrInv`: who posts has seen neither an open nor a merged pull request |
| `ClosingIsJustified` | `ClosedIsJustified` | `PrInv`: who closes has a merged pull request or a result without code, and its proofs |
| **`TaskExecutionProofs`** | | |
| `ExecutionTypeCorrect` | `[]TypeOK` | with `OnItsWay`: an execution is at a call of the workflow that was selected |
| `EnvironmentsAreTornDown` | `[]EnvironmentIsTornDown` | `UpIsHeld`: what is up was prepared by this execution, which has its teardown ahead |
| `JournalsAreCurrent` | `[]JournalIsCurrent` | `AskedOnce`: a task that was done left no journal, or one that is known to be `spent` |
| `PublishedWasJudged` | `PublishedIsJudged` | `Judged`: the journal is a path through the workflow, what the closure holds is what the path has answered, and each answer is about the content that is there now, unless a later writer on the path may have changed it. It is the proof with the longest case analysis: every call of every flow, answered, replayed, or cut off by a crash |
| **`WorkflowEngineProofs`** | | |
| `EngineTypeCorrect` | `[]TypeOK` | with `BodiesTakeTurns`: one body makes calls at a time and counts at most `Leads` in a round, so keys exist |
| `PermitsAreConserved` | `[]SlotsConserved` | inductive with `Queue`: who queues waits, once, and not at a run that is over |
| `AnswersAreOwn` | `[]OwnAnswers`, when the body makes one call or is tried once (`OneWay`) | `JournalOwn`: a key tells the place of its call, for then the shared count does |
| `EngineImplementsCalls` | `Implements` | step simulation: the abstract state of a call is that of the one strand at it (`CallFacts`, `KeysDiffer`), and each step of the engine is one of `DurableCalls` or a stutter |
| **`AgentSessionProofs`** | | |
| `AgentTypeCorrect` | `[]TypeOK` | `AgentInv` |
| `AnswersAreOwnPrompt` | `[]AnswerIsOwn` | `CallInv`: while a call waits for the session it started, the session's turn is the call's prompt and has not failed; once it is decided the call's session is elsewhere |
| `ReplacementsAreUnique` | `[]OneReplacement` | sessions not yet started replace nothing |
| **`ChannelsProofs`** | | |
| `ChannelsTypeCorrect` | `[]TypeOK` | `ChatInv` counts the messages: a question is sent once, and once more for each fault |
| `RepliesAreHandledOnce` | `[]RepliesActOnce` | `ReplyInv`: a reply that acted has its receipt or is the one being handled, but for the faults used up |
| **`ServicesProofs`** | of `ServicesSpec` | |
| `SessionsEndOnce`, `PromptsAreRemoved` | `[]OneEnd`, `[]PromptIsRemoved` | `CliInv` ties the state of a session, its files and who listens to the stage of its run |
| `QuotaIsTheLastWord` | `[]QuotaSurfacesLast` | `FailoverInv`: a candidate is come to by way of all before it |
| `SavedConfigsRoute` | `[]SavedConfigRoutes` | `ConfigInv`: what an inode holds, if it is a configuration, was validated by the request that wrote it, and a daemon without one found a torn file under the path |
| `InstallsAreApproved`, `ReturnedPlansAreKept` | `[]InstalledWasApproved`, `[]ReturnedPlansSurvive` | `ApprovalInv`: what is being installed was approved; `PlansInv`: without overlap a plan is in the file, or in memory and about to be written |
| `OneAdapterPolls`, `LinksAreRebuilt` | `[]OnePoller`, `[]LinksKeepTrying` | `LinksInv`, `ClawInv`: which adapters and sockets are at which stage, and that without a race those outside the map poll nothing |
| `EchoesAreTold` | `[]EchoesAreNotReplies` | `EchoInv`: a message of ours, on its way or in the chat, is remembered by text and time, or by its identifier once it was seen, unless one of the four cases has come true |
| `CyclesAreKeptOut` | `[]CyclesNeedABlindSpot` | `TrackerInv`: without a blind spot there is one change at a time, the adapter knows every dependency, and what it looked up is still so when it writes; `NoNewCircle` says why such a dependency closes no circle |
| `VerdictsAreKept` | `VerdictsLast` | `VerdictsInv`: a verdict in the file is in memory once the file was read, and in each write that is queued or under way |

What the theorems assume. The constants have their types, finite where the code has
finitely many (`DaemonAssumption`, `GateAssumption`, `PrAssumption`, `TaskAssumption`,
`EngineAssumption`, `BoundsAssumption`, `ChannelsAssumption`, `ServicesAssumption`), and
marker values are none of the values they mark the absence of (`NoneAssumption`, `NoPlan`,
`Unset`, `Nobody`). TLC evaluates them in the runs. Hypotheses beyond that are in the
table. Each excludes something that breaks the property, as TLC shows when a run has it:

- stop, restart and a retry take a task out of `activeRuns` while its agent works on, so
  `OneExecution` and what rests on it (`PausesAreAsked`, `LimitIsRespected`,
  `RunningRowsExecute`, `GatedRunsWait`, `DaemonImplementsBoard`) are about a daemon
  without them;
- a pause by an operator asks nobody anything, so `PausesAreAsked` has none; a task that
  waits at its gate is started again when an operator resumes it, so `GatedRunsWait` has no
  resume;
- rows that several starts without the tracker leave behind are resumed uncounted, and so
  are rows of closed tasks that people reopen, so `LimitIsRespected`, `RunningRowsExecute`,
  `GatedRunsWait` and `DaemonImplementsBoard` have neither outages nor edits;
- a second poll promotes on its old snapshot, so `ClosedTasksStayClosed` and
  `MergedTasksAreNotRedone` have one;
- a push between comparison and merge is merged unseen, so `MergedCodeIsTested` has none;
- a retried body of two calls finds the answers of others, so `AnswersAreOwn` has one call
  in the body, or one round.

Only model-checked: liveness (`UnblockedIsHandled`, `LifecycleEnds`, `RunEnds`,
`FreshCallEnds`, `OpenIsAnswerable`) and with it the fairness, which are out of the
prover's reach.

For the proofs, reachability in the trackers' dependency graph is stated by closed sets
(`Closed`) in place of a search, a poll of WhatsApp goes through a set of messages
in ascending order, and the number of messages written is a variable. The breadth-first
search of `wouldCreateCycle` returns the same answer: it finds exactly the issues that
every closed set with the start in it has.

## Where code and documents disagree

Two are runs, with the lines quoted in `PROJECT.json` (`findings`):

1. **`MergeNotBound`**: the head is compared in one call and merged in the next,
   which names no sha; the comment at `pr-lifecycle.ts:390` says a push between
   must fail.
2. **`TurnIsLost`**: a restored session that runs out of quota in its turn moves to the
   next candidate, which is started with the empty prompt of the restored input
   (`failover-runtime.ts:262`); the comment at `:245` says the turn is restarted.

Others were met while modelling and can be followed in the same modules; no run is
spent on them.

Tasks and their loop:

- `reconcile` resumes a stopped task whose row still says running
  (`daemon-loop.ts:179`); `docs/interventions.md:195` says stop "keeps it paused
  across restarts". The pause of a failed task is memory only as well (`:262`).
- Retrying the incident of a failed tracker close deletes the journal and runs agents
  again (`daemon.ts:952`); `docs/trackers.md:150` says it "does not start agents again".
- A reopened task finds its branch's old merged pull request (`github-scm.ts:145`),
  closes the task and deletes the branch with the new commits; `README.md:241` says the
  issue is closed only after the merge.
- Approving deletes the journal, so the architect plans again and the new plan passes
  the gate already resolved; `docs/workflows.md:146` says the journal replays the plan,
  `default.ts:357` that only the approved plan is implemented.
- After a start without the tracker a run waiting at its gate is executed again
  (`daemon-loop.ts:169`), and the running rows that gather over several such
  starts exceed the limit (`:183`). The models have it under `Outages`.
- A retry answered while the incident is being notified is undone by the pause
  that follows (`daemon-loop.ts:263`); `switch-harness` on a task-scoped incident
  closes the question and does nothing (`daemon.ts:931`).
- Stop and restart take a task out of `activeRuns` while its execution goes on, so
  the next poll launches it beside itself (`scheduler.ts:230`).
- `dk_restart_task` keeps the journal (`tools.ts:1506`) while a retry deletes it
  (`daemon.ts:952`): the documents say the opposite of both.
- A crash between closing a task and deleting its journal, or a merge by hand, leaves the
  journal to a reopened task (`daemon-loop.ts:338`), and a task reopened in the same
  process is never executed (`scheduler.ts:131`).
- After a person merges a pull request that waited for approval nobody closes the
  task (`daemon-loop.ts:340`). A merge refused because the branch moved ends the
  lifecycle with attempts left (`pr-lifecycle.ts:441`).
- An approval without an answer text is read back as a rejection (`daemon.ts:649`),
  and an answer that came second is still applied (`tools.ts:1136`).
- With two polls in flight a promotion decided on an old snapshot reopens a task
  completed meanwhile (`scheduler.ts:181`), and so does a `setReady` written late.
- A task edited between two executions mixes the calls of two workflows in one journal
  (`daemon.ts:584`). A worktree whose allocation failed stays as a failed entry
  (`git-worktree-manager.ts:106`), though the executor calls allocation idempotent.

Calls and sessions:

- A retried nested workflow keeps the child builder (`engine.ts:252`), so the keys of
  its calls depend on what the failed round did, against `keys.ts:4`. With `Leads = 2` and
  `Rounds = 2` TLC finds `OwnAnswers` violated after a crash: less fails in the rerun, its
  body counts differently, and a call is handed the recorded answer of another.
- After an error event the watchdog is disarmed while the stream stays open
  (`acp-runtime-adapter.ts:571`). A checkpoint that cannot be stored leaves a session
  running that nobody knows (`daemon.ts:1418`). `updateSessionState` writes over rows
  that have ended (`daemon.ts:1045`).
- A non-quota error of a fallback is swallowed (`failover-runtime.ts:237`); a
  cancellation during a failover reaches the session that is already over (`:118`).
- A failed version probe of dsh is memoised for good
  (`harness-deepseek/src/index.ts:278`), and its overlay directory stays when the payload
  cannot be written (`:133`).

People, channels and services:

- A reply that quotes an answered question acts on another pending one
  (`gateway.ts:378`). Questions answered over MCP leave their correlations active.
- A late echo is taken for a reply (`whatsapp-adapter.ts:221`). A socket closed before the
  challenge leaves its promise open (`openclaw-gateway.ts:205`). Two sends build two
  adapters at once (`unified-channel-transport.ts:218`).
- Two saves share one temporary file (`config-store.ts:107`), though the comment at
  `:93` says "atomically"; a torn file starts the daemon without configuration
  (`daemon.ts:101`). A verification profile without a verifier is accepted and refused
  at the start (`daemon.ts:1299`).
- `loaded` is set before the file was read (`capabilities/src/index.ts:305`,
  `durable-service.ts:203`): a call that comes meanwhile works on an empty map and may
  write it back. A failed write poisons the write queue (`:214`).
- Linear's and Jira's adapters know dependencies from memory only (`linear.ts:264`);
  GitHub's cycle check sees one page of issues (`github-issues.ts:97`); a Jira transition
  that is not offered fails silently (`jira.ts:263`).

## Plan

Done: the modules above, their runs, the proofs of every safety property the runs
check, and of five refinements. What is left, in this order:

1. The lifecycle steps of `DaemonLoop` against `PrLifecycle`, as its gate against
   `ApprovalGate`: today they are matched by argument.
2. Abstract specifications of services (a durable map of verdicts behind
   `VerificationRuns`, a set of approved tools behind `Capabilities`) and the simulation.
3. Weaker hypotheses for `OneExecution`: stop and restart of tasks that do not execute.
4. Failures of the runtime store, whose effect is that of a crash at the next row.


## Not modelled

`PROJECT.json` (`components`) gives every part its status.

- Wording and rendering of messages, prompts and pull requests, schemas of single
  fields, redaction, provider payloads, HTTP and MCP transport: data that no
  property here tells apart.
- Pairing with WhatsApp, message formats of the chat services, the PM chat, PM
  dashboards and commands to agents in chat messages: they read state, or come down to
  controls that are modelled.
- Migrations of the store and of the configuration: sequential, once, before anything
  else runs. Table access is the rows of the modules' durable variables.
- `pipeline` and budgets of the engine, which no built-in workflow uses; a workflow with
  several repositories; evidence files of verification runs; download and checksums of
  managed tools, which are one step that may fail.
- The CLI with setup and doctor (sequential input and output on one terminal), the ADE
  bridge (nothing constructs it in the daemon, and no decision depends on it), the API
  app (a stub), the domain types (the values of the models' variables).

What the daemon's own code does not decide (CI, the servers of trackers, SCM and chats,
harness backends, agents, people) is nondeterministic and marked external.
