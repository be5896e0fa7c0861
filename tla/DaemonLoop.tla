------------------------------ MODULE DaemonLoop ------------------------------
(***************************************************************************)
(* The scheduling heart of the daemon: RunSupervisor (scheduler.ts), the   *)
(* DaemonLoop that polls the tracker and executes tasks (daemon-loop.ts),  *)
(* and the composition root's handlers that touch the same state: operator *)
(* tools, intervention answers, restart and shutdown (daemon.ts, tools.ts).*)
(*                                                                         *)
(* An action runs from one await to the next: everything JavaScript does   *)
(* without yielding is one step, everything that waits for the tracker,    *)
(* the store, an agent or a channel is a separate one, so polls, task      *)
(* executions, human answers and crashes interleave as they do in Node.    *)
(*                                                                         *)
(* A definition marked "mutant" is a broken variant of the one it precedes: *)
(* with it in place of the original, a property of a run is violated.      *)
(***************************************************************************)
EXTENDS Naturals, FiniteSets

CONSTANTS
  Tasks,            \* the tracker's tasks
  Blocks,           \* native "blocks" edges: <<blocker, blocked>>
  MaxParallel,      \* config.concurrency.maxParallelTasks
  Polls,            \* poll ticks that may be in flight at the same time
  Slots,            \* concurrent executions of one task the model can hold
  GatedTasks,       \* tasks whose workflow asks for approval first (high-risk)
  AutoMerge,        \* config.mergePolicy without requireApproval
  Controls,         \* operator tools in use: "pause", "resume", "stop", "restart"
  Answers,          \* replies humans give to an intervention
  Repeats,          \* a resolved intervention may be resolved again (MCP)
  Edits,            \* tracker edits made by people: <<from, to>> statuses
  Crashes,          \* the process may die at any point
  Outages           \* the tracker may be unreachable while the daemon starts

Statuses == {"backlog", "ready", "blocked", "completed"}
RunStates == {"none", "running", "completed", "failed", "waiting", "interrupted"}
GateStates == {"none", "open", "approved", "rejected"}
PrStates == {"none", "open", "merged"}
Stages == {"idle", "launched", "starting", "workflow", "failing", "reporting",
           "gating", "gated", "lifecycle", "closed", "clearing"}
AllControls == {"pause", "resume", "stop", "restart"}
AllAnswers == {"retry", "free-text", "approve", "stop", "switch-harness"}
Applications == {<<"apply", ask, a>> : ask \in {"incident", "gate"}, a \in AllAnswers}
Writes == {<<"write", "ready">>, <<"write", "blocked">>}

ASSUME DaemonAssumption ==
  /\ IsFiniteSet(Tasks)
  /\ Blocks \subseteq Tasks \X Tasks
  /\ MaxParallel \in Nat \ {0}
  /\ Slots \subseteq Nat /\ Slots # {}
  /\ GatedTasks \subseteq Tasks
  /\ AutoMerge \in BOOLEAN /\ Repeats \in BOOLEAN
  /\ Crashes \in BOOLEAN /\ Outages \in BOOLEAN
  /\ Controls \subseteq AllControls
  /\ Answers \subseteq AllAnswers
  /\ Edits \subseteq Statuses \X Statuses

VARIABLES
  \* durable or external: survives a crash of the daemon
  status,           \* the tracker's state of each task
  runState,         \* the task's row in the runs table (one run id per task)
  journal,          \* does the task's durable journal hold completed calls?
  incident,         \* statuses its operational incidents have: open, resolved
  gate,             \* its workflow-gate intervention
  pr,               \* its pull request on the SCM
  \* memory of the process
  phase,            \* down, booting (MCP and channels live), up
  activeRuns, completedTasks, manuallyPaused,     \* RunSupervisor
  poll,             \* each in-flight DaemonLoop.tick
  exec,             \* stage of each runTask of each task
  inflight,         \* handlers between two awaits, per task
  \* history
  done              \* tasks the tracker has ever shown as completed

durable == <<status, runState, journal, incident, gate, pr, done>>
supervisor == <<activeRuns, completedTasks, manuallyPaused>>
vars == <<status, runState, journal, incident, gate, pr, phase, activeRuns,
          completedTasks, manuallyPaused, poll, exec, inflight, done>>

Blockers(t) == {b \in Tasks : <<b, t>> \in Blocks}
Busy(t) == \E s \in Slots : exec[t][s] # "idle"
Alive == phase \in {"booting", "up"}

NoPoll == [pc |-> "idle", seen |-> [t \in Tasks |-> "backlog"], active |-> {}, todo |-> {}]
Idle == [t \in Tasks |-> [s \in Slots |-> "idle"]]

TypeOK ==
  /\ status \in [Tasks -> Statuses]
  /\ runState \in [Tasks -> RunStates]
  /\ journal \in [Tasks -> BOOLEAN]
  /\ incident \in [Tasks -> SUBSET {"open", "resolved"}]
  /\ gate \in [Tasks -> GateStates]
  /\ pr \in [Tasks -> PrStates]
  /\ phase \in {"down", "booting", "up"}
  /\ activeRuns \in SUBSET Tasks
  /\ completedTasks \in SUBSET Tasks
  /\ manuallyPaused \in SUBSET Tasks
  /\ poll \in [Polls -> [pc : {"idle", "read", "promoting"}, seen : [Tasks -> Statuses],
                         active : SUBSET Tasks, todo : SUBSET Tasks]]
  /\ exec \in [Tasks -> [Slots -> Stages]]
  /\ inflight \in [Tasks -> SUBSET (Applications \cup Writes)]
  /\ done \in SUBSET Tasks

Init ==
  /\ status \in [Tasks -> {"backlog", "ready"}]
  /\ runState = [t \in Tasks |-> "none"]
  /\ journal = [t \in Tasks |-> FALSE]
  /\ incident = [t \in Tasks |-> {}]
  /\ gate = [t \in Tasks |-> "none"]
  /\ pr = [t \in Tasks |-> "none"]
  /\ phase = "booting"
  /\ activeRuns = {} /\ completedTasks = {} /\ manuallyPaused = {}
  /\ poll = [k \in Polls |-> NoPoll]
  /\ exec = Idle
  /\ inflight = [t \in Tasks |-> {}]
  /\ done = {}

(***************************************************************************)
(* Starting, stopping and dying                                            *)
(***************************************************************************)

\* Everything the process holds in memory is gone.
Forget ==
  /\ phase' = "down"
  /\ activeRuns' = {} /\ completedTasks' = {} /\ manuallyPaused' = {}
  /\ poll' = [k \in Polls |-> NoPoll]
  /\ exec' = Idle
  /\ inflight' = [t \in Tasks |-> {}]

Crash == Crashes /\ Alive /\ Forget /\ UNCHANGED durable

\* Daemon.stop: runs that are still executing when settle() gives up are
\* marked interrupted before the store is closed.
Shutdown ==
  /\ Crashes /\ phase = "up"
  /\ Forget
  /\ runState' = [t \in Tasks |-> IF runState[t] = "running" THEN "interrupted" ELSE runState[t]]
  /\ UNCHANGED <<status, journal, incident, gate, pr, done>>

\* The store, the MCP server and the channels come up before reconciliation.
Boot ==
  /\ phase = "down"
  /\ phase' = "booting"
  /\ UNCHANGED <<durable, supervisor, poll, exec, inflight>>

\* A runTask begins in a slot that is free.
FreeSlot(t) == CHOOSE s \in Slots : exec[t][s] = "idle"
HasRoom(S) == \A t \in S : \E s \in Slots : exec[t][s] = "idle"
LaunchAll(S) ==
  [t \in Tasks |-> IF t \in S THEN [exec[t] EXCEPT ![FreeSlot(t)] = "launched"] ELSE exec[t]]

ResumableRunning == {t \in Tasks : runState[t] = "running" /\ status[t] # "completed"}  \* mutant
Resumable == {t \in Tasks : runState[t] \in {"running", "interrupted"} /\ status[t] # "completed"}
HumanGatedNone == {}                                                                 \* mutant
HumanGatedOrFailed == {t \in Tasks : runState[t] \in {"waiting", "failed"}}            \* mutant
HumanGated == {t \in Tasks : runState[t] = "waiting" /\ status[t] # "completed"}

\* recoverActive adds the resumable runs, recoverPaused takes the gated ones out.
SeededFailures == activeRuns \cup {t \in Tasks : runState[t] # "none"}                 \* mutant
Seeded == (activeRuns \cup Resumable) \ HumanGated

\* DaemonLoop.reconcile, then start().
Reconcile ==
  /\ phase = "booting"
  /\ HasRoom(Resumable)
  /\ phase' = "up"
  /\ activeRuns' = Seeded
  /\ completedTasks' = completedTasks \ (Resumable \cup HumanGated)
  /\ manuallyPaused' = manuallyPaused \cup HumanGated
  /\ exec' = LaunchAll(Resumable)
  /\ UNCHANGED <<durable, poll, inflight>>

\* The task graph cannot be read: nothing is seeded, the daemon starts anyway.
ReconcileWithoutTracker ==
  /\ Outages /\ phase = "booting"
  /\ phase' = "up"
  /\ UNCHANGED <<durable, supervisor, poll, exec, inflight>>

(***************************************************************************)
(* DaemonLoop.tick and RunSupervisor.tick                                  *)
(***************************************************************************)

\* tracker.listTasks inside getTaskGraph.
TickRead(k) ==
  /\ phase = "up" /\ poll[k].pc = "idle"
  /\ poll' = [poll EXCEPT ![k] = [NoPoll EXCEPT !.pc = "read", !.seen = status]]
  /\ UNCHANGED <<durable, supervisor, phase, exec, inflight>>

UnblockedUnlessBlocked(seen, t) == \A b \in Blockers(t) : seen[b] # "blocked"         \* mutant
Unblocked(seen, t) == \A b \in Blockers(t) : seen[b] = "completed"

PromotableUnlessReady(seen) ==                                                       \* mutant
  {t \in Tasks : seen[t] # "ready" /\ t \notin activeRuns \cup completedTasks /\ Unblocked(seen, t)}
Promotable(seen) ==
  {t \in Tasks : /\ seen[t] = "backlog"
                 /\ t \notin activeRuns \cup completedTasks
                 /\ Unblocked(seen, t)}

\* RunSupervisor.tick starts once the dependencies are read: it snapshots the
\* active runs and promoteDependents picks what it will promote.
TickPlan(k) ==
  /\ poll[k].pc = "read"
  /\ poll' = [poll EXCEPT ![k] = [pc |-> "promoting", seen |-> poll[k].seen,
                                  active |-> activeRuns, todo |-> Promotable(poll[k].seen)]]
  /\ UNCHANGED <<durable, supervisor, phase, exec, inflight>>

\* promoteToReady: the tracker reopens the issue and makes dk:ready its only
\* state label, whatever happened to it since the snapshot.
TickPromote(k, t) ==
  /\ poll[k].pc = "promoting" /\ t \in poll[k].todo
  /\ poll' = [poll EXCEPT ![k] = [pc |-> "promoting", active |-> poll[k].active,
                                  seen |-> [poll[k].seen EXCEPT ![t] = "ready"],
                                  todo |-> poll[k].todo \ {t}]]
  /\ status' = [status EXCEPT ![t] = "ready"]
  /\ UNCHANGED <<runState, journal, incident, gate, pr, done, supervisor, phase, exec, inflight>>

\* A promotion the tracker refuses does not abort the tick.
TickPromoteFails(k, t) ==
  /\ Outages
  /\ poll[k].pc = "promoting" /\ t \in poll[k].todo
  /\ poll' = [poll EXCEPT ![k].todo = @ \ {t}]
  /\ UNCHANGED <<durable, supervisor, phase, exec, inflight>>

\* computeReadyTasks over the snapshot, then the filters on current state.
CandidatesStale(k) ==                                                                \* mutant
  {t \in Tasks : /\ poll[k].seen[t] = "ready" /\ t \notin poll[k].active \cup manuallyPaused
                 /\ Unblocked(poll[k].seen, t)}
Candidates(k) ==
  {t \in Tasks : /\ poll[k].seen[t] = "ready"
                 /\ t \notin poll[k].active
                 /\ Unblocked(poll[k].seen, t)
                 /\ t \notin manuallyPaused \cup completedTasks}

AvailableAlways == MaxParallel                                                       \* mutant
Available == IF Cardinality(activeRuns) < MaxParallel
             THEN MaxParallel - Cardinality(activeRuns) ELSE 0

\* slice(0, available) keeps the first candidates in the tracker's listing
\* order; S is any such prefix. The double-schedule guard reads fresh state.
TickLaunch(k, S) ==
  /\ poll[k].pc = "promoting" /\ poll[k].todo = {}
  /\ S \subseteq Candidates(k)
  /\ Cardinality(S) <= Available
  /\ Cardinality(S) = Available \/ S = Candidates(k)
  /\ HasRoom(S \ activeRuns)
  /\ activeRuns' = activeRuns \cup S
  /\ exec' = LaunchAll(S \ activeRuns)
  /\ poll' = [poll EXCEPT ![k] = NoPoll]
  /\ UNCHANGED <<durable, completedTasks, manuallyPaused, phase, inflight>>

(***************************************************************************)
(* DaemonLoop.runTask                                                      *)
(***************************************************************************)

\* deleteTaskJournal
DropJournal(t) == [journal EXCEPT ![t] = FALSE]

Enter(t, s, stage) == exec' = [exec EXCEPT ![t][s] = stage]

\* Open operational incidents of the task are superseded by the new execution.
Supersede(t, s) ==
  /\ exec[t][s] = "launched"
  /\ incident' = [incident EXCEPT ![t] = @ \ {"open"}]
  /\ Enter(t, s, "starting")
  /\ UNCHANGED <<status, runState, journal, gate, pr, done, supervisor, phase, poll, inflight>>

RecordRunning(t, s) ==
  /\ exec[t][s] = "starting"
  /\ runState' = [runState EXCEPT ![t] = "running"]
  /\ Enter(t, s, "workflow")
  /\ UNCHANGED <<status, journal, incident, gate, pr, done, supervisor, phase, poll, inflight>>

\* An agent call returns and its result is journalled.
AgentCall(t, s) ==
  /\ exec[t][s] = "workflow" /\ ~journal[t]
  /\ journal' = [journal EXCEPT ![t] = TRUE]
  /\ UNCHANGED <<status, runState, incident, gate, pr, done, supervisor, phase, poll, exec, inflight>>

\* approvalGate.request finds no decision yet: the gate intervention is saved
\* (or found open), and its notification is being delivered.
RequestGate(t, s) ==
  /\ exec[t][s] = "workflow" /\ t \in GatedTasks /\ journal[t]
  /\ gate[t] \in {"none", "open"}
  /\ gate' = [gate EXCEPT ![t] = "open"]
  /\ Enter(t, s, "gating")
  /\ UNCHANGED <<status, runState, journal, incident, pr, done, supervisor, phase, poll, inflight>>

RecordWaiting(t, s) ==
  /\ exec[t][s] = "gating"
  /\ runState' = [runState EXCEPT ![t] = "waiting"]
  /\ Enter(t, s, "gated")
  /\ UNCHANGED <<status, journal, incident, gate, pr, done, supervisor, phase, poll, inflight>>

WorkflowSucceedsAndClears(t, s) ==                                                   \* mutant
  /\ exec[t][s] = "workflow" /\ journal[t]
  /\ runState' = [runState EXCEPT ![t] = "completed"]
  /\ journal' = [journal EXCEPT ![t] = FALSE]
  /\ Enter(t, s, "lifecycle")
  /\ UNCHANGED <<status, incident, gate, pr, done, supervisor, phase, poll, inflight>>

WorkflowSucceeds(t, s) ==
  /\ exec[t][s] = "workflow" /\ journal[t]
  /\ t \in GatedTasks => gate[t] = "approved"
  /\ runState' = [runState EXCEPT ![t] = "completed"]
  /\ Enter(t, s, "lifecycle")
  /\ UNCHANGED <<status, journal, incident, gate, pr, done, supervisor, phase, poll, inflight>>

\* The workflow throws, or reports success = false (a rejected gate included).
WorkflowFails(t, s) ==
  /\ exec[t][s] = "workflow"
  /\ runState' = [runState EXCEPT ![t] = "failed"]
  /\ Enter(t, s, "failing")
  /\ UNCHANGED <<status, journal, incident, gate, pr, done, supervisor, phase, poll, inflight>>

\* interventionService.create commits the record before it is notified ...
CreateIncident(t, s) ==
  /\ exec[t][s] = "failing"
  /\ incident' = [incident EXCEPT ![t] = @ \cup {"open"}]
  /\ Enter(t, s, "reporting")
  /\ UNCHANGED <<status, runState, journal, gate, pr, done, supervisor, phase, poll, inflight>>

FailAndPauseUnasked(t, s) ==                                                         \* mutant
  /\ exec[t][s] \in {"failing", "reporting", "gated"}
  /\ activeRuns' = activeRuns \ {t}
  /\ manuallyPaused' = manuallyPaused \cup {t}
  /\ Enter(t, s, "idle")
  /\ UNCHANGED <<durable, completedTasks, phase, poll, inflight>>

\* ... and only when the notification is delivered is the task failed and
\* paused; a gated workflow pauses the same way.
FailAndPause(t, s) ==
  /\ exec[t][s] \in {"reporting", "gated"}
  /\ activeRuns' = activeRuns \ {t}
  /\ manuallyPaused' = manuallyPaused \cup {t}
  /\ Enter(t, s, "idle")
  /\ UNCHANGED <<durable, completedTasks, phase, poll, inflight>>

\* PrLifecycleOrchestrator.run, by its effects (module PrLifecycle has it all).
OpenPr(t, s) ==
  /\ exec[t][s] = "lifecycle" /\ pr[t] = "none"
  /\ pr' = [pr EXCEPT ![t] = "open"]
  /\ UNCHANGED <<status, runState, journal, incident, gate, done, supervisor, phase, poll, exec, inflight>>

\* The pull request waits for a person: the task stays in activeRuns.
AwaitApproval(t, s) ==
  /\ exec[t][s] = "lifecycle" /\ pr[t] = "open" /\ ~AutoMerge
  /\ Enter(t, s, "idle")
  /\ UNCHANGED <<durable, supervisor, phase, poll, inflight>>

MergePr(t, s) ==
  /\ exec[t][s] = "lifecycle" /\ pr[t] = "open" /\ AutoMerge
  /\ pr' = [pr EXCEPT ![t] = "merged"]
  /\ UNCHANGED <<status, runState, journal, incident, gate, done, supervisor, phase, poll, exec, inflight>>

\* Merged, or a no-code outcome that needs no pull request.
CloseTracker(t, s) ==
  /\ exec[t][s] = "lifecycle" /\ pr[t] # "open"
  /\ status' = [status EXCEPT ![t] = "completed"]
  /\ done' = done \cup {t}
  /\ Enter(t, s, "closed")
  /\ UNCHANGED <<runState, journal, incident, gate, pr, supervisor, phase, poll, inflight>>

\* Any lifecycle state but merged, no-code-outcome and awaiting-approval.
LifecycleFails(t, s) ==
  /\ exec[t][s] \in {"lifecycle", "closed"}
  /\ Enter(t, s, "failing")
  /\ UNCHANGED <<durable, supervisor, phase, poll, inflight>>

CompleteTask(t, s) ==
  /\ exec[t][s] = "closed"
  /\ activeRuns' = activeRuns \ {t}
  /\ completedTasks' = completedTasks \cup {t}
  /\ Enter(t, s, "clearing")
  /\ UNCHANGED <<durable, manuallyPaused, phase, poll, inflight>>

ClearJournal(t, s) ==
  /\ exec[t][s] = "clearing"
  /\ journal' = DropJournal(t)
  /\ Enter(t, s, "idle")
  /\ UNCHANGED <<status, runState, incident, gate, pr, done, supervisor, phase, poll, inflight>>

(***************************************************************************)
(* Operators: the dk_*_task tools                                          *)
(***************************************************************************)

PauseTask(t) ==
  /\ Alive /\ "pause" \in Controls
  /\ manuallyPaused' = manuallyPaused \cup {t}
  /\ UNCHANGED <<durable, activeRuns, completedTasks, phase, poll, exec, inflight>>

ResumeTask(t) ==
  /\ Alive /\ "resume" \in Controls
  /\ manuallyPaused' = manuallyPaused \ {t}
  /\ UNCHANGED <<durable, activeRuns, completedTasks, phase, poll, exec, inflight>>

\* stopTask and retryTask, and the tracker write each of their callers awaits.
Stopping(t) ==
  /\ activeRuns' = activeRuns \ {t}
  /\ completedTasks' = completedTasks \ {t}
  /\ manuallyPaused' = manuallyPaused \cup {t}

RetryingWithinRun(t) ==                                                              \* mutant
  /\ activeRuns' = activeRuns \cup {t}
  /\ completedTasks' = completedTasks \ {t}
  /\ manuallyPaused' = manuallyPaused \ {t}

Retrying(t) ==
  /\ activeRuns' = activeRuns \ {t}
  /\ completedTasks' = completedTasks \ {t}
  /\ manuallyPaused' = manuallyPaused \ {t}

StopTask(t) ==
  /\ Alive /\ "stop" \in Controls
  /\ Stopping(t)
  /\ inflight' = [inflight EXCEPT ![t] = @ \cup {<<"write", "blocked">>}]
  /\ UNCHANGED <<durable, phase, poll, exec>>

RestartTask(t) ==
  /\ Alive /\ "restart" \in Controls
  /\ Retrying(t)
  /\ inflight' = [inflight EXCEPT ![t] = @ \cup {<<"write", "ready">>}]
  /\ UNCHANGED <<durable, phase, poll, exec>>

\* tracker.setBlocked leaves a closed issue closed; updateTask(ready) reopens.
TrackerWrite(t, w) ==
  /\ w \in inflight[t] \cap Writes
  /\ status' = [status EXCEPT ![t] = IF w[2] = "blocked" /\ @ = "completed" THEN @ ELSE w[2]]
  /\ inflight' = [inflight EXCEPT ![t] = @ \ {w}]
  /\ UNCHANGED <<runState, journal, incident, gate, pr, done, supervisor, phase, poll, exec>>

\* A write the tracker refuses: the tool reports it, or the reply handler
\* opens an incident.
TrackerWriteFails(t, w, told) ==
  /\ Outages /\ w \in inflight[t] \cap Writes
  /\ incident' = [incident EXCEPT ![t] = IF told THEN @ \cup {"open"} ELSE @]
  /\ inflight' = [inflight EXCEPT ![t] = @ \ {w}]
  /\ UNCHANGED <<status, runState, journal, gate, pr, done, supervisor, phase, poll, exec>>

(***************************************************************************)
(* Answers: a reply is resolved durably, then applied                      *)
(***************************************************************************)

AnswerIncident(t, a) ==
  /\ Alive /\ a \in Answers
  /\ "open" \in incident[t] \/ (Repeats /\ "resolved" \in incident[t])
  /\ incident' = [incident EXCEPT ![t] = {"resolved"}]
  /\ inflight' = [inflight EXCEPT ![t] = @ \cup {<<"apply", "incident", a>>}]
  /\ UNCHANGED <<status, runState, journal, gate, pr, done, supervisor, phase, poll, exec>>

AnswerGateAnew(t, a) ==                                                              \* mutant
  /\ Alive /\ a \in Answers
  /\ gate[t] = "open" \/ (Repeats /\ gate[t] \in {"approved", "rejected"})
  /\ gate' = [gate EXCEPT ![t] = IF a = "approve" THEN "approved" ELSE "rejected"]
  /\ inflight' = [inflight EXCEPT ![t] = @ \cup {<<"apply", "gate", a>>}]
  /\ UNCHANGED <<status, runState, journal, incident, pr, done, supervisor, phase, poll, exec>>

AnswerGate(t, a) ==
  /\ Alive /\ a \in Answers
  /\ gate[t] = "open" \/ (Repeats /\ gate[t] \in {"approved", "rejected"})
  /\ gate' = [gate EXCEPT ![t] = IF @ # "open" THEN @
                                 ELSE IF a = "approve" THEN "approved" ELSE "rejected"]
  /\ inflight' = [inflight EXCEPT ![t] = @ \cup {<<"apply", "gate", a>>}]
  /\ UNCHANGED <<status, runState, journal, incident, pr, done, supervisor, phase, poll, exec>>

Relaunches(x) == x[3] \in {"retry", "free-text"} \/ (x[3] = "approve" /\ x[2] = "gate")

\* applyInterventionResolution of a task-scoped intervention.
ApplyRetry(t, x) ==
  /\ x \in inflight[t] \cap Applications /\ Relaunches(x)
  /\ journal' = DropJournal(t)
  /\ Retrying(t)
  /\ inflight' = [inflight EXCEPT ![t] = (@ \ {x}) \cup {<<"write", "ready">>}]
  /\ UNCHANGED <<status, runState, incident, gate, pr, done, phase, poll, exec>>

ApplyStop(t, x) ==
  /\ x \in inflight[t] \cap Applications /\ x[3] = "stop"
  /\ Stopping(t)
  /\ inflight' = [inflight EXCEPT ![t] = (@ \ {x}) \cup {<<"write", "blocked">>}]
  /\ UNCHANGED <<durable, phase, poll, exec>>

\* No branch of the handler matches: the answer changes nothing.
ApplyNothing(t, x) ==
  /\ x \in inflight[t] \cap Applications
  /\ ~Relaunches(x) /\ x[3] # "stop"
  /\ inflight' = [inflight EXCEPT ![t] = @ \ {x}]
  /\ UNCHANGED <<durable, supervisor, phase, poll, exec>>

(***************************************************************************)
(* People working on the tracker and on the pull request                   *)
(***************************************************************************)

EditTracker(t) ==
  /\ \E e \in Edits : status[t] = e[1] /\ status' = [status EXCEPT ![t] = e[2]]
  /\ done' = IF status'[t] = "completed" THEN done \cup {t} ELSE done
  /\ UNCHANGED <<runState, journal, incident, gate, pr, supervisor, phase, poll, exec, inflight>>

HumanMerges(t) ==
  /\ ~AutoMerge /\ pr[t] = "open"
  /\ pr' = [pr EXCEPT ![t] = "merged"]
  /\ UNCHANGED <<status, runState, journal, incident, gate, done, supervisor, phase, poll, exec, inflight>>

(***************************************************************************)
(* The specification                                                       *)
(***************************************************************************)

Tick(k) ==
  \/ TickRead(k)
  \/ TickPlan(k)
  \/ \E t \in Tasks : TickPromote(k, t) \/ TickPromoteFails(k, t)
  \/ \E S \in SUBSET Tasks : TickLaunch(k, S)

RunTask(t, s) ==
  \/ Supersede(t, s) \/ RecordRunning(t, s) \/ AgentCall(t, s)
  \/ RequestGate(t, s) \/ RecordWaiting(t, s)
  \/ WorkflowSucceeds(t, s) \/ WorkflowFails(t, s)
  \/ CreateIncident(t, s) \/ FailAndPause(t, s)
  \/ OpenPr(t, s) \/ AwaitApproval(t, s) \/ MergePr(t, s)
  \/ CloseTracker(t, s) \/ LifecycleFails(t, s)
  \/ CompleteTask(t, s) \/ ClearJournal(t, s)

Operate(t) == PauseTask(t) \/ ResumeTask(t) \/ StopTask(t) \/ RestartTask(t)

Answer(t) == \E a \in AllAnswers : AnswerIncident(t, a) \/ AnswerGate(t, a)

Handle(t) ==
  \/ \E x \in Applications : ApplyRetry(t, x) \/ ApplyStop(t, x) \/ ApplyNothing(t, x)
  \/ \E w \in Writes : TrackerWrite(t, w)

Next ==
  \/ Crash \/ Shutdown \/ Boot \/ Reconcile \/ ReconcileWithoutTracker
  \/ \E k \in Polls : Tick(k)
  \/ \E t \in Tasks : \E s \in Slots : RunTask(t, s)
  \/ \E t \in Tasks : Operate(t)
  \/ \E t \in Tasks : Answer(t)
  \/ \E t \in Tasks : Handle(t)
  \/ \E t \in Tasks : \E w \in Writes, told \in BOOLEAN : TrackerWriteFails(t, w, told)
  \/ \E t \in Tasks : EditTracker(t)
  \/ \E t \in Tasks : HumanMerges(t)

Spec == Init /\ [][Next]_vars

\* The timer keeps polling, promises settle, and an agent turn ends (the
\* harnesses bound it); people and crashes owe nothing.
FairSpec ==
  /\ Spec
  /\ WF_vars(Boot) /\ WF_vars(Reconcile)
  /\ \A k \in Polls : WF_vars(Tick(k))
  /\ \A t \in Tasks : \A s \in Slots : WF_vars(RunTask(t, s))
  /\ \A t \in Tasks : WF_vars(Handle(t))

(***************************************************************************)
(* Properties                                                              *)
(***************************************************************************)

Starts(t) == \E s \in Slots : exec[t][s] = "idle" /\ exec'[t][s] = "launched"
Asked(t) == "open" \in incident[t] \/ gate[t] = "open"

\* A task is executed only when every native blocker was completed at some
\* point: neither a stale snapshot, a promotion, an operator nor a restart lets
\* a dependent run ahead of its blockers (computeReadyTasks, reconcile).
BlockersDone == \A t \in Tasks : Busy(t) => Blockers(t) \subseteq done

\* One task never has two executions at work in the same process, however its
\* polls overlap (the double-schedule guard, completedTasks, recoverActive).
OneExecutionPerTask ==
  \A t \in Tasks : \A r, s \in Slots :
    exec[t][r] # "idle" /\ exec[t][s] # "idle" => r = s

\* No more tasks are at work than maxParallelTasks, across overlapping polls
\* and across restarts, where reconcile resumes runs without counting them.
AtWork(t) == \E s \in Slots : exec[t][s] \notin {"idle", "clearing"}
WithinLimit == Cardinality({t \in Tasks : AtWork(t)}) <= MaxParallel

\* Whatever the daemon paused by itself has a question a person can answer, an
\* open incident or an open workflow gate, unless a person stopped it (runTask,
\* recoverPaused, applyInterventionResolution).
PausedIsAsked ==
  \A t \in Tasks :
    t \in manuallyPaused /\ ~Busy(t) /\ inflight[t] = {}
      => Asked(t) \/ status[t] = "blocked"

\* Once the daemon is up, a run row that says running or interrupted is backed
\* by an execution: reconcile forgets none, and every outcome rewrites the row.
RunningRowsAreExecuting ==
  phase = "up" =>
    \A t \in Tasks :
      runState[t] \in {"running", "interrupted"} /\ status[t] # "completed" => Busy(t)

\* A concurrency slot is held by an execution or by a pull request that waits
\* for a person: no path through runTask leaves without freeing it.
NoLeakedSlot ==
  \A t \in activeRuns : Busy(t) \/ (~AutoMerge /\ pr[t] # "none")

\* A run that was recorded as waiting at a workflow gate is not started again
\* before somebody answers, daemon restarts included (recoverPaused).
GatedIsNotRestarted ==
  [][\A t \in Tasks : Starts(t) /\ gate[t] = "open" => runState[t] # "waiting"]_vars

\* A task the daemon completed is not reopened by the daemon: no promotion
\* decided on an old snapshot reaches a closed issue (promoteDependents).
ClosedStaysClosed ==
  [][\A t \in Tasks : status[t] = "completed" => status'[t] = "completed"]_vars

\* Once the pull request is merged no agent works on the task again: what is
\* left is the tracker transition and the cleanup (pr-lifecycle.ts 477-514).
MergedIsNotRedone ==
  [][\A t \in Tasks : ~journal[t] /\ journal'[t] => pr[t] # "merged"]_vars

\* What the people who watch the tracker see of the daemon is TaskBoard: whatever
\* polls overlap and wherever the daemon dies, tasks are begun in order and within
\* the limit, and none is dropped without a result, a question or a pull request
\* (RunSupervisor.tick, reconcile, runTask).
Board == INSTANCE TaskBoard
  WITH working <- {t \in Tasks : AtWork(t)}, asked <- {t \in Tasks : Asked(t)},
       proposed <- {t \in Tasks : pr[t] # "none"}, alive <- phase = "up", Limit <- MaxParallel
KeepsTheBoard == Board!Spec

\* The gate of each gated task is GateDecision, as ApprovalGate has it in detail: no
\* second answer, restart or reopening decides it again, and the lifecycle begins only
\* behind an approved gate (runTask, resolve, approvalGate).
Gate(t) == INSTANCE GateDecision
  WITH verdict <- gate[t], behind <- \E s \in Slots : exec[t][s] = "lifecycle"
GatesDecide ==
  /\ \A t \in GatedTasks : Gate(t)!Init
  /\ [][\A t \in GatedTasks : Gate(t)!Next \/ UNCHANGED Gate(t)!vars]_vars

\* Once the daemon stays up, every task whose blockers stay completed gets
\* executed, each time again that a person lets it go on: it is completed in the
\* tracker or paused for a person, starves behind no other task, and is not
\* forgotten by a restart.
UnblockedIsHandled ==
  \A t \in Tasks :
    <>[](phase = "up" /\ Unblocked(status, t)) => []<>(t \in done \/ t \in manuallyPaused)
=============================================================================
