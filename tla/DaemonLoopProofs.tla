--------------------------- MODULE DaemonLoopProofs ---------------------------
(***************************************************************************)
(* Theorems about DaemonLoop, for every set of tasks, dependency graph,    *)
(* limit, number of overlapping polls and number of executions per task.   *)
(***************************************************************************)
EXTENDS DaemonLoop, FiniteSetTheorems, TLAPS

(***************************************************************************)
(* Launching                                                               *)
(***************************************************************************)

\* LaunchAll puts one launched execution in a slot that was idle, for exactly
\* the tasks it is given.
LEMMA LaunchAllEffect ==
  ASSUME exec \in [Tasks -> [Slots -> Stages]], NEW S \in SUBSET Tasks, HasRoom(S)
  PROVE  /\ LaunchAll(S) \in [Tasks -> [Slots -> Stages]]
         /\ \A t \in S : \E s \in Slots :
              /\ exec[t][s] = "idle"
              /\ LaunchAll(S)[t][s] = "launched"
              /\ \A r \in Slots \ {s} : LaunchAll(S)[t][r] = exec[t][r]
         /\ \A t \in Tasks \ S : LaunchAll(S)[t] = exec[t]
<1>1. \A t \in S : FreeSlot(t) \in Slots /\ exec[t][FreeSlot(t)] = "idle"
  BY DEF HasRoom, FreeSlot
<1>2. \A t \in S : LaunchAll(S)[t] = [exec[t] EXCEPT ![FreeSlot(t)] = "launched"]
  BY DEF LaunchAll
<1>3. \A t \in Tasks \ S : LaunchAll(S)[t] = exec[t]
  BY DEF LaunchAll
<1>4. \A t \in S : [exec[t] EXCEPT ![FreeSlot(t)] = "launched"] \in [Slots -> Stages]
  BY <1>1 DEF Stages
<1>5. LaunchAll(S) \in [Tasks -> [Slots -> Stages]]
  <2>1. \A t \in Tasks : LaunchAll(S)[t] \in [Slots -> Stages]
    <3>1. ASSUME NEW t \in S PROVE LaunchAll(S)[t] \in [Slots -> Stages]
      BY <1>2, <1>4
    <3>2. ASSUME NEW t \in Tasks \ S PROVE LaunchAll(S)[t] \in [Slots -> Stages]
      BY <1>3
    <3> QED BY <3>1, <3>2
  <2> QED BY <2>1 DEF LaunchAll
<1>6. ASSUME NEW t \in S
      PROVE  /\ LaunchAll(S)[t][FreeSlot(t)] = "launched"
             /\ \A r \in Slots \ {FreeSlot(t)} : LaunchAll(S)[t][r] = exec[t][r]
  <2>1. exec[t] \in [Slots -> Stages]
    OBVIOUS
  <2> QED BY <1>1, <1>2, <2>1
<1>7. ASSUME NEW t \in S
      PROVE  \E s \in Slots : /\ exec[t][s] = "idle"
                              /\ LaunchAll(S)[t][s] = "launched"
                              /\ \A r \in Slots \ {s} : LaunchAll(S)[t][r] = exec[t][r]
  BY <1>1, <1>6
<1> QED BY <1>3, <1>5, <1>7

\* What recoverActive and recoverPaused are given are tasks.
LEMMA ResumableTasks == Resumable \in SUBSET Tasks /\ HumanGated \in SUBSET Tasks
  BY DEF Resumable, HumanGated

\* The answers a handler can hold are applications.
LEMMA ApplicationsOf ==
  ASSUME NEW ask \in {"incident", "gate"}, NEW a \in Answers
  PROVE  <<"apply", ask, a>> \in Applications
  BY DaemonAssumption DEF Applications

\* Entering a stage moves one execution and no other.
LEMMA EnterEffect ==
  ASSUME exec \in [Tasks -> [Slots -> Stages]],
         NEW t \in Tasks, NEW s \in Slots, NEW stage \in Stages, Enter(t, s, stage)
  PROVE  /\ exec' \in [Tasks -> [Slots -> Stages]]
         /\ exec'[t][s] = stage
         /\ \A r \in Slots \ {s} : exec'[t][r] = exec[t][r]
         /\ \A u \in Tasks \ {t} : exec'[u] = exec[u]
<1>1. exec' = [exec EXCEPT ![t] = [exec[t] EXCEPT ![s] = stage]]
  BY DEF Enter
<1>2. [exec[t] EXCEPT ![s] = stage] \in [Slots -> Stages]
  OBVIOUS
<1>3. exec'[t] = [exec[t] EXCEPT ![s] = stage]
  BY <1>1
<1> QED BY <1>1, <1>2, <1>3

(***************************************************************************)
(* Type correctness                                                        *)
(***************************************************************************)

\* The daemon starts with every variable in its type.
LEMMA TypeInit == Init => TypeOK
  BY DaemonAssumption DEF Init, TypeOK, Statuses, RunStates, GateStates, PrStates, Stages, NoPoll, Idle

\* No step takes a variable out of its type.
LEMMA TypeNext == TypeOK /\ [Next]_vars => TypeOK'
<1> SUFFICES ASSUME TypeOK, [Next]_vars PROVE TypeOK'
  OBVIOUS
<1> USE DEF TypeOK, durable, supervisor, Statuses, RunStates, GateStates, PrStates
<1>1. CASE Crash \/ Shutdown
  BY <1>1 DEF Crash, Shutdown, Forget, NoPoll, Idle, Stages
<1>2. CASE Boot
  BY <1>2 DEF Boot
<1>3. CASE Reconcile
  <2>1. LaunchAll(Resumable) \in [Tasks -> [Slots -> Stages]]
    BY <1>3, LaunchAllEffect, ResumableTasks DEF Reconcile
  <2> QED BY <1>3, <2>1, ResumableTasks DEF Reconcile, Seeded
<1>4. CASE ReconcileWithoutTracker
  BY <1>4 DEF ReconcileWithoutTracker
<1>5. ASSUME NEW k \in Polls, Tick(k) PROVE TypeOK'
  <2> DEFINE Poll == [pc : {"idle", "read", "promoting"}, seen : [Tasks -> Statuses],
                      active : SUBSET Tasks, todo : SUBSET Tasks]
  <2>0. poll \in [Polls -> Poll] /\ NoPoll \in Poll
    BY DEF NoPoll
  <2>1. CASE TickRead(k)
    <3>1. [NoPoll EXCEPT !.pc = "read", !.seen = status] \in Poll
      BY <2>0
    <3>2. poll' \in [Polls -> Poll]
      BY <2>0, <2>1, <3>1 DEF TickRead
    <3> QED BY <2>1, <3>2 DEF TickRead
  <2>2. CASE TickPlan(k)
    <3>1. Promotable(poll[k].seen) \in SUBSET Tasks
      BY DEF Promotable
    <3>2. poll' \in [Polls -> Poll]
      BY <2>0, <2>2, <3>1 DEF TickPlan
    <3> QED BY <2>2, <3>2 DEF TickPlan
  <2>3. ASSUME NEW t \in Tasks, TickPromote(k, t) PROVE TypeOK'
    <3>1. [poll[k].seen EXCEPT ![t] = "ready"] \in [Tasks -> Statuses]
      BY <2>0
    <3>2. poll' \in [Polls -> Poll]
      BY <2>0, <2>3, <3>1 DEF TickPromote
    <3> QED BY <2>3, <3>2 DEF TickPromote
  <2>4. ASSUME NEW t \in Tasks, TickPromoteFails(k, t) PROVE TypeOK'
    <3>1. [poll[k] EXCEPT !.todo = @ \ {t}] \in Poll
      <4>1. poll[k] \in Poll
        BY <2>0
      <4> QED BY <4>1
    <3>2. poll' = [poll EXCEPT ![k] = [poll[k] EXCEPT !.todo = @ \ {t}]]
      BY <2>4 DEF TickPromoteFails
    <3> HIDE DEF Poll
    <3>3. ASSUME NEW p \in Poll, poll' = [poll EXCEPT ![k] = p] PROVE poll' \in [Polls -> Poll]
      BY <2>0, <3>3
    <3>4. poll' \in [Polls -> Poll]
      BY <3>1, <3>2, <3>3
    <3> USE DEF Poll
    <3> QED BY <2>4, <3>4 DEF TickPromoteFails
  <2>5. ASSUME NEW S \in SUBSET Tasks, TickLaunch(k, S) PROVE TypeOK'
    <3>1. LaunchAll(S \ activeRuns) \in [Tasks -> [Slots -> Stages]]
      BY <2>5, LaunchAllEffect DEF TickLaunch
    <3>2. poll' \in [Polls -> Poll]
      BY <2>0, <2>5 DEF TickLaunch
    <3> QED BY <2>5, <3>1, <3>2 DEF TickLaunch
  <2> QED BY <1>5, <2>1, <2>2, <2>3, <2>4, <2>5 DEF Tick
<1>6. ASSUME NEW t \in Tasks, NEW s \in Slots, RunTask(t, s) PROVE TypeOK'
  <2>1. exec' \in [Tasks -> [Slots -> Stages]]
    <3>1. CASE exec' = exec
      BY <3>1
    <3>2. CASE \E stage \in Stages : Enter(t, s, stage)
      BY <3>2, EnterEffect
    <3> QED BY <1>6, <3>1, <3>2 DEF RunTask, Stages, Supersede, RecordRunning, AgentCall, RequestGate,
          RecordWaiting, WorkflowSucceeds, WorkflowFails, CreateIncident, FailAndPause, OpenPr,
          AwaitApproval, MergePr, CloseTracker, LifecycleFails, CompleteTask, ClearJournal
  <2>0. CASE Supersede(t, s)
    <3>1. incident' \in [Tasks -> SUBSET {"open", "resolved"}]
      BY <2>0 DEF Supersede
    <3> QED BY <2>1, <2>0, <3>1 DEF Supersede
  <2>2. CASE RecordRunning(t, s) \/ AgentCall(t, s) \/ RequestGate(t, s)
    <3>1. CASE RecordRunning(t, s)
      BY <2>1, <3>1 DEF RecordRunning
    <3>2. CASE AgentCall(t, s)
      BY <2>1, <3>2 DEF AgentCall
    <3>3. CASE RequestGate(t, s)
      BY <2>1, <3>3 DEF RequestGate
    <3> QED BY <2>2, <3>1, <3>2, <3>3
  <2>3. CASE RecordWaiting(t, s) \/ WorkflowSucceeds(t, s) \/ WorkflowFails(t, s)
    <3>1. CASE RecordWaiting(t, s)
      BY <2>1, <3>1 DEF RecordWaiting
    <3>2. CASE WorkflowSucceeds(t, s)
      BY <2>1, <3>2 DEF WorkflowSucceeds
    <3>3. CASE WorkflowFails(t, s)
      BY <2>1, <3>3 DEF WorkflowFails
    <3> QED BY <2>3, <3>1, <3>2, <3>3
  <2>4. CASE CreateIncident(t, s)
    <3>1. incident' \in [Tasks -> SUBSET {"open", "resolved"}]
      BY <2>4 DEF CreateIncident
    <3> QED BY <2>1, <2>4, <3>1 DEF CreateIncident
  <2>5. CASE FailAndPause(t, s) \/ OpenPr(t, s) \/ AwaitApproval(t, s)
    <3>1. CASE FailAndPause(t, s)
      BY <2>1, <3>1 DEF FailAndPause
    <3>2. CASE OpenPr(t, s)
      BY <2>1, <3>2 DEF OpenPr
    <3>3. CASE AwaitApproval(t, s)
      BY <2>1, <3>3 DEF AwaitApproval
    <3> QED BY <2>5, <3>1, <3>2, <3>3
  <2>6. CASE MergePr(t, s) \/ LifecycleFails(t, s)
    <3>1. CASE MergePr(t, s)
      BY <2>1, <3>1 DEF MergePr
    <3>2. CASE LifecycleFails(t, s)
      BY <2>1, <3>2 DEF LifecycleFails
    <3> QED BY <2>6, <3>1, <3>2
  <2>7. CASE CloseTracker(t, s)
    <3>1. status' \in [Tasks -> Statuses]
      BY <2>7 DEF CloseTracker
    <3> QED BY <2>1, <2>7, <3>1 DEF CloseTracker
  <2>8. CASE CompleteTask(t, s) \/ ClearJournal(t, s)
    BY <2>1, <2>8 DEF CompleteTask, ClearJournal, DropJournal
  <2> QED BY <1>6, <2>0, <2>2, <2>3, <2>4, <2>5, <2>6, <2>7, <2>8 DEF RunTask
<1>7. ASSUME NEW t \in Tasks, Operate(t) PROVE TypeOK'
  BY <1>7 DEF Operate, PauseTask, ResumeTask, StopTask, RestartTask, Stopping, Retrying, Writes
<1>8. ASSUME NEW t \in Tasks, Answer(t) PROVE TypeOK'
  <2>1. PICK a \in Answers : AnswerIncident(t, a) \/ AnswerGate(t, a)
    BY <1>8 DEF Answer, AnswerIncident, AnswerGate
  <2>2. CASE AnswerIncident(t, a)
    <3>1. inflight' \in [Tasks -> SUBSET (Applications \cup Writes)]
      BY <2>2, ApplicationsOf DEF AnswerIncident
    <3>2. incident' \in [Tasks -> SUBSET {"open", "resolved"}]
      BY <2>2 DEF AnswerIncident
    <3> QED BY <2>2, <3>1, <3>2 DEF AnswerIncident
  <2>3. CASE AnswerGate(t, a)
    <3>1. inflight' \in [Tasks -> SUBSET (Applications \cup Writes)]
      BY <2>3, ApplicationsOf DEF AnswerGate
    <3>2. gate' \in [Tasks -> GateStates]
      BY <2>3 DEF AnswerGate
    <3> QED BY <2>3, <3>1, <3>2 DEF AnswerGate
  <2> QED BY <2>1, <2>2, <2>3
<1>9. ASSUME NEW t \in Tasks, Handle(t) PROVE TypeOK'
  <2>1. ASSUME NEW x \in Applications, ApplyRetry(t, x) \/ ApplyStop(t, x) \/ ApplyNothing(t, x)
        PROVE TypeOK'
    <3>1. inflight' \in [Tasks -> SUBSET (Applications \cup Writes)]
      BY <2>1 DEF ApplyRetry, ApplyStop, ApplyNothing, Writes
    <3> QED BY <2>1, <3>1 DEF ApplyRetry, ApplyStop, ApplyNothing, Stopping, Retrying, DropJournal
  <2>2. ASSUME NEW w \in Writes, TrackerWrite(t, w) PROVE TypeOK'
    <3>1. status' \in [Tasks -> Statuses]
      BY <2>2 DEF TrackerWrite, Writes
    <3> QED BY <2>2, <3>1 DEF TrackerWrite
  <2> QED BY <1>9, <2>1, <2>2 DEF Handle
<1>10. ASSUME NEW t \in Tasks, NEW w \in Writes, NEW told \in BOOLEAN, TrackerWriteFails(t, w, told)
       PROVE TypeOK'
  BY <1>10 DEF TrackerWriteFails
<1>11. ASSUME NEW t \in Tasks, EditTracker(t) PROVE TypeOK'
  BY <1>11, DaemonAssumption DEF EditTracker
<1>12. ASSUME NEW t \in Tasks, HumanMerges(t) PROVE TypeOK'
  BY <1>12 DEF HumanMerges
<1>13. CASE UNCHANGED vars
  BY <1>13 DEF vars
<1> QED
  BY <1>1, <1>2, <1>3, <1>4, <1>5, <1>6, <1>7, <1>8, <1>9, <1>10, <1>11, <1>12, <1>13 DEF Next

\* Every variable of the model keeps its type, whatever polls, executions,
\* operators, answers, edits and restarts do.
THEOREM TypeCorrect == Spec => []TypeOK
<1>1. Init => TypeOK BY TypeInit
<1>2. TypeOK /\ [Next]_vars => TypeOK' BY TypeNext
<1> QED BY <1>1, <1>2, PTL DEF Spec

(***************************************************************************)
(* Slots                                                                   *)
(***************************************************************************)

\* Stronger than NoLeakedSlot: an execution that is only removing the journal
\* of a completed task holds no slot any more.
SlotsAreHeld ==
  \A t \in activeRuns : AtWork(t) \/ (~AutoMerge /\ pr[t] # "none")

\* No step leaves a slot behind: whatever takes an execution out of its work
\* takes the task out of activeRuns in the same step.
LEMMA SlotsNext == TypeOK /\ SlotsAreHeld /\ [Next]_vars => SlotsAreHeld'
<1> SUFFICES ASSUME TypeOK, SlotsAreHeld, [Next]_vars PROVE SlotsAreHeld'
  OBVIOUS
<1> USE DEF TypeOK, SlotsAreHeld, AtWork, durable, supervisor
<1>1. CASE Crash \/ Shutdown
  BY <1>1 DEF Crash, Shutdown, Forget
<1>2. CASE Boot \/ ReconcileWithoutTracker
  BY <1>2 DEF Boot, ReconcileWithoutTracker
<1>3. CASE Reconcile
  <2>1. \A t \in Resumable : AtWork(t)'
    BY <1>3, LaunchAllEffect, ResumableTasks DEF Reconcile
  <2>2. \A t \in Tasks \ Resumable : exec'[t] = exec[t]
    BY <1>3, LaunchAllEffect, ResumableTasks DEF Reconcile
  <2> QED BY <1>3, <2>1, <2>2, ResumableTasks DEF Reconcile, Seeded
<1>4. ASSUME NEW k \in Polls, Tick(k) PROVE SlotsAreHeld'
  <2>1. ASSUME NEW S \in SUBSET Tasks, TickLaunch(k, S) PROVE SlotsAreHeld'
    <3>1. \A t \in S \ activeRuns : AtWork(t)'
      BY <2>1, LaunchAllEffect DEF TickLaunch
    <3>2. \A t \in activeRuns : exec'[t] = exec[t]
      BY <2>1, LaunchAllEffect DEF TickLaunch
    <3> QED BY <2>1, <3>1, <3>2 DEF TickLaunch
  <2>2. CASE ~ \E S \in SUBSET Tasks : TickLaunch(k, S)
    BY <1>4, <2>2 DEF Tick, TickRead, TickPlan, TickPromote, TickPromoteFails
  <2> QED BY <2>1, <2>2
<1>5. ASSUME NEW t \in Tasks, NEW s \in Slots, RunTask(t, s) PROVE SlotsAreHeld'
  <2>1. CASE exec' = exec
    BY <1>5, <2>1 DEF RunTask, Supersede, RecordRunning, AgentCall, RequestGate, RecordWaiting,
       WorkflowSucceeds, WorkflowFails, CreateIncident, FailAndPause, OpenPr, AwaitApproval, MergePr,
       CloseTracker, LifecycleFails, CompleteTask, ClearJournal
  <2>2. CASE \E stage \in Stages \ {"idle", "clearing"} :
               Enter(t, s, stage) /\ activeRuns' = activeRuns /\ pr' = pr
    <3>1. exec'[t][s] \notin {"idle", "clearing"} /\ \A u \in Tasks \ {t} : exec'[u] = exec[u]
      BY <2>2, EnterEffect
    <3> QED BY <2>2, <3>1
  <2>3. CASE AwaitApproval(t, s)
    <3>1. \A u \in Tasks \ {t} : exec'[u] = exec[u]
      BY <2>3, EnterEffect DEF AwaitApproval, Stages
    <3> QED BY <2>3, <3>1 DEF AwaitApproval
  <2>4. CASE FailAndPause(t, s) \/ CompleteTask(t, s)
    <3>1. \A u \in Tasks \ {t} : exec'[u] = exec[u]
      BY <2>4, EnterEffect DEF FailAndPause, CompleteTask, Stages
    <3> QED BY <2>4, <3>1 DEF FailAndPause, CompleteTask
  <2>5. CASE ClearJournal(t, s)
    <3>1. /\ exec[t][s] = "clearing"
          /\ \A r \in Slots \ {s} : exec'[t][r] = exec[t][r]
          /\ \A u \in Tasks \ {t} : exec'[u] = exec[u]
      BY <2>5, EnterEffect DEF ClearJournal, Stages
    <3>2. UNCHANGED <<activeRuns, pr>>
      BY <2>5 DEF ClearJournal, supervisor
    <3>3. \A u \in Tasks : AtWork(u) => AtWork(u)'
      BY <3>1 DEF AtWork
    <3> QED BY <3>2, <3>3 DEF SlotsAreHeld
  <2> QED BY <1>5, <2>1, <2>2, <2>3, <2>4, <2>5 DEF RunTask, Stages, Supersede, RecordRunning,
        AgentCall, RequestGate, RecordWaiting, WorkflowSucceeds, WorkflowFails, CreateIncident, OpenPr,
        MergePr, CloseTracker, LifecycleFails
<1>6. ASSUME NEW t \in Tasks, Operate(t) PROVE SlotsAreHeld'
  BY <1>6 DEF Operate, PauseTask, ResumeTask, StopTask, RestartTask, Stopping, Retrying
<1>7. ASSUME NEW t \in Tasks, Answer(t) PROVE SlotsAreHeld'
  BY <1>7 DEF Answer, AnswerIncident, AnswerGate
<1>8. ASSUME NEW t \in Tasks, Handle(t) PROVE SlotsAreHeld'
  BY <1>8 DEF Handle, ApplyRetry, ApplyStop, ApplyNothing, TrackerWrite, Stopping, Retrying
<1>9. ASSUME NEW t \in Tasks, NEW w \in Writes, NEW told \in BOOLEAN, TrackerWriteFails(t, w, told)
      PROVE SlotsAreHeld'
  BY <1>9 DEF TrackerWriteFails
<1>10. ASSUME NEW t \in Tasks, EditTracker(t) \/ HumanMerges(t) PROVE SlotsAreHeld'
  BY <1>10 DEF EditTracker, HumanMerges
<1>11. CASE UNCHANGED vars
  BY <1>11 DEF vars
<1> QED BY <1>1, <1>2, <1>3, <1>4, <1>5, <1>6, <1>7, <1>8, <1>9, <1>10, <1>11 DEF Next

\* A concurrency slot is always held by an execution or by a pull request that
\* waits for a person: the scheduler can never run out of slots for nothing,
\* whatever is stopped, restarted, answered twice or recovered.
THEOREM NoSlotLeaks == Spec => []NoLeakedSlot
<1>1. Init => TypeOK /\ SlotsAreHeld
  BY TypeInit DEF Init, SlotsAreHeld
<1>2. TypeOK /\ SlotsAreHeld /\ [Next]_vars => (TypeOK /\ SlotsAreHeld)'
  BY TypeNext, SlotsNext
<1>3. TypeOK /\ SlotsAreHeld => NoLeakedSlot
  BY DEF SlotsAreHeld, NoLeakedSlot, AtWork, Busy
<1> QED BY <1>1, <1>2, <1>3, PTL DEF Spec

(***************************************************************************)
(* Dependencies                                                            *)
(***************************************************************************)

\* What a poll remembers as completed was completed, and every task that is at
\* work, or has a row in the runs table, came after its blockers. The row has to
\* be in the invariant: a restart launches whatever row it finds.
SeenIsDone ==
  /\ \A t \in Tasks : status[t] = "completed" => t \in done
  /\ \A k \in Polls : \A t \in Tasks : poll[k].seen[t] = "completed" => t \in done
StartedInOrder ==
  \A t \in Tasks : Busy(t) \/ runState[t] # "none" => Blockers(t) \subseteq done

\* Snapshots stay true of the past: done only grows, and a promotion writes
\* "ready", never "completed".
LEMMA SeenNext == TypeOK /\ SeenIsDone /\ [Next]_vars => SeenIsDone' /\ done \subseteq done'
<1> SUFFICES ASSUME TypeOK, SeenIsDone, [Next]_vars PROVE SeenIsDone' /\ done \subseteq done'
  OBVIOUS
<1> USE DEF TypeOK, SeenIsDone, durable, supervisor
<1>1. CASE Crash \/ Shutdown
  BY <1>1 DEF Crash, Shutdown, Forget, NoPoll
<1>2. CASE Boot \/ Reconcile \/ ReconcileWithoutTracker
  BY <1>2 DEF Boot, Reconcile, ReconcileWithoutTracker
<1>3. ASSUME NEW k \in Polls, Tick(k) PROVE SeenIsDone' /\ done \subseteq done'
  <2>1. CASE TickRead(k)
    BY <2>1 DEF TickRead, NoPoll
  <2>2. CASE TickPlan(k)
    BY <2>2 DEF TickPlan
  <2>3. ASSUME NEW t \in Tasks, TickPromote(k, t) PROVE SeenIsDone' /\ done \subseteq done'
    <3>1. \A u \in Tasks : poll'[k].seen[u] = "completed" => poll[k].seen[u] = "completed"
      BY <2>3 DEF TickPromote
    <3>2. \A j \in Polls \ {k} : poll'[j] = poll[j]
      BY <2>3 DEF TickPromote
    <3> QED BY <2>3, <3>1, <3>2 DEF TickPromote
  <2>4. ASSUME NEW t \in Tasks, TickPromoteFails(k, t) PROVE SeenIsDone' /\ done \subseteq done'
    BY <2>4 DEF TickPromoteFails
  <2>5. ASSUME NEW S \in SUBSET Tasks, TickLaunch(k, S) PROVE SeenIsDone' /\ done \subseteq done'
    BY <2>5 DEF TickLaunch, NoPoll
  <2> QED BY <1>3, <2>1, <2>2, <2>3, <2>4, <2>5 DEF Tick
<1>4. ASSUME NEW t \in Tasks, NEW s \in Slots, RunTask(t, s) PROVE SeenIsDone' /\ done \subseteq done'
  <2>1. CASE CloseTracker(t, s)
    BY <2>1 DEF CloseTracker
  <2>2. CASE ~ CloseTracker(t, s)
    BY <1>4, <2>2 DEF RunTask, Supersede, RecordRunning, AgentCall, RequestGate, RecordWaiting,
       WorkflowSucceeds, WorkflowFails, CreateIncident, FailAndPause, OpenPr, AwaitApproval, MergePr,
       LifecycleFails, CompleteTask, ClearJournal
  <2> QED BY <2>1, <2>2
<1>5. ASSUME NEW t \in Tasks, Operate(t) \/ Answer(t) PROVE SeenIsDone' /\ done \subseteq done'
  BY <1>5 DEF Operate, PauseTask, ResumeTask, StopTask, RestartTask, Answer, AnswerIncident, AnswerGate
<1>6. ASSUME NEW t \in Tasks, Handle(t) PROVE SeenIsDone' /\ done \subseteq done'
  <2>1. ASSUME NEW w \in Writes, TrackerWrite(t, w) PROVE SeenIsDone' /\ done \subseteq done'
    BY <2>1 DEF TrackerWrite, Writes
  <2>2. ASSUME NEW x \in Applications, ApplyRetry(t, x) \/ ApplyStop(t, x) \/ ApplyNothing(t, x)
        PROVE SeenIsDone' /\ done \subseteq done'
    BY <2>2 DEF ApplyRetry, ApplyStop, ApplyNothing
  <2> QED BY <1>6, <2>1, <2>2 DEF Handle
<1>7. ASSUME NEW t \in Tasks, NEW w \in Writes, NEW told \in BOOLEAN, TrackerWriteFails(t, w, told)
      PROVE SeenIsDone' /\ done \subseteq done'
  BY <1>7 DEF TrackerWriteFails
<1>8. ASSUME NEW t \in Tasks, EditTracker(t) \/ HumanMerges(t) PROVE SeenIsDone' /\ done \subseteq done'
  BY <1>8 DEF EditTracker, HumanMerges
<1>9. CASE UNCHANGED vars
  BY <1>9 DEF vars
<1> QED BY <1>1, <1>2, <1>3, <1>4, <1>5, <1>6, <1>7, <1>8, <1>9 DEF Next

\* Only a poll whose snapshot shows every blocker completed, or a restart that
\* finds a row, begins an execution; every other step moves one that exists.
LEMMA OrderNext == TypeOK /\ SeenIsDone /\ StartedInOrder /\ [Next]_vars => StartedInOrder'
<1> SUFFICES ASSUME TypeOK, SeenIsDone, StartedInOrder, [Next]_vars PROVE StartedInOrder'
  OBVIOUS
<1> USE DEF TypeOK, StartedInOrder, Busy, durable, supervisor
<1>0. done \subseteq done'
  BY SeenNext
<1>1. CASE Crash \/ Shutdown
  <2>1. \A t \in Tasks : \A s \in Slots : exec'[t][s] = "idle"
    BY <1>1 DEF Crash, Shutdown, Forget, Idle
  <2>2. \A t \in Tasks : runState'[t] # "none" => runState[t] # "none"
    BY <1>1 DEF Crash, Shutdown
  <2> QED BY <1>0, <2>1, <2>2 DEF Blockers
<1>2. CASE Boot \/ ReconcileWithoutTracker
  BY <1>2 DEF Boot, ReconcileWithoutTracker, Blockers
<1>3. CASE Reconcile
  <2>1. \A t \in Tasks \ Resumable : exec'[t] = exec[t]
    BY <1>3, LaunchAllEffect, ResumableTasks DEF Reconcile
  <2>2. \A t \in Resumable : runState[t] # "none"
    BY DEF Resumable
  <2> QED BY <1>3, <2>1, <2>2 DEF Reconcile, Blockers
<1>4. ASSUME NEW k \in Polls, Tick(k) PROVE StartedInOrder'
  <2>1. ASSUME NEW S \in SUBSET Tasks, TickLaunch(k, S) PROVE StartedInOrder'
    <3>1. \A t \in S : Blockers(t) \subseteq done
      BY <2>1 DEF TickLaunch, Candidates, Unblocked, SeenIsDone, Blockers
    <3>2. \A t \in Tasks \ S : exec'[t] = exec[t]
      BY <2>1, LaunchAllEffect DEF TickLaunch
    <3> QED BY <2>1, <3>1, <3>2 DEF TickLaunch, Blockers
  <2>2. CASE ~ \E S \in SUBSET Tasks : TickLaunch(k, S)
    BY <1>4, <2>2 DEF Tick, TickRead, TickPlan, TickPromote, TickPromoteFails, Blockers
  <2> QED BY <2>1, <2>2
<1>5. ASSUME NEW t \in Tasks, NEW s \in Slots, RunTask(t, s) PROVE StartedInOrder'
  <2>1. exec[t][s] # "idle" /\ Blockers(t) \subseteq done
    BY <1>5 DEF RunTask, Supersede, RecordRunning, AgentCall, RequestGate, RecordWaiting,
       WorkflowSucceeds, WorkflowFails, CreateIncident, FailAndPause, OpenPr, AwaitApproval, MergePr,
       CloseTracker, LifecycleFails, CompleteTask, ClearJournal
  <2>2. \A u \in Tasks \ {t} : exec'[u] = exec[u] /\ runState'[u] = runState[u]
    <3>1. exec' = exec \/ \E stage \in Stages : Enter(t, s, stage)
      BY <1>5 DEF RunTask, Stages, Supersede, RecordRunning, AgentCall, RequestGate,
         RecordWaiting, WorkflowSucceeds, WorkflowFails, CreateIncident, FailAndPause, OpenPr,
         AwaitApproval, MergePr, CloseTracker, LifecycleFails, CompleteTask, ClearJournal
    <3>2. \A u \in Tasks \ {t} : exec'[u] = exec[u]
      BY <3>1, EnterEffect
    <3>3. \A u \in Tasks \ {t} : runState'[u] = runState[u]
      BY <1>5 DEF RunTask, Supersede, RecordRunning, AgentCall, RequestGate,
         RecordWaiting, WorkflowSucceeds, WorkflowFails, CreateIncident, FailAndPause, OpenPr,
         AwaitApproval, MergePr, CloseTracker, LifecycleFails, CompleteTask, ClearJournal
    <3> QED BY <3>2, <3>3
  <2> QED BY <1>0, <2>1, <2>2 DEF Blockers
<1>6. ASSUME NEW t \in Tasks, Operate(t) \/ Answer(t) PROVE StartedInOrder'
  BY <1>6 DEF Operate, PauseTask, ResumeTask, StopTask, RestartTask, Answer, AnswerIncident,
     AnswerGate, Blockers
<1>7. ASSUME NEW t \in Tasks, Handle(t) PROVE StartedInOrder'
  BY <1>7 DEF Handle, ApplyRetry, ApplyStop, ApplyNothing, TrackerWrite, Blockers
<1>8. ASSUME NEW t \in Tasks, NEW w \in Writes, NEW told \in BOOLEAN, TrackerWriteFails(t, w, told)
      PROVE StartedInOrder'
  BY <1>8 DEF TrackerWriteFails, Blockers
<1>9. ASSUME NEW t \in Tasks, EditTracker(t) \/ HumanMerges(t) PROVE StartedInOrder'
  BY <1>0, <1>9 DEF EditTracker, HumanMerges, Blockers
<1>10. CASE UNCHANGED vars
  BY <1>10 DEF vars, Blockers
<1> QED BY <1>1, <1>2, <1>3, <1>4, <1>5, <1>6, <1>7, <1>8, <1>9, <1>10 DEF Next

\* No task is ever executed before each of its native blockers has been
\* completed: not on a stale snapshot, not by an operator, not after a restart.
THEOREM DependenciesRespected == Spec => []BlockersDone
<1>1. Init => TypeOK /\ SeenIsDone /\ StartedInOrder
  <2>1. Init => SeenIsDone
    BY DEF Init, SeenIsDone, NoPoll
  <2>2. Init => StartedInOrder
    BY DEF Init, StartedInOrder, Busy, Idle
  <2> QED BY TypeInit, <2>1, <2>2
<1>2. TypeOK /\ SeenIsDone /\ StartedInOrder /\ [Next]_vars
        => (TypeOK /\ SeenIsDone /\ StartedInOrder)'
  BY TypeNext, SeenNext, OrderNext
<1>3. StartedInOrder => BlockersDone
  BY DEF StartedInOrder, BlockersDone
<1> QED BY <1>1, <1>2, <1>3, PTL DEF Spec

(***************************************************************************)
(* One execution per task                                                  *)
(***************************************************************************)

\* While nobody stops, restarts or answers, the supervisor's sets tell the truth
\* about the executions: one at work is in activeRuns, one that is clearing up
\* is in completedTasks, and a process that is not up has none.
NothingInFlight == \A t \in Tasks : inflight[t] = {}
AtWorkIsActive ==
  \A t \in Tasks : \A s \in Slots : exec[t][s] \notin {"idle", "clearing"} => t \in activeRuns
ClearingIsCompleted ==
  \A t \in Tasks : \A s \in Slots : exec[t][s] = "clearing" => t \in completedTasks
ActiveOrCompleted == activeRuns \cap completedTasks = {}
NothingBeforeUp ==
  phase # "up" =>
    /\ activeRuns = {} /\ completedTasks = {}
    /\ \A k \in Polls : poll[k].pc = "idle"
    /\ \A t \in Tasks : \A s \in Slots : exec[t][s] = "idle"

Lone ==
  /\ NothingInFlight /\ AtWorkIsActive /\ ClearingIsCompleted
  /\ ActiveOrCompleted /\ NothingBeforeUp /\ OneExecutionPerTask

\* It holds when the daemon has just started.
LEMMA LoneInit == Init => Lone
  BY DEF Init, Lone, NothingInFlight, AtWorkIsActive, ClearingIsCompleted, ActiveOrCompleted,
     NothingBeforeUp, OneExecutionPerTask, Idle, NoPoll

\* The double-schedule guard is enough when polls are all that launches: a task
\* that has an execution is active or completed, and both keep it from starting.
LEMMA LoneNext ==
  ASSUME Controls \subseteq {"pause", "resume"}, Answers = {}, TypeOK, Lone, [Next]_vars
  PROVE  Lone'
<1> USE DEF TypeOK, durable, supervisor
<1> DEFINE Kept == NothingInFlight' /\ AtWorkIsActive' /\ ClearingIsCompleted'
                   /\ ActiveOrCompleted' /\ NothingBeforeUp' /\ OneExecutionPerTask'
<1>a. Kept => Lone'
  BY DEF Lone
<1> HIDE DEF Kept
<1>1. CASE Crash \/ Shutdown
  <2>1. /\ \A t \in Tasks : \A s \in Slots : exec'[t][s] = "idle"
        /\ \A k \in Polls : poll'[k].pc = "idle"
        /\ activeRuns' = {} /\ completedTasks' = {}
        /\ \A t \in Tasks : inflight'[t] = {}
    BY <1>1 DEF Crash, Shutdown, Forget, Idle, NoPoll
  <2> QED BY <1>a, <2>1 DEF Kept, NothingInFlight, AtWorkIsActive, ClearingIsCompleted,
        ActiveOrCompleted, NothingBeforeUp, OneExecutionPerTask
<1>2. CASE Boot \/ ReconcileWithoutTracker
  BY <1>a, <1>2 DEF Kept, Lone, Boot, ReconcileWithoutTracker, NothingInFlight, AtWorkIsActive,
     ClearingIsCompleted, ActiveOrCompleted, NothingBeforeUp, OneExecutionPerTask
<1>3. CASE Reconcile
  <2>1. /\ activeRuns = {} /\ completedTasks = {}
        /\ \A t \in Tasks : \A s \in Slots : exec[t][s] = "idle"
    BY <1>3 DEF Reconcile, Lone, NothingBeforeUp
  <2>2. activeRuns' = Resumable /\ completedTasks' = {} /\ phase' = "up" /\ inflight' = inflight
    BY <1>3, <2>1 DEF Reconcile, Seeded, Resumable, HumanGated
  <2>3. \A t \in Tasks \ Resumable : exec'[t] = exec[t]
    BY <1>3, LaunchAllEffect, ResumableTasks DEF Reconcile
  <2>4. \A t \in Resumable : \E s \in Slots :
           exec'[t][s] = "launched" /\ \A r \in Slots \ {s} : exec'[t][r] = "idle"
    BY <1>3, <2>1, LaunchAllEffect, ResumableTasks DEF Reconcile
  <2>5. NothingInFlight' /\ ActiveOrCompleted' /\ NothingBeforeUp'
    BY <2>2 DEF Lone, NothingInFlight, ActiveOrCompleted, NothingBeforeUp
  <2>6. AtWorkIsActive' /\ ClearingIsCompleted'
    <3>1. \A t \in Tasks : \A s \in Slots : exec'[t][s] # "idle" => t \in Resumable
      BY <2>1, <2>3
    <3>2. \A t \in Tasks : \A s \in Slots : exec'[t][s] # "clearing"
      BY <2>1, <2>3, <2>4
    <3> QED BY <2>2, <3>1, <3>2 DEF AtWorkIsActive, ClearingIsCompleted
  <2>7. OneExecutionPerTask'
    BY <2>1, <2>3, <2>4 DEF OneExecutionPerTask
  <2> QED BY <1>a, <2>5, <2>6, <2>7 DEF Kept
<1>4. ASSUME NEW k \in Polls, Tick(k) PROVE Lone'
  <2>1. ASSUME NEW S \in SUBSET Tasks, TickLaunch(k, S) PROVE Lone'
    <3> DEFINE N == S \ activeRuns
    <3>1. \A t \in N : \A s \in Slots : exec[t][s] = "idle"
      BY <2>1 DEF TickLaunch, Candidates, Lone, AtWorkIsActive, ClearingIsCompleted
    <3>2. \A t \in Tasks \ N : exec'[t] = exec[t]
      BY <2>1, LaunchAllEffect DEF TickLaunch
    <3>3. \A t \in N : \E s \in Slots :
             exec'[t][s] = "launched" /\ \A r \in Slots \ {s} : exec'[t][r] = "idle"
      <4>1. HasRoom(N) /\ N \in SUBSET Tasks /\ exec' = LaunchAll(N)
        BY <2>1 DEF TickLaunch
      <4> HIDE DEF N
      <4> QED BY <3>1, <4>1, LaunchAllEffect
    <3>4. /\ activeRuns' = activeRuns \cup S /\ completedTasks' = completedTasks
          /\ phase' = phase /\ phase = "up" /\ inflight' = inflight
      BY <2>1 DEF TickLaunch, Lone, NothingBeforeUp
    <3>5. S \cap completedTasks = {}
      BY <2>1 DEF TickLaunch, Candidates
    <3>6. NothingInFlight' /\ ActiveOrCompleted' /\ NothingBeforeUp'
      BY <3>4, <3>5 DEF Lone, NothingInFlight, ActiveOrCompleted, NothingBeforeUp
    <3>7. AtWorkIsActive' /\ ClearingIsCompleted'
      <4>1. \A t \in Tasks : \A s \in Slots :
               exec'[t][s] = exec[t][s] \/ (t \in N /\ exec'[t][s] \in {"idle", "launched"})
        BY <3>2, <3>3
      <4>2. AtWorkIsActive'
        BY <3>4, <4>1 DEF Lone, AtWorkIsActive
      <4>3. ClearingIsCompleted'
        BY <3>4, <4>1 DEF Lone, ClearingIsCompleted
      <4> QED BY <4>2, <4>3
    <3>8. OneExecutionPerTask'
      BY <3>1, <3>2, <3>3 DEF Lone, OneExecutionPerTask
    <3> QED BY <1>a, <3>6, <3>7, <3>8 DEF Kept
  <2>2. CASE ~ \E S \in SUBSET Tasks : TickLaunch(k, S)
    <3>1. /\ UNCHANGED <<exec, activeRuns, completedTasks, phase, inflight>>
      BY <1>4, <2>2 DEF Tick, TickRead, TickPlan, TickPromote, TickPromoteFails
    <3>2. phase = "up"
      BY <1>4, <2>2 DEF Tick, TickRead, TickPlan, TickPromote, TickPromoteFails, Lone, NothingBeforeUp
    <3> QED BY <1>a, <3>1, <3>2 DEF Kept, Lone, NothingInFlight, AtWorkIsActive, ClearingIsCompleted,
          ActiveOrCompleted, NothingBeforeUp, OneExecutionPerTask
  <2> QED BY <2>1, <2>2
<1>5. ASSUME NEW t \in Tasks, NEW s \in Slots, RunTask(t, s) PROVE Lone'
  <2>1. /\ exec[t][s] # "idle" /\ phase' = phase /\ phase = "up" /\ inflight' = inflight
        /\ \A r \in Slots \ {s} : exec[t][r] = "idle"
    <3>1. exec[t][s] # "idle" /\ phase' = phase /\ inflight' = inflight
      BY <1>5 DEF RunTask, Supersede, RecordRunning, AgentCall, RequestGate, RecordWaiting,
         WorkflowSucceeds, WorkflowFails, CreateIncident, FailAndPause, OpenPr, AwaitApproval, MergePr,
         CloseTracker, LifecycleFails, CompleteTask, ClearJournal
    <3> QED BY <3>1 DEF Lone, NothingBeforeUp, OneExecutionPerTask
  <2>2. NothingInFlight' /\ NothingBeforeUp'
    BY <2>1 DEF Lone, NothingInFlight, NothingBeforeUp
  <2>3. CASE exec' = exec /\ UNCHANGED <<activeRuns, completedTasks>>
    BY <1>a, <2>2, <2>3 DEF Kept, Lone, AtWorkIsActive, ClearingIsCompleted, ActiveOrCompleted,
       OneExecutionPerTask
  <2>4. ASSUME NEW stage \in Stages, Enter(t, s, stage) PROVE Lone'
    <3>1. /\ exec'[t][s] = stage
          /\ \A r \in Slots \ {s} : exec'[t][r] = "idle"
          /\ \A u \in Tasks \ {t} : exec'[u] = exec[u]
      BY <2>1, <2>4, EnterEffect
    <3>2. OneExecutionPerTask'
      BY <3>1 DEF Lone, OneExecutionPerTask
    <3>3. CASE UNCHANGED <<activeRuns, completedTasks>> /\ stage = "idle"
      BY <1>a, <2>2, <3>1, <3>2, <3>3 DEF Kept, Lone, AtWorkIsActive, ClearingIsCompleted, ActiveOrCompleted
    <3>4. CASE /\ UNCHANGED <<activeRuns, completedTasks>>
               /\ exec[t][s] # "clearing" /\ stage # "clearing"
      BY <1>a, <2>1, <2>2, <3>1, <3>2, <3>4
         DEF Kept, Lone, AtWorkIsActive, ClearingIsCompleted, ActiveOrCompleted
    <3>5. CASE FailAndPause(t, s)
      <4>1. stage = "idle"
        BY <3>1, <3>5, EnterEffect DEF FailAndPause, Stages
      <4>2. activeRuns' = activeRuns \ {t} /\ completedTasks' = completedTasks
        BY <3>5 DEF FailAndPause
      <4>3. AtWorkIsActive'
        BY <3>1, <4>1, <4>2 DEF Lone, AtWorkIsActive
      <4>4. ClearingIsCompleted'
        BY <3>1, <4>1, <4>2 DEF Lone, ClearingIsCompleted
      <4> QED BY <2>2, <3>2, <4>2, <4>3, <4>4 DEF Lone, ActiveOrCompleted
    <3>6. CASE CompleteTask(t, s)
      <4>1. stage = "clearing"
        BY <3>1, <3>6, EnterEffect DEF CompleteTask, Stages
      <4>2. activeRuns' = activeRuns \ {t} /\ completedTasks' = completedTasks \cup {t}
        BY <3>6 DEF CompleteTask
      <4>3. AtWorkIsActive'
        BY <3>1, <4>1, <4>2 DEF Lone, AtWorkIsActive
      <4>4. ClearingIsCompleted'
        BY <3>1, <4>1, <4>2 DEF Lone, ClearingIsCompleted
      <4> QED BY <2>2, <3>2, <4>2, <4>3, <4>4 DEF Lone, ActiveOrCompleted
    <3> QED BY <1>5, <2>4, <3>1, <3>3, <3>4, <3>5, <3>6, EnterEffect
          DEF RunTask, Stages, Supersede, RecordRunning, AgentCall, RequestGate, RecordWaiting,
          WorkflowSucceeds, WorkflowFails, CreateIncident, OpenPr, AwaitApproval, MergePr,
          CloseTracker, LifecycleFails, ClearJournal
  <2> QED BY <1>5, <2>3, <2>4 DEF RunTask, Stages, Supersede, RecordRunning, AgentCall, RequestGate,
        RecordWaiting, WorkflowSucceeds, WorkflowFails, CreateIncident, FailAndPause, OpenPr,
        AwaitApproval, MergePr, CloseTracker, LifecycleFails, CompleteTask, ClearJournal
<1>6. ASSUME UNCHANGED <<exec, activeRuns, completedTasks, phase, inflight, poll>> PROVE Lone'
  BY <1>a, <1>6 DEF Kept, Lone, NothingInFlight, AtWorkIsActive, ClearingIsCompleted,
     ActiveOrCompleted, NothingBeforeUp, OneExecutionPerTask
<1>7. ASSUME NEW t \in Tasks, Operate(t) PROVE Lone'
  BY <1>6, <1>7 DEF Operate, PauseTask, ResumeTask, StopTask, RestartTask
<1>8. ASSUME NEW t \in Tasks, Answer(t) PROVE Lone'
  BY <1>8 DEF Answer, AnswerIncident, AnswerGate
<1>9. ASSUME NEW t \in Tasks, Handle(t) PROVE Lone'
  BY <1>9 DEF Handle, ApplyRetry, ApplyStop, ApplyNothing, TrackerWrite, Lone, NothingInFlight
<1>10. ASSUME NEW t \in Tasks, NEW w \in Writes, NEW told \in BOOLEAN, TrackerWriteFails(t, w, told)
       PROVE Lone'
  BY <1>10 DEF TrackerWriteFails, Lone, NothingInFlight
<1>11. ASSUME NEW t \in Tasks, EditTracker(t) \/ HumanMerges(t) PROVE Lone'
  BY <1>6, <1>11 DEF EditTracker, HumanMerges
<1>12. CASE UNCHANGED vars
  BY <1>6, <1>12 DEF vars
<1> QED BY <1>1, <1>2, <1>3, <1>4, <1>5, <1>7, <1>8, <1>9, <1>10, <1>11, <1>12 DEF Next

\* Polls, however many overlap, crashes and restarts never give a task two
\* executions. The hypothesis is needed: stop, restart and a retry take a task out
\* of activeRuns while its execution goes on, so the next poll launches another.
THEOREM OneExecution ==
  ASSUME Controls \subseteq {"pause", "resume"}, Answers = {}
  PROVE  Spec => []OneExecutionPerTask
<1>1. Init => TypeOK /\ Lone
  BY TypeInit, LoneInit
<1>2. TypeOK /\ Lone /\ [Next]_vars => (TypeOK /\ Lone)'
  BY TypeNext, LoneNext
<1>3. Lone => OneExecutionPerTask
  BY DEF Lone
<1> QED BY <1>1, <1>2, <1>3, PTL DEF Spec
(***************************************************************************)
(* What is paused has been asked                                           *)
(***************************************************************************)

\* The steps that are ruled out where no person stops, restarts or answers.
LEMMA NobodyActs ==
  ASSUME Controls \subseteq {"pause", "resume"}, Answers = {}, Lone, NEW t \in Tasks
  PROVE  /\ ~StopTask(t) /\ ~RestartTask(t) /\ ~Answer(t) /\ ~Handle(t)
         /\ \A w \in Writes, told \in BOOLEAN : ~TrackerWriteFails(t, w, told)
<1>1. inflight[t] = {}
  BY DEF Lone, NothingInFlight
<1> QED BY <1>1 DEF StopTask, RestartTask, Answer, AnswerIncident, AnswerGate, Handle, ApplyRetry,
        ApplyStop, ApplyNothing, TrackerWrite, TrackerWriteFails

\* When the daemon comes up nothing executes, and what it resumes is launched.
LEMMA ReconcileEffect ==
  ASSUME TypeOK, Lone, Reconcile
  PROVE  /\ activeRuns' = Resumable /\ completedTasks' = {}
         /\ manuallyPaused' = manuallyPaused \cup HumanGated /\ phase' = "up"
         /\ \A k \in Polls : poll'[k] = poll[k] /\ poll[k].pc = "idle"
         /\ \A t \in Tasks \ Resumable : \A s \in Slots : exec'[t][s] = "idle"
         /\ \A t \in Resumable :
              /\ \E s \in Slots : exec'[t][s] = "launched"
              /\ \A s \in Slots : exec'[t][s] \in {"idle", "launched"}
<1> USE DEF TypeOK
<1>1. /\ activeRuns = {} /\ completedTasks = {} /\ \A k \in Polls : poll[k].pc = "idle"
      /\ \A t \in Tasks : \A s \in Slots : exec[t][s] = "idle"
  BY DEF Reconcile, Lone, NothingBeforeUp
<1>2. /\ activeRuns' = Resumable /\ completedTasks' = {} /\ phase' = "up"
      /\ manuallyPaused' = manuallyPaused \cup HumanGated
      /\ exec' = LaunchAll(Resumable) /\ HasRoom(Resumable) /\ poll' = poll
  BY <1>1 DEF Reconcile, Seeded, Resumable, HumanGated
<1>3. \A t \in Tasks \ Resumable : exec'[t] = exec[t]
  BY <1>2, LaunchAllEffect, ResumableTasks
<1>4. \A t \in Resumable : \E s \in Slots :
         exec'[t][s] = "launched" /\ \A r \in Slots \ {s} : exec'[t][r] = exec[t][r]
  BY <1>2, LaunchAllEffect, ResumableTasks
<1>5. \A t \in Tasks \ Resumable : \A s \in Slots : exec'[t][s] = "idle"
  BY <1>1, <1>3
<1>6. \A t \in Resumable :
        /\ \E s \in Slots : exec'[t][s] = "launched"
        /\ \A s \in Slots : exec'[t][s] \in {"idle", "launched"}
  <2> TAKE t \in Resumable
  <2>1. PICK s \in Slots : exec'[t][s] = "launched" /\ \A r \in Slots \ {s} : exec'[t][r] = exec[t][r]
    BY <1>4
  <2>2. \A r \in Slots : exec[t][r] = "idle"
    BY <1>1, ResumableTasks
  <2> QED BY <2>1, <2>2
<1> QED BY <1>1, <1>2, <1>5, <1>6

\* A poll launches tasks that do not execute, are not paused and not completed.
LEMMA LaunchEffect ==
  ASSUME TypeOK, Lone, NEW k \in Polls, NEW S \in SUBSET Tasks, TickLaunch(k, S)
  PROVE  /\ activeRuns' = activeRuns \cup S /\ poll' = [poll EXCEPT ![k] = NoPoll]
         /\ UNCHANGED <<durable, completedTasks, manuallyPaused, phase, inflight>>
         /\ Cardinality(S) <= Available
         /\ S \cap (manuallyPaused \cup completedTasks) = {} /\ phase = "up" /\ poll[k].pc # "idle"
         /\ \A t \in S : poll[k].seen[t] = "ready"
         /\ \A t \in Tasks \ (S \ activeRuns) : exec'[t] = exec[t]
         /\ \A t \in S \ activeRuns :
              /\ \A s \in Slots : exec[t][s] = "idle"
              /\ \E s \in Slots : exec'[t][s] = "launched"
              /\ \A s \in Slots : exec'[t][s] \in {"idle", "launched"}
<1> DEFINE N == S \ activeRuns
<1> USE DEF TypeOK
<1>1. \A t \in N : \A s \in Slots : exec[t][s] = "idle"
  BY DEF TickLaunch, Candidates, Lone, AtWorkIsActive, ClearingIsCompleted
<1>2. N \in SUBSET Tasks /\ HasRoom(N) /\ exec' = LaunchAll(N)
  BY DEF TickLaunch
<1>3. /\ \A t \in Tasks \ N : exec'[t] = exec[t]
      /\ \A t \in N : \E s \in Slots :
           exec'[t][s] = "launched" /\ \A r \in Slots \ {s} : exec'[t][r] = exec[t][r]
  <2> HIDE DEF N
  <2> QED BY <1>2, LaunchAllEffect
<1>4. phase = "up"
  BY DEF TickLaunch, Lone, NothingBeforeUp
<1>5. /\ S \cap (manuallyPaused \cup completedTasks) = {} /\ poll[k].pc # "idle"
      /\ \A t \in S : poll[k].seen[t] = "ready"
  BY DEF TickLaunch, Candidates
<1>6. \A t \in N :
        /\ \A s \in Slots : exec[t][s] = "idle"
        /\ \E s \in Slots : exec'[t][s] = "launched"
        /\ \A s \in Slots : exec'[t][s] \in {"idle", "launched"}
  <2> TAKE t \in N
  <2>1. PICK s \in Slots : exec'[t][s] = "launched" /\ \A r \in Slots \ {s} : exec'[t][r] = exec[t][r]
    BY <1>3
  <2> QED BY <1>1, <2>1
<1>7. /\ activeRuns' = activeRuns \cup S /\ poll' = [poll EXCEPT ![k] = NoPoll]
      /\ UNCHANGED <<durable, completedTasks, manuallyPaused, phase, inflight>>
      /\ Cardinality(S) <= Available
  BY DEF TickLaunch
<1> QED BY <1>3, <1>4, <1>5, <1>6, <1>7

\* A step of one execution, which is the only one its task has.
LEMMA RunTaskEffect ==
  ASSUME TypeOK, Lone, NEW t \in Tasks, NEW s \in Slots, RunTask(t, s)
  PROVE  /\ exec[t][s] # "idle" /\ phase = "up" /\ UNCHANGED <<phase, poll, inflight>>
         /\ exec' \in [Tasks -> [Slots -> Stages]]
         /\ \A r \in Slots \ {s} : exec[t][r] = "idle" /\ exec'[t][r] = "idle"
         /\ \A u \in Tasks \ {t} :
              /\ exec'[u] = exec[u] /\ status'[u] = status[u] /\ runState'[u] = runState[u]
              /\ journal'[u] = journal[u] /\ incident'[u] = incident[u] /\ gate'[u] = gate[u]
              /\ pr'[u] = pr[u]
              /\ u \in activeRuns' <=> u \in activeRuns
              /\ u \in completedTasks' <=> u \in completedTasks
              /\ u \in manuallyPaused' <=> u \in manuallyPaused
<1> USE DEF TypeOK, durable, supervisor
<1>1. exec[t][s] # "idle" /\ UNCHANGED <<phase, poll, inflight>>
  BY DEF RunTask, Supersede, RecordRunning, AgentCall, RequestGate, RecordWaiting,
     WorkflowSucceeds, WorkflowFails, CreateIncident, FailAndPause, OpenPr, AwaitApproval, MergePr,
     CloseTracker, LifecycleFails, CompleteTask, ClearJournal
<1>2. phase = "up" /\ \A r \in Slots \ {s} : exec[t][r] = "idle"
  BY <1>1 DEF Lone, NothingBeforeUp, OneExecutionPerTask
<1>3. exec' = exec \/ \E stage \in Stages : Enter(t, s, stage)
  BY DEF RunTask, Stages, Supersede, RecordRunning, AgentCall, RequestGate, RecordWaiting,
     WorkflowSucceeds, WorkflowFails, CreateIncident, FailAndPause, OpenPr, AwaitApproval, MergePr,
     CloseTracker, LifecycleFails, CompleteTask, ClearJournal
<1>4. /\ exec' \in [Tasks -> [Slots -> Stages]]
      /\ \A r \in Slots \ {s} : exec'[t][r] = "idle"
      /\ \A u \in Tasks \ {t} : exec'[u] = exec[u]
  BY <1>2, <1>3, EnterEffect
<1>5. \A u \in Tasks \ {t} :
        /\ status'[u] = status[u] /\ runState'[u] = runState[u]
        /\ journal'[u] = journal[u] /\ incident'[u] = incident[u] /\ gate'[u] = gate[u]
        /\ pr'[u] = pr[u]
        /\ u \in activeRuns' <=> u \in activeRuns
        /\ u \in completedTasks' <=> u \in completedTasks
        /\ u \in manuallyPaused' <=> u \in manuallyPaused
  BY DEF RunTask, Supersede, RecordRunning, AgentCall, RequestGate, RecordWaiting, DropJournal,
     WorkflowSucceeds, WorkflowFails, CreateIncident, FailAndPause, OpenPr, AwaitApproval, MergePr,
     CloseTracker, LifecycleFails, CompleteTask, ClearJournal
<1> QED BY <1>1, <1>2, <1>4, <1>5


\* The stage each step of an execution leaves it in.
LEMMA StageAfter ==
  ASSUME TypeOK, NEW t \in Tasks, NEW s \in Slots
  PROVE  /\ Supersede(t, s) => exec'[t][s] = "starting"
         /\ RecordRunning(t, s) => exec'[t][s] = "workflow"
         /\ AgentCall(t, s) \/ OpenPr(t, s) \/ MergePr(t, s) => exec'[t][s] = exec[t][s]
         /\ RequestGate(t, s) => exec'[t][s] = "gating"
         /\ RecordWaiting(t, s) => exec'[t][s] = "gated"
         /\ WorkflowSucceeds(t, s) => exec'[t][s] = "lifecycle"
         /\ WorkflowFails(t, s) \/ LifecycleFails(t, s) => exec'[t][s] = "failing"
         /\ CreateIncident(t, s) => exec'[t][s] = "reporting"
         /\ FailAndPause(t, s) \/ AwaitApproval(t, s) \/ ClearJournal(t, s) => exec'[t][s] = "idle"
         /\ CloseTracker(t, s) => exec'[t][s] = "closed"
         /\ CompleteTask(t, s) => exec'[t][s] = "clearing"
<1>1. ASSUME NEW stage \in Stages, Enter(t, s, stage) PROVE exec'[t][s] = stage
  BY <1>1, EnterEffect DEF TypeOK
<1>2. AgentCall(t, s) \/ OpenPr(t, s) \/ MergePr(t, s) => exec' = exec
  BY DEF AgentCall, OpenPr, MergePr
<1> QED BY <1>1, <1>2 DEF Stages, Supersede, RecordRunning, RequestGate, RecordWaiting,
        WorkflowSucceeds, WorkflowFails, CreateIncident, FailAndPause, AwaitApproval,
        CloseTracker, LifecycleFails, CompleteTask, ClearJournal

\* What the daemon pauses by itself has been asked first: the incident of a
\* failure, or the gate of a workflow, is on record before the task is paused.
ReportedIsOpen ==
  \A t \in Tasks : \A s \in Slots : exec[t][s] = "reporting" => "open" \in incident[t]
GatedIsOpen ==
  \A t \in Tasks : /\ runState[t] = "waiting" => gate[t] = "open"
                   /\ \A s \in Slots : exec[t][s] \in {"gating", "gated"} => gate[t] = "open"
PausedIsIdle ==
  /\ phase # "up" => manuallyPaused = {}
  /\ \A t \in manuallyPaused : ~Busy(t) /\ Asked(t)

AskedFirst == ReportedIsOpen /\ GatedIsOpen /\ PausedIsIdle

\* What was asked before a pause is asked after each step.
LEMMA AskedNext ==
  ASSUME Controls \subseteq {"resume"}, Answers = {}, TypeOK, Lone, AskedFirst, [Next]_vars
  PROVE  AskedFirst'
<1> USE DEF AskedFirst, ReportedIsOpen, GatedIsOpen, PausedIsIdle, Busy, Asked, durable, supervisor
<1>0. Controls \subseteq {"pause", "resume"}
  OBVIOUS
<1>1. CASE Crash \/ Shutdown
  <2>1. /\ \A t \in Tasks : \A s \in Slots : exec'[t][s] = "idle"
        /\ manuallyPaused' = {} /\ gate' = gate
        /\ \A t \in Tasks : runState'[t] = "waiting" => runState[t] = "waiting"
    BY <1>1 DEF Crash, Shutdown, Forget, Idle
  <2> QED BY <2>1
<1>2. CASE Boot \/ ReconcileWithoutTracker
  BY <1>2 DEF Boot, ReconcileWithoutTracker
<1>3. CASE Reconcile
  <2>1. manuallyPaused = {} /\ UNCHANGED durable
    BY <1>3 DEF Reconcile
  <2>2. \A t \in HumanGated : t \notin Resumable /\ gate[t] = "open"
    BY DEF HumanGated, Resumable
  <2>3. phase' = "up" /\ manuallyPaused' = HumanGated
    BY <1>3, <2>1, ReconcileEffect
  <2>4. /\ \A t \in Tasks : \A s \in Slots : exec'[t][s] \in {"idle", "launched"}
        /\ \A t \in HumanGated : \A s \in Slots : exec'[t][s] = "idle"
    BY <1>3, <2>2, ReconcileEffect, ResumableTasks
  <2> QED BY <2>1, <2>2, <2>3, <2>4, ResumableTasks
<1>4. ASSUME NEW k \in Polls, Tick(k) PROVE AskedFirst'
  <2>1. ASSUME NEW S \in SUBSET Tasks, TickLaunch(k, S) PROVE AskedFirst'
    <3>1. /\ UNCHANGED <<durable, manuallyPaused, phase>> /\ phase = "up"
          /\ S \cap manuallyPaused = {}
          /\ \A t \in Tasks \ S : exec'[t] = exec[t]
          /\ \A t \in S \ activeRuns : \A s \in Slots : exec'[t][s] \in {"idle", "launched"}
          /\ \A t \in S \cap activeRuns : exec'[t] = exec[t]
      BY <2>1, LaunchEffect
    <3>2. \A t \in Tasks : \A s \in Slots : exec'[t][s] \in {"idle", "launched"} \/ exec'[t][s] = exec[t][s]
      BY <3>1
    <3>3. UNCHANGED <<incident, gate, runState>>
      BY <3>1
    <3>4. ReportedIsOpen' /\ GatedIsOpen'
      <4>1. ReportedIsOpen'
        BY <3>2, <3>3
      <4>2. GatedIsOpen'
        BY <3>2, <3>3
      <4> QED BY <4>1, <4>2
    <3>5. \A t \in manuallyPaused : exec'[t] = exec[t]
      BY <3>1 DEF TypeOK
    <3>6. PausedIsIdle'
      BY <3>1, <3>5
    <3> QED BY <3>4, <3>6
  <2>2. CASE ~ \E S \in SUBSET Tasks : TickLaunch(k, S)
    <3>1. UNCHANGED <<exec, runState, incident, gate, manuallyPaused, phase>>
      BY <1>4, <2>2 DEF Tick, TickRead, TickPlan, TickPromote, TickPromoteFails
    <3> QED BY <3>1
  <2> QED BY <2>1, <2>2
<1>5. ASSUME NEW t \in Tasks, NEW s \in Slots, RunTask(t, s) PROVE AskedFirst'
  <2>1. /\ phase = "up" /\ phase' = phase /\ t \notin manuallyPaused
        /\ \A r \in Slots \ {s} : exec'[t][r] = "idle"
    BY <1>5, RunTaskEffect
  <2>2. \A u \in Tasks \ {t} :
          /\ exec'[u] = exec[u] /\ runState'[u] = runState[u]
          /\ incident'[u] = incident[u] /\ gate'[u] = gate[u]
          /\ u \in manuallyPaused' <=> u \in manuallyPaused
    BY <1>5, RunTaskEffect
  <2>3. exec'[t][s] = "reporting" => "open" \in incident'[t]
    <3>1. exec'[t][s] = "reporting" => CreateIncident(t, s)
      BY <1>5, StageAfter DEF RunTask, AgentCall, OpenPr, MergePr
    <3> QED BY <3>1 DEF TypeOK, CreateIncident
  <2>4. exec'[t][s] \in {"gating", "gated"} => gate'[t] = "open"
    <3>1. exec'[t][s] \in {"gating", "gated"} => RequestGate(t, s) \/ RecordWaiting(t, s)
      BY <1>5, StageAfter DEF RunTask, AgentCall, OpenPr, MergePr
    <3> QED BY <3>1 DEF TypeOK, RequestGate, RecordWaiting
  <2>5. runState'[t] = "waiting" => gate'[t] = "open"
    <3>1. runState'[t] = "waiting" => RecordWaiting(t, s) \/ runState[t] = "waiting"
      BY <1>5 DEF TypeOK, RunTask, Supersede, RecordRunning, AgentCall, RequestGate,
       RecordWaiting, WorkflowSucceeds, WorkflowFails, CreateIncident, FailAndPause, OpenPr,
       AwaitApproval, MergePr, CloseTracker, LifecycleFails, CompleteTask, ClearJournal
    <3>2. gate[t] = "open" => gate'[t] = "open"
      BY <1>5 DEF TypeOK, RunTask, Supersede, RecordRunning, AgentCall, RequestGate,
       RecordWaiting, WorkflowSucceeds, WorkflowFails, CreateIncident, FailAndPause, OpenPr,
       AwaitApproval, MergePr, CloseTracker, LifecycleFails, CompleteTask, ClearJournal
    <3> QED BY <3>1, <3>2 DEF RecordWaiting
  <2>6. t \in manuallyPaused' => exec'[t][s] = "idle" /\ ("open" \in incident'[t] \/ gate'[t] = "open")
    <3>1. t \in manuallyPaused' => FailAndPause(t, s)
      BY <1>5, <2>1 DEF RunTask, Supersede, RecordRunning, AgentCall, RequestGate,
       RecordWaiting, WorkflowSucceeds, WorkflowFails, CreateIncident, FailAndPause, OpenPr,
       AwaitApproval, MergePr, CloseTracker, LifecycleFails, CompleteTask, ClearJournal
    <3> QED BY <3>1, StageAfter DEF FailAndPause
  <2>7. ReportedIsOpen' /\ GatedIsOpen'
    BY <2>1, <2>2, <2>3, <2>4, <2>5
  <2>8. \A u \in manuallyPaused : u \in Tasks \ {t}
    BY <2>1 DEF TypeOK
  <2>9. manuallyPaused' \subseteq manuallyPaused \cup {t}
    BY <1>5 DEF RunTask, Supersede, RecordRunning, AgentCall, RequestGate,
       RecordWaiting, WorkflowSucceeds, WorkflowFails, CreateIncident, FailAndPause, OpenPr,
       AwaitApproval, MergePr, CloseTracker, LifecycleFails, CompleteTask, ClearJournal
  <2>10. \A u \in manuallyPaused' : ~Busy(u)' /\ Asked(u)'
    BY <2>1, <2>2, <2>6, <2>8, <2>9
  <2> QED BY <2>1, <2>7, <2>10
<1>6. ASSUME NEW t \in Tasks, Operate(t) PROVE AskedFirst'
  <2>1. manuallyPaused' \subseteq manuallyPaused /\ UNCHANGED <<durable, phase, exec>>
    BY <1>0, <1>6, NobodyActs DEF Operate, PauseTask, ResumeTask
  <2> QED BY <2>1
<1>7. ASSUME NEW t \in Tasks, EditTracker(t) \/ HumanMerges(t) PROVE AskedFirst'
  BY <1>7 DEF EditTracker, HumanMerges
<1>8. CASE UNCHANGED vars
  BY <1>8 DEF vars
<1> QED BY <1>0, <1>1, <1>2, <1>3, <1>4, <1>5, <1>6, <1>7, <1>8, NobodyActs DEF Next

\* Whatever the daemon pauses can be answered: the record of the question is
\* written before the task is paused, and only a new execution of the task takes
\* it back. A pause by an operator asks nothing, so the theorem is about the
\* daemon's own; answers are left to the run.
THEOREM PausesAreAsked ==
  ASSUME Controls \subseteq {"resume"}, Answers = {}
  PROVE  Spec => []PausedIsAsked
<1>1. Init => TypeOK /\ Lone /\ AskedFirst
  <2>1. Init => AskedFirst
    BY DEF Init, AskedFirst, ReportedIsOpen, GatedIsOpen, PausedIsIdle, Idle
  <2> QED BY <2>1, TypeInit, LoneInit
<1>2. TypeOK /\ Lone /\ AskedFirst /\ [Next]_vars => (TypeOK /\ Lone /\ AskedFirst)'
  BY TypeNext, LoneNext, AskedNext
<1>3. TypeOK /\ AskedFirst => PausedIsAsked
  BY DEF AskedFirst, PausedIsIdle, PausedIsAsked
<1> QED BY <1>1, <1>2, <1>3, PTL DEF Spec

(***************************************************************************)
(* A single poll: what is closed stays closed, what is merged is not redone *)
(***************************************************************************)

\* The snapshot of the poll is right about the backlog: nothing enters it, and a
\* task leaves it only by the poll's own promotion.
StartedLeftBacklog ==
  \A t \in Tasks : Busy(t) \/ runState[t] # "none" => status[t] # "backlog"
SnapshotIsRight ==
  \A k \in Polls : poll[k].pc # "idle" =>
    /\ \A t \in Tasks : /\ poll[k].seen[t] = "backlog" => status[t] = "backlog"
                        /\ poll[k].seen[t] = "ready" => status[t] # "backlog"
    /\ \A t \in poll[k].todo : poll[k].seen[t] = "backlog"

BacklogIsLeftOnce == StartedLeftBacklog /\ SnapshotIsRight

\* A task leaves the backlog once, and what it was promoted from was true.
LEMMA BacklogNext ==
  ASSUME Controls \subseteq {"pause", "resume"}, Answers = {}, Edits = {},
         \A k, l \in Polls : k = l,
         TypeOK, Lone, BacklogIsLeftOnce, [Next]_vars
  PROVE  /\ BacklogIsLeftOnce'
         /\ \A t \in Tasks : status[t] = "completed" => status'[t] = "completed"
<1> DEFINE Stays == \A t \in Tasks : status[t] = "completed" => status'[t] = "completed"
<1> USE DEF BacklogIsLeftOnce, StartedLeftBacklog, SnapshotIsRight, Busy, durable, supervisor
<1>1. CASE Crash \/ Shutdown
  <2>1. /\ \A t \in Tasks : \A s \in Slots : exec'[t][s] = "idle"
        /\ \A k \in Polls : poll'[k].pc = "idle"
        /\ status' = status
        /\ \A t \in Tasks : runState'[t] # "none" => runState[t] # "none"
    BY <1>1 DEF Crash, Shutdown, Forget, Idle, NoPoll
  <2> QED BY <2>1
<1>2. CASE Boot \/ ReconcileWithoutTracker
  BY <1>2 DEF Boot, ReconcileWithoutTracker
<1>3. CASE Reconcile
  <2>1. UNCHANGED <<status, runState>>
    BY <1>3 DEF Reconcile
  <2>2. \A k \in Polls : poll'[k].pc = "idle"
    BY <1>3, ReconcileEffect
  <2>3. \A t \in Tasks : (\E s \in Slots : exec'[t][s] # "idle") => runState[t] # "none"
    BY <1>3, ReconcileEffect DEF Resumable
  <2> QED BY <2>1, <2>2, <2>3
<1>4. ASSUME NEW k \in Polls, Tick(k) PROVE BacklogIsLeftOnce' /\ Stays
  <2>1. CASE TickRead(k)
    <3>1. /\ UNCHANGED <<status, runState, exec>>
          /\ poll'[k].seen = status /\ poll'[k].todo = {}
      BY <2>1 DEF TickRead, NoPoll, TypeOK
    <3> QED BY <3>1
  <2>2. CASE TickPlan(k)
    <3>1. /\ UNCHANGED <<status, runState, exec>> /\ poll[k].pc # "idle"
          /\ poll'[k].seen = poll[k].seen /\ poll'[k].todo = Promotable(poll[k].seen)
      BY <2>2 DEF TickPlan, TypeOK
    <3> QED BY <3>1 DEF Promotable
  <2>3. ASSUME NEW t \in Tasks, TickPromote(k, t) PROVE BacklogIsLeftOnce' /\ Stays
    <3>1. /\ UNCHANGED <<runState, exec>> /\ poll[k].pc # "idle" /\ t \in poll[k].todo
          /\ status' = [status EXCEPT ![t] = "ready"] /\ status'[t] = "ready"
          /\ poll'[k].seen = [poll[k].seen EXCEPT ![t] = "ready"]
          /\ poll'[k].todo = poll[k].todo \ {t}
      BY <2>3 DEF TickPromote, TypeOK
    <3>2. \A u \in Tasks \ {t} : status'[u] = status[u] /\ poll'[k].seen[u] = poll[k].seen[u]
      BY <3>1 DEF TypeOK
    <3>3. status[t] = "backlog" /\ poll'[k].seen[t] = "ready"
      BY <3>1 DEF TypeOK
    <3>4. Stays /\ StartedLeftBacklog'
      BY <3>1, <3>2, <3>3
    <3>5. poll[k].todo \subseteq Tasks
      BY DEF TypeOK
    <3>6. \A u \in Tasks : /\ poll'[k].seen[u] = "backlog" => status'[u] = "backlog"
                           /\ poll'[k].seen[u] = "ready" => status'[u] # "backlog"
      BY <3>1, <3>2, <3>3
    <3>7. \A u \in poll'[k].todo : poll'[k].seen[u] = "backlog"
      BY <3>1, <3>2, <3>5
    <3>8. SnapshotIsRight'
      BY <3>6, <3>7
    <3> QED BY <3>4, <3>8
  <2>4. ASSUME NEW t \in Tasks, TickPromoteFails(k, t) PROVE BacklogIsLeftOnce' /\ Stays
    <3>1. /\ UNCHANGED <<status, runState, exec>> /\ poll[k].pc # "idle"
          /\ poll'[k].seen = poll[k].seen /\ poll'[k].todo \subseteq poll[k].todo
      BY <2>4 DEF TickPromoteFails, TypeOK
    <3> QED BY <3>1
  <2>5. ASSUME NEW S \in SUBSET Tasks, TickLaunch(k, S) PROVE BacklogIsLeftOnce' /\ Stays
    <3>1. /\ UNCHANGED <<status, runState>> /\ poll' = [poll EXCEPT ![k] = NoPoll]
          /\ poll[k].pc # "idle" /\ \A t \in S : poll[k].seen[t] = "ready"
          /\ \A t \in Tasks \ S : exec'[t] = exec[t]
      BY <2>5, LaunchEffect
    <3>2. poll'[k].pc = "idle"
      BY <3>1 DEF NoPoll, TypeOK
    <3>3. \A t \in S : status[t] # "backlog"
      BY <3>1
    <3> QED BY <3>1, <3>2, <3>3
  <2> QED BY <1>4, <2>1, <2>2, <2>3, <2>4, <2>5 DEF Tick
<1>5. ASSUME NEW t \in Tasks, NEW s \in Slots, RunTask(t, s) PROVE BacklogIsLeftOnce' /\ Stays
  <2>1. /\ exec[t][s] # "idle" /\ poll' = poll
        /\ \A u \in Tasks \ {t} :
             exec'[u] = exec[u] /\ status'[u] = status[u] /\ runState'[u] = runState[u]
    BY <1>5, RunTaskEffect
  <2>2. status'[t] = status[t] \/ status'[t] = "completed"
    BY <1>5 DEF RunTask, Supersede, RecordRunning, AgentCall, RequestGate,
       RecordWaiting, WorkflowSucceeds, WorkflowFails, CreateIncident, FailAndPause, OpenPr,
       AwaitApproval, MergePr, CloseTracker, LifecycleFails, CompleteTask, ClearJournal, TypeOK
  <2>3. status[t] # "backlog"
    BY <2>1
  <2>4. \A k \in Polls : poll[k].pc # "idle" => poll[k].seen[t] # "backlog"
    BY <2>3
  <2> QED BY <2>1, <2>2, <2>3, <2>4
<1>6. ASSUME NEW t \in Tasks, Operate(t) PROVE BacklogIsLeftOnce' /\ Stays
  <2>1. UNCHANGED <<status, runState, exec, poll>>
    BY <1>6, NobodyActs DEF Operate, PauseTask, ResumeTask
  <2> QED BY <2>1
<1>7. ASSUME NEW t \in Tasks, EditTracker(t) \/ HumanMerges(t) PROVE BacklogIsLeftOnce' /\ Stays
  BY <1>7 DEF EditTracker, HumanMerges
<1>8. CASE UNCHANGED vars
  BY <1>8 DEF vars
<1> QED BY <1>1, <1>2, <1>3, <1>4, <1>5, <1>6, <1>7, <1>8, NobodyActs DEF Next

\* No task has left the backlog at first.
LEMMA BacklogInit == Init => BacklogIsLeftOnce
BY DEF Init, BacklogIsLeftOnce, StartedLeftBacklog, SnapshotIsRight, Busy, Idle, NoPoll

\* One poll at a time never reopens a closed task: what promoteDependents
\* promotes was in the backlog when the graph was read, and still is. With two
\* polls it is false: the second promotes by its own old snapshot.
THEOREM ClosedTasksStayClosed ==
  ASSUME Controls \subseteq {"pause", "resume"}, Answers = {}, Edits = {},
         \A k, l \in Polls : k = l
  PROVE  Spec => ClosedStaysClosed
<1> DEFINE Inv == TypeOK /\ Lone /\ BacklogIsLeftOnce
           Stays == \A t \in Tasks : status[t] = "completed" => status'[t] = "completed"
<1>1. Init => Inv
  BY TypeInit, LoneInit, BacklogInit
<1>2. Inv /\ [Next]_vars => Inv' /\ [Stays]_vars
  BY TypeNext, LoneNext, BacklogNext
<1> QED BY <1>1, <1>2, PTL DEF Spec, ClosedStaysClosed

\* What the journal keeps until the task is closed for good: as long as the
\* task can be executed again its journal holds the calls that were made.
Finished(t) ==
  /\ status[t] = "completed"
  /\ ~Busy(t)
  /\ t \in completedTasks \/ \A k \in Polls : poll[k].pc # "idle" => poll[k].seen[t] = "completed"
Journalled(t) ==
  /\ pr[t] = "open" => journal[t]
  /\ pr[t] = "merged" => journal[t] \/ Finished(t)
  /\ \A s \in Slots :
       /\ exec[t][s] \in {"lifecycle", "closed"} => journal[t]
       /\ exec[t][s] \in {"closed", "clearing"} => status[t] = "completed" /\ pr[t] # "open"
MergedIsJournalled == \A t \in Tasks : Journalled(t)

\* What is said of a task depends on little.
LEMMA FinishedKept ==
  ASSUME NEW t \in Tasks, Finished(t), status'[t] = "completed", exec'[t] = exec[t],
         t \in completedTasks => t \in completedTasks',
         \A k \in Polls : poll'[k].pc # "idle" /\ poll'[k].seen[t] # "completed" =>
           t \in completedTasks' \/ (poll[k].pc # "idle" /\ poll[k].seen[t] # "completed")
  PROVE  Finished(t)'
BY DEF Finished, Busy

\* A merged task that may run again has its journal.
LEMMA JournalNext ==
  ASSUME Controls \subseteq {"pause", "resume"}, Answers = {}, Edits = {},
         \A k, l \in Polls : k = l,
         TypeOK, Lone, BacklogIsLeftOnce, MergedIsJournalled, [Next]_vars
  PROVE  MergedIsJournalled'
<1> USE DEF MergedIsJournalled, Journalled
<1>0. \A t \in Tasks : status[t] = "completed" => status'[t] = "completed"
  BY BacklogNext
<1>1. CASE Crash \/ Shutdown
  <2>1. /\ \A t \in Tasks : \A s \in Slots : exec'[t][s] = "idle"
        /\ \A k \in Polls : poll'[k].pc = "idle"
        /\ UNCHANGED <<status, pr, journal>>
    BY <1>1 DEF Crash, Shutdown, Forget, Idle, NoPoll, durable
  <2> QED BY <2>1 DEF Finished, Busy
<1>2. CASE Boot \/ ReconcileWithoutTracker
  BY <1>2 DEF Boot, ReconcileWithoutTracker, durable, supervisor, Finished, Busy
<1>3. CASE Reconcile
  <2>1. UNCHANGED <<status, pr, journal>> /\ \A k \in Polls : poll'[k].pc = "idle"
    BY <1>3, ReconcileEffect DEF Reconcile, durable
  <2>2. /\ \A t \in Tasks : \A s \in Slots : exec'[t][s] \in {"idle", "launched"}
        /\ \A t \in Tasks : status[t] = "completed" => \A s \in Slots : exec'[t][s] = "idle"
    BY <1>3, ReconcileEffect DEF Resumable
  <2> QED BY <2>1, <2>2 DEF Finished, Busy
<1>4. ASSUME NEW k \in Polls, Tick(k) PROVE MergedIsJournalled'
  <2>1. ASSUME NEW S \in SUBSET Tasks, TickLaunch(k, S) PROVE MergedIsJournalled'
    <3>1. /\ UNCHANGED <<status, pr, journal, completedTasks>> /\ poll' = [poll EXCEPT ![k] = NoPoll]
          /\ \A t \in S : t \notin completedTasks /\ poll[k].seen[t] = "ready" /\ poll[k].pc # "idle"
          /\ \A t \in Tasks \ S : exec'[t] = exec[t]
          /\ \A t \in S \cap activeRuns : exec'[t] = exec[t]
          /\ \A t \in S \ activeRuns : \A s \in Slots : exec'[t][s] \in {"idle", "launched"}
      BY <2>1, LaunchEffect DEF durable
    <3>2. \A l \in Polls : poll'[l].pc = "idle"
      BY <3>1 DEF TypeOK, NoPoll
    <3>3. \A t \in S : ~Finished(t)
      BY <3>1 DEF Finished
    <3>4. \A t \in Tasks : Finished(t) => Finished(t)'
      BY <3>1, <3>2, <3>3 DEF Finished, Busy
    <3>5. \A t \in Tasks : \A s \in Slots : exec'[t][s] \in {"idle", "launched"} \/ exec'[t][s] = exec[t][s]
      BY <3>1
    <3>6. UNCHANGED <<status, pr, journal>>
      BY <3>1
    <3> QED BY <3>4, <3>5, <3>6
  <2>2. CASE ~ \E S \in SUBSET Tasks : TickLaunch(k, S)
    <3>1. UNCHANGED <<exec, pr, journal, completedTasks>>
      BY <1>4, <2>2 DEF Tick, TickRead, TickPlan, TickPromote, TickPromoteFails, durable, supervisor
    <3>2. \A t \in Tasks : status[t] = "completed" =>
            poll'[k].seen[t] = "completed" \/ (poll[k].pc # "idle" /\ poll'[k].seen[t] = poll[k].seen[t])
      <4>1. TickRead(k) => poll'[k].seen = status
        BY DEF TickRead, NoPoll, TypeOK
      <4>2. TickPlan(k) => poll[k].pc # "idle" /\ poll'[k].seen = poll[k].seen
        BY DEF TickPlan, TypeOK
      <4>3. ASSUME NEW t \in Tasks, TickPromoteFails(k, t)
            PROVE  poll[k].pc # "idle" /\ poll'[k].seen = poll[k].seen
        BY <4>3 DEF TickPromoteFails, TypeOK
      <4>4. ASSUME NEW t \in Tasks, TickPromote(k, t)
            PROVE  /\ poll[k].pc # "idle" /\ status[t] # "completed"
                   /\ \A u \in Tasks \ {t} : poll'[k].seen[u] = poll[k].seen[u]
        <5>1. /\ poll[k].pc # "idle" /\ t \in poll[k].todo
              /\ poll'[k].seen = [poll[k].seen EXCEPT ![t] = "ready"]
          BY <4>4 DEF TickPromote, TypeOK
        <5> QED BY <5>1 DEF TypeOK, BacklogIsLeftOnce, SnapshotIsRight
      <4> QED BY <1>4, <2>2, <4>1, <4>2, <4>3, <4>4 DEF Tick
    <3>3. \A t \in Tasks : Finished(t) => Finished(t)'
      BY <1>0, <3>1, <3>2, FinishedKept DEF Finished
    <3> QED BY <1>0, <3>1, <3>3
  <2> QED BY <2>1, <2>2
<1>5. ASSUME NEW t \in Tasks, NEW s \in Slots, RunTask(t, s) PROVE MergedIsJournalled'
  <2>1. /\ exec[t][s] # "idle" /\ poll' = poll
        /\ \A r \in Slots \ {s} : exec[t][r] = "idle" /\ exec'[t][r] = "idle"
        /\ \A u \in Tasks \ {t} :
             /\ exec'[u] = exec[u] /\ status'[u] = status[u] /\ journal'[u] = journal[u]
             /\ pr'[u] = pr[u]
             /\ u \in completedTasks' <=> u \in completedTasks
    BY <1>5, RunTaskEffect
  <2>2. \A u \in Tasks \ {t} : Finished(u) => Finished(u)'
    BY <2>1 DEF Finished, Busy
  <2>3. ~Finished(t)
    BY <2>1 DEF Finished, Busy
  <2>4. CASE ClearJournal(t, s)
    <3>1. /\ exec[t][s] = "clearing" /\ exec'[t][s] = "idle" /\ completedTasks' = completedTasks
          /\ status' = status /\ pr' = pr
      BY <2>4, StageAfter DEF ClearJournal, supervisor
    <3>2. t \in completedTasks /\ status[t] = "completed" /\ pr[t] # "open"
      BY <3>1 DEF Lone, ClearingIsCompleted
    <3>3. Finished(t)'
      BY <2>1, <3>1, <3>2 DEF Finished, Busy
    <3> QED BY <2>1, <2>2, <3>1, <3>2, <3>3
  <2>5. CASE ~ClearJournal(t, s)
    <3>1. journal[t] => journal'[t]
      BY <1>5, <2>5 DEF RunTask, Supersede, RecordRunning, AgentCall, RequestGate,
         RecordWaiting, WorkflowSucceeds, WorkflowFails, CreateIncident, FailAndPause, OpenPr,
         AwaitApproval, MergePr, CloseTracker, LifecycleFails, CompleteTask, TypeOK, durable
    <3>2. exec'[t][s] \in {"lifecycle", "closed"} => journal'[t]
      <4>1. exec'[t][s] \in {"lifecycle", "closed"} =>
              exec[t][s] \in {"lifecycle", "closed"} \/ WorkflowSucceeds(t, s)
        BY <1>5, StageAfter DEF RunTask, CloseTracker
      <4> QED BY <3>1, <4>1 DEF WorkflowSucceeds
    <3>3. exec'[t][s] \in {"closed", "clearing"} => status'[t] = "completed" /\ pr'[t] # "open"
      <4>1. exec'[t][s] \in {"closed", "clearing"} => CloseTracker(t, s) \/ CompleteTask(t, s)
        BY <1>5, StageAfter DEF RunTask, AgentCall, OpenPr, MergePr
      <4>2. CloseTracker(t, s) => status'[t] = "completed" /\ pr'[t] # "open"
        BY DEF CloseTracker, TypeOK
      <4>3. CompleteTask(t, s) => status'[t] = "completed" /\ pr'[t] # "open"
        BY <1>0 DEF CompleteTask, durable
      <4> QED BY <4>1, <4>2, <4>3
    <3>4. pr'[t] # "none" => journal'[t]
      <4>1. pr'[t] = pr[t] \/ exec[t][s] = "lifecycle"
        BY <1>5 DEF RunTask, Supersede, RecordRunning, AgentCall, RequestGate, durable,
           RecordWaiting, WorkflowSucceeds, WorkflowFails, CreateIncident, FailAndPause, OpenPr,
           AwaitApproval, MergePr, CloseTracker, LifecycleFails, CompleteTask, ClearJournal
      <4>2. pr[t] # "none" => journal[t]
        BY <2>3 DEF TypeOK, PrStates
      <4> QED BY <3>1, <4>1, <4>2
    <3>5. Journalled(t)'
      BY <2>1, <3>2, <3>3, <3>4
    <3>6. ASSUME NEW u \in Tasks \ {t} PROVE Journalled(u)'
      <4>1. /\ exec'[u] = exec[u] /\ status'[u] = status[u] /\ journal'[u] = journal[u]
            /\ pr'[u] = pr[u]
            /\ Finished(u) => Finished(u)'
        BY <2>1, <2>2
      <4>2. Journalled(u)
        OBVIOUS
      <4> QED BY <4>1, <4>2
    <3> QED BY <3>5, <3>6
  <2> QED BY <2>4, <2>5
<1>6. ASSUME NEW t \in Tasks, Operate(t) PROVE MergedIsJournalled'
  <2>1. UNCHANGED <<status, pr, journal, exec, poll, completedTasks>>
    BY <1>6, NobodyActs DEF Operate, PauseTask, ResumeTask, durable
  <2> QED BY <2>1 DEF Finished, Busy
<1>7. ASSUME NEW t \in Tasks, HumanMerges(t) PROVE MergedIsJournalled'
  <2>1. UNCHANGED <<status, journal, exec, poll, completedTasks>> /\ journal[t]
    BY <1>7 DEF HumanMerges, supervisor
  <2>2. pr'[t] = "merged" /\ \A u \in Tasks \ {t} : pr'[u] = pr[u]
    BY <1>7 DEF HumanMerges, TypeOK
  <2>3. \A u \in Tasks : Finished(u) => Finished(u)'
    BY <2>1 DEF Finished, Busy
  <2> QED BY <2>1, <2>2, <2>3
<1>8. CASE UNCHANGED vars
  BY <1>8 DEF vars, Finished, Busy
<1>9. \A t \in Tasks : ~EditTracker(t)
  BY DEF EditTracker
<1> QED BY <1>1, <1>2, <1>3, <1>4, <1>5, <1>6, <1>7, <1>8, <1>9, NobodyActs DEF Next

\* Nothing an agent did is done again once it is merged: as long as a merged
\* task can be executed again its journal answers the calls, and the journal
\* goes only when the task is closed. (Of a single poll: a second one may reopen
\* the task after its journal is gone.)
THEOREM MergedTasksAreNotRedone ==
  ASSUME Controls \subseteq {"pause", "resume"}, Answers = {}, Edits = {},
         \A k, l \in Polls : k = l
  PROVE  Spec => MergedIsNotRedone
<1> DEFINE Inv == TypeOK /\ Lone /\ BacklogIsLeftOnce /\ MergedIsJournalled
           NotRedone == \A t \in Tasks : ~journal[t] /\ journal'[t] => pr[t] # "merged"
<1>1. Init => Inv
  <2>1. Init => MergedIsJournalled
    BY DEF Init, MergedIsJournalled, Journalled, Idle
  <2> QED BY <2>1, TypeInit, LoneInit, BacklogInit
<1>2. Inv /\ [Next]_vars => Inv'
  BY TypeNext, LoneNext, BacklogNext, JournalNext
<1>3. Inv /\ [Next]_vars => [NotRedone]_vars
  <2> SUFFICES ASSUME Inv, Next, NEW t \in Tasks, ~journal[t], journal'[t] PROVE pr[t] # "merged"
    BY DEF NotRedone
  <2>1. \E s \in Slots : AgentCall(t, s)
    <3>1. ASSUME NEW u \in Tasks, NEW s \in Slots, RunTask(u, s), ~AgentCall(u, s) PROVE FALSE
      BY <3>1 DEF RunTask, Supersede, RecordRunning, RequestGate, durable, DropJournal,
         RecordWaiting, WorkflowSucceeds, WorkflowFails, CreateIncident, FailAndPause, OpenPr,
         AwaitApproval, MergePr, CloseTracker, LifecycleFails, CompleteTask, ClearJournal, TypeOK
    <3>2. ASSUME NEW u \in Tasks \ {t}, NEW s \in Slots, AgentCall(u, s) PROVE FALSE
      BY <3>2 DEF AgentCall, TypeOK
    <3>3. ASSUME NEW k \in Polls, Tick(k) PROVE FALSE
      BY <3>3 DEF Tick, TickRead, TickPlan, TickPromote, TickPromoteFails, TickLaunch, durable
    <3>4. ASSUME NEW u \in Tasks, Operate(u) \/ HumanMerges(u) \/ EditTracker(u) PROVE FALSE
      BY <3>4 DEF Operate, PauseTask, ResumeTask, StopTask, RestartTask, HumanMerges, EditTracker, durable
    <3>5. ~(Crash \/ Shutdown \/ Boot \/ Reconcile \/ ReconcileWithoutTracker)
      BY DEF Crash, Shutdown, Boot, Reconcile, ReconcileWithoutTracker, durable
    <3> QED BY <3>1, <3>2, <3>3, <3>4, <3>5, NobodyActs DEF Next
  <2> QED BY <2>1 DEF AgentCall, MergedIsJournalled, Journalled, Finished, Busy
<1> QED BY <1>1, <1>2, <1>3, PTL DEF Spec, MergedIsNotRedone

(***************************************************************************)
(* Rows and executions                                                     *)
(***************************************************************************)

\* The run rows that a restart would resume, and what they say of the
\* executions of a process that is up.
Unsettled == {t \in Tasks : runState[t] \in {"running", "interrupted"}}
Underway == {"launched", "starting", "workflow", "gating"}

ClosedIsCompleted ==
  \A t \in Tasks :
    /\ status[t] = "completed" => runState[t] = "completed"
    /\ \A s \in Slots :
         /\ exec[t][s] \in Underway \cup {"gated"} => status[t] # "completed"
         /\ exec[t][s] = "lifecycle" => runState[t] = "completed"
RowIsTrue(t) ==
  /\ t \in Unsettled => \E s \in Slots : exec[t][s] \in Underway
  /\ runState[t] = "waiting" => t \in manuallyPaused \/ \E s \in Slots : exec[t][s] = "gated"
  /\ status[t] = "completed" =>
       \/ t \in activeRuns \cup completedTasks \cup manuallyPaused
       \/ \A k \in Polls : poll[k].pc # "idle" => poll[k].seen[t] = "completed"
RowsAreTrue == phase = "up" => \A t \in Tasks : RowIsTrue(t)
Restartable == ClosedIsCompleted /\ RowsAreTrue

\* What a restart will find in the rows stays true.
LEMMA RowsNext ==
  ASSUME Controls \subseteq {"pause"}, Answers = {}, Edits = {}, ~Outages,
         TypeOK, Lone, Restartable, [Next]_vars
  PROVE  Restartable'
<1> USE DEF Restartable, ClosedIsCompleted, RowsAreTrue, RowIsTrue, Unsettled
<1>0. Controls \subseteq {"pause", "resume"}
  OBVIOUS
<1>1. CASE Crash \/ Shutdown
  <2>1. /\ \A t \in Tasks : \A s \in Slots : exec'[t][s] = "idle"
        /\ status' = status /\ phase' # "up"
        /\ \A t \in Tasks : runState[t] = "completed" => runState'[t] = "completed"
    BY <1>1 DEF Crash, Shutdown, Forget, Idle, durable
  <2> QED BY <2>1 DEF Underway
<1>2. CASE Boot \/ ReconcileWithoutTracker
  <2>1. UNCHANGED <<exec, status, runState>> /\ phase' # "up"
    BY <1>2 DEF Boot, ReconcileWithoutTracker, durable
  <2> QED BY <2>1
<1>3. CASE Reconcile
  <2>1. /\ UNCHANGED <<status, runState>> /\ \A k \in Polls : poll'[k].pc = "idle"
        /\ HumanGated \subseteq manuallyPaused'
    BY <1>3, ReconcileEffect DEF Reconcile, durable
  <2>2. /\ \A t \in Tasks \ Resumable : \A s \in Slots : exec'[t][s] = "idle"
        /\ \A t \in Resumable : \E s \in Slots : exec'[t][s] = "launched"
        /\ \A t \in Resumable : \A s \in Slots : exec'[t][s] \in {"idle", "launched"}
    BY <1>3, ReconcileEffect
  <2>3. \A t \in Tasks : /\ t \in Unsettled => t \in Resumable
                         /\ t \in Resumable => status[t] # "completed"
                         /\ runState[t] = "waiting" => t \in HumanGated
    BY DEF Resumable, HumanGated
  <2>4. ClosedIsCompleted'
    BY <2>1, <2>2, <2>3 DEF Underway
  <2>5. \A t \in Tasks : RowIsTrue(t)'
    BY <2>1, <2>2, <2>3 DEF Underway
  <2> QED BY <2>4, <2>5
<1>4. ASSUME NEW k \in Polls, Tick(k) PROVE Restartable'
  <2>0. phase = "up" /\ phase' = phase /\ UNCHANGED <<runState, completedTasks, manuallyPaused>>
    <3>1. poll[k].pc # "idle" \/ phase = "up"
      BY <1>4 DEF Tick, TickRead, TickPlan, TickPromote, TickPromoteFails, TickLaunch
    <3>2. phase' = phase /\ UNCHANGED <<runState, completedTasks, manuallyPaused>>
      BY <1>4 DEF Tick, TickRead, TickPlan, TickPromote, TickPromoteFails, TickLaunch, durable, supervisor
    <3> QED BY <3>1, <3>2 DEF Lone, NothingBeforeUp
  <2>1. ASSUME NEW S \in SUBSET Tasks, TickLaunch(k, S) PROVE Restartable'
    <3> DEFINE N == S \ activeRuns
    <3>1. /\ status' = status /\ poll' = [poll EXCEPT ![k] = NoPoll] /\ poll[k].pc # "idle"
          /\ activeRuns \subseteq activeRuns'
          /\ \A t \in S : t \notin manuallyPaused \cup completedTasks /\ poll[k].seen[t] = "ready"
          /\ \A t \in Tasks \ N : exec'[t] = exec[t]
          /\ \A t \in N : \A s \in Slots : exec[t][s] = "idle"
          /\ \A t \in N : \E s \in Slots : exec'[t][s] = "launched"
          /\ \A t \in N : \A s \in Slots : exec'[t][s] \in {"idle", "launched"}
      BY <2>1, LaunchEffect DEF durable
    <3>2. \A t \in N : status[t] # "completed" /\ runState[t] # "waiting"
      BY <2>0, <3>1
    <3>3. \A l \in Polls : poll'[l].pc # "idle" => poll'[l] = poll[l] /\ poll[l].pc # "idle"
      BY <3>1 DEF TypeOK, NoPoll
    <3> HIDE DEF N
    <3>4. ASSUME NEW t \in N PROVE t \in Tasks => RowIsTrue(t)'
      BY <2>0, <3>1, <3>2, <3>4 DEF Underway
    <3>5. ASSUME NEW t \in Tasks \ N PROVE RowIsTrue(t)'
      <4>1. RowIsTrue(t) /\ exec'[t] = exec[t] /\ status'[t] = status[t] /\ runState'[t] = runState[t]
        BY <2>0, <3>1
      <4> QED BY <2>0, <3>1, <3>3, <4>1
    <3>6. ClosedIsCompleted'
      <4>1. \A t \in Tasks : \A s \in Slots :
               \/ exec'[t][s] = exec[t][s] \/ exec'[t][s] = "idle"
               \/ (exec'[t][s] = "launched" /\ status[t] # "completed")
        BY <3>1, <3>2
      <4> QED BY <2>0, <3>1, <4>1 DEF Underway
    <3> QED BY <2>0, <3>4, <3>5, <3>6
  <2>2. CASE ~ \E S \in SUBSET Tasks : TickLaunch(k, S)
    <3>1. UNCHANGED <<exec, activeRuns>>
      BY <1>4, <2>2 DEF Tick, TickRead, TickPlan, TickPromote, TickPromoteFails, durable, supervisor
    <3>2. \A t \in Tasks : status'[t] = "completed" =>
            /\ status[t] = "completed"
            /\ \A l \in Polls : poll'[l].pc # "idle" =>
                 poll'[l].seen[t] = "completed" \/ (poll[l].pc # "idle" /\ poll'[l].seen[t] = poll[l].seen[t])
      <4>1. TickRead(k) => /\ status' = status /\ poll'[k].seen = status
                           /\ \A l \in Polls \ {k} : poll'[l] = poll[l]
        BY DEF TickRead, NoPoll, TypeOK, durable
      <4>2. TickPlan(k) => /\ status' = status /\ poll[k].pc # "idle" /\ poll'[k].seen = poll[k].seen
                           /\ \A l \in Polls \ {k} : poll'[l] = poll[l]
        BY DEF TickPlan, TypeOK, durable
      <4>3. ASSUME NEW t \in Tasks, TickPromoteFails(k, t)
            PROVE  /\ status' = status /\ poll[k].pc # "idle" /\ poll'[k].seen = poll[k].seen
                   /\ \A l \in Polls \ {k} : poll'[l] = poll[l]
        BY <4>3 DEF TickPromoteFails, TypeOK, durable
      <4>4. ASSUME NEW t \in Tasks, TickPromote(k, t)
            PROVE  /\ poll[k].pc # "idle" /\ status'[t] = "ready"
                   /\ \A u \in Tasks \ {t} : poll'[k].seen[u] = poll[k].seen[u] /\ status'[u] = status[u]
                   /\ \A l \in Polls \ {k} : poll'[l] = poll[l]
        <5>1. /\ poll[k].pc # "idle" /\ status' = [status EXCEPT ![t] = "ready"]
              /\ poll'[k].seen = [poll[k].seen EXCEPT ![t] = "ready"]
              /\ \A l \in Polls \ {k} : poll'[l] = poll[l]
          BY <4>4 DEF TickPromote, TypeOK
        <5> QED BY <5>1 DEF TypeOK
      <4> QED BY <1>4, <2>2, <4>1, <4>2, <4>3, <4>4 DEF Tick
    <3>3. ClosedIsCompleted'
      BY <2>0, <3>1, <3>2
    <3>4. ASSUME NEW t \in Tasks PROVE RowIsTrue(t)'
      <4>1. RowIsTrue(t) /\ exec'[t] = exec[t] /\ runState'[t] = runState[t]
        BY <2>0, <3>1
      <4> QED BY <2>0, <3>1, <3>2, <4>1
    <3> QED BY <3>3, <3>4
  <2> QED BY <2>1, <2>2
<1>5. ASSUME NEW t \in Tasks, NEW s \in Slots, RunTask(t, s) PROVE Restartable'
  <2>1. /\ exec[t][s] # "idle" /\ poll' = poll /\ phase = "up" /\ phase' = phase
        /\ \A r \in Slots \ {s} : exec[t][r] = "idle" /\ exec'[t][r] = "idle"
        /\ \A u \in Tasks \ {t} :
             /\ exec'[u] = exec[u] /\ status'[u] = status[u] /\ runState'[u] = runState[u]
             /\ u \in activeRuns' <=> u \in activeRuns
             /\ u \in completedTasks' <=> u \in completedTasks
             /\ u \in manuallyPaused' <=> u \in manuallyPaused
    BY <1>5, RunTaskEffect
  <2>2. ASSUME NEW u \in Tasks \ {t}
        PROVE  /\ RowIsTrue(u)'
               /\ status'[u] = "completed" => runState'[u] = "completed"
               /\ \A r \in Slots :
                    /\ exec'[u][r] \in Underway \cup {"gated"} => status'[u] # "completed"
                    /\ exec'[u][r] = "lifecycle" => runState'[u] = "completed"
    BY <2>1
  <2>3. exec'[t][s] = "lifecycle" => runState'[t] = "completed"
    <3>1. exec'[t][s] = "lifecycle" =>
            \/ WorkflowSucceeds(t, s)
            \/ (exec[t][s] = "lifecycle" /\ runState' = runState)
      BY <1>5, StageAfter DEF RunTask, AgentCall, OpenPr, MergePr
    <3> QED BY <3>1 DEF WorkflowSucceeds, TypeOK
  <2>4. exec'[t][s] \in Underway \cup {"gated"} =>
          exec[t][s] \in Underway \cup {"gated"} /\ status' = status
    BY <1>5, StageAfter DEF RunTask, Supersede, RecordRunning, AgentCall, RequestGate,
       RecordWaiting, OpenPr, MergePr, Underway
  <2>5. status'[t] = "completed" => runState'[t] = "completed"
    <3>1. CloseTracker(t, s) => runState'[t] = "completed"
      BY DEF CloseTracker
    <3>2. ~CloseTracker(t, s) => status' = status
      BY <1>5 DEF RunTask, Supersede, RecordRunning, AgentCall, RequestGate,
         RecordWaiting, WorkflowSucceeds, WorkflowFails, CreateIncident, FailAndPause, OpenPr,
         AwaitApproval, MergePr, LifecycleFails, CompleteTask, ClearJournal, durable
    <3>3. runState[t] = "completed" /\ runState'[t] # "completed" => exec[t][s] \in Underway \cup {"gated"}
      BY <1>5 DEF RunTask, Supersede, RecordRunning, AgentCall, RequestGate, Underway,
         RecordWaiting, WorkflowSucceeds, WorkflowFails, CreateIncident, FailAndPause, OpenPr,
         AwaitApproval, MergePr, CloseTracker, LifecycleFails, CompleteTask, ClearJournal, durable
    <3> QED BY <3>1, <3>2, <3>3
  <2>6. runState'[t] \in {"running", "interrupted"} => exec'[t][s] \in Underway
    <3>1. RecordRunning(t, s) => exec'[t][s] \in Underway
      BY StageAfter DEF Underway
    <3>2. runState'[t] \in {"running", "interrupted"} /\ ~RecordRunning(t, s) =>
            /\ runState[t] \in {"running", "interrupted"}
            /\ ~WorkflowSucceeds(t, s) /\ ~WorkflowFails(t, s) /\ ~RecordWaiting(t, s)
      BY <1>5 DEF RunTask, Supersede, AgentCall, RequestGate,
         RecordWaiting, WorkflowSucceeds, WorkflowFails, CreateIncident, FailAndPause, OpenPr,
         AwaitApproval, MergePr, CloseTracker, LifecycleFails, CompleteTask, ClearJournal, durable, TypeOK
    <3>3. runState[t] \in {"running", "interrupted"} => exec[t][s] \in Underway
      BY <2>1 DEF Underway
    <3>4. exec[t][s] \in Underway /\ exec'[t][s] \notin Underway =>
            WorkflowSucceeds(t, s) \/ WorkflowFails(t, s) \/ RecordWaiting(t, s)
      BY <1>5, StageAfter DEF RunTask, Underway, CreateIncident, FailAndPause, OpenPr,
         AwaitApproval, MergePr, CloseTracker, LifecycleFails, CompleteTask, ClearJournal
    <3> QED BY <3>1, <3>2, <3>3, <3>4
  <2>7. runState'[t] = "waiting" => t \in manuallyPaused' \/ exec'[t][s] = "gated"
    <3>1. RecordWaiting(t, s) => exec'[t][s] = "gated"
      BY StageAfter
    <3>2. FailAndPause(t, s) => t \in manuallyPaused'
      BY DEF FailAndPause
    <3>3. runState'[t] = "waiting" /\ ~RecordWaiting(t, s) => runState[t] = "waiting"
      BY <1>5 DEF RunTask, Supersede, RecordRunning, AgentCall, RequestGate,
         WorkflowSucceeds, WorkflowFails, CreateIncident, FailAndPause, OpenPr,
         AwaitApproval, MergePr, CloseTracker, LifecycleFails, CompleteTask, ClearJournal, durable, TypeOK
    <3>4. manuallyPaused \subseteq manuallyPaused'
      BY <1>5 DEF RunTask, Supersede, RecordRunning, AgentCall, RequestGate,
         RecordWaiting, WorkflowSucceeds, WorkflowFails, CreateIncident, FailAndPause, OpenPr,
         AwaitApproval, MergePr, CloseTracker, LifecycleFails, CompleteTask, ClearJournal, supervisor
    <3>5. runState[t] = "waiting" => t \in manuallyPaused \/ exec[t][s] = "gated"
      BY <2>1
    <3>6. exec[t][s] = "gated" => FailAndPause(t, s)
      BY <1>5 DEF RunTask, Supersede, RecordRunning, AgentCall, RequestGate,
         RecordWaiting, WorkflowSucceeds, WorkflowFails, CreateIncident, OpenPr,
         AwaitApproval, MergePr, CloseTracker, LifecycleFails, CompleteTask, ClearJournal
    <3> QED BY <3>1, <3>2, <3>3, <3>4, <3>5, <3>6
  <2>8. status'[t] = "completed" =>
          \/ t \in activeRuns' \cup completedTasks' \cup manuallyPaused'
          \/ \A k \in Polls : poll'[k].pc # "idle" => poll'[k].seen[t] = "completed"
    <3>1. exec[t][s] # "clearing" => t \in activeRuns
      BY <2>1 DEF Lone, AtWorkIsActive
    <3>2. exec[t][s] = "clearing" => t \in completedTasks
      BY DEF Lone, ClearingIsCompleted
    <3>3. t \in activeRuns => t \in activeRuns' \cup completedTasks' \cup manuallyPaused'
      BY <1>5 DEF RunTask, Supersede, RecordRunning, AgentCall, RequestGate,
         RecordWaiting, WorkflowSucceeds, WorkflowFails, CreateIncident, FailAndPause, OpenPr,
         AwaitApproval, MergePr, CloseTracker, LifecycleFails, CompleteTask, ClearJournal, supervisor
    <3>4. completedTasks \subseteq completedTasks'
      BY <1>5 DEF RunTask, Supersede, RecordRunning, AgentCall, RequestGate,
         RecordWaiting, WorkflowSucceeds, WorkflowFails, CreateIncident, FailAndPause, OpenPr,
         AwaitApproval, MergePr, CloseTracker, LifecycleFails, CompleteTask, ClearJournal, supervisor
    <3> QED BY <3>1, <3>2, <3>3, <3>4
  <2>9. RowIsTrue(t)'
    BY <2>6, <2>7, <2>8
  <2>10. \A r \in Slots :
           /\ exec'[t][r] \in Underway \cup {"gated"} => status'[t] # "completed"
           /\ exec'[t][r] = "lifecycle" => runState'[t] = "completed"
    BY <2>1, <2>3, <2>4 DEF Underway
  <2> QED BY <2>1, <2>2, <2>5, <2>9, <2>10
<1>6. ASSUME NEW t \in Tasks, Operate(t) PROVE Restartable'
  <2>1. /\ UNCHANGED <<status, runState, exec, poll, phase, activeRuns, completedTasks>>
        /\ manuallyPaused \subseteq manuallyPaused'
    BY <1>0, <1>6, NobodyActs DEF Operate, PauseTask, ResumeTask, durable
  <2> QED BY <2>1
<1>7. ASSUME NEW t \in Tasks, HumanMerges(t) PROVE Restartable'
  BY <1>7 DEF HumanMerges, supervisor
<1>8. CASE UNCHANGED vars
  BY <1>8 DEF vars
<1>9. \A t \in Tasks : ~EditTracker(t)
  BY DEF EditTracker
<1> QED BY <1>0, <1>1, <1>2, <1>3, <1>4, <1>5, <1>6, <1>7, <1>8, <1>9, NobodyActs DEF Next

\* A row that a restart would resume belongs to an execution, or to a task that was closed
\* before the daemon was started and that no poll takes for anything else. A poll promotes
\* what it read as backlog.
LeftBehind(t) ==
  /\ status[t] = "completed" /\ \A s \in Slots : exec[t][s] = "idle"
  /\ \A k \in Polls : poll[k].pc # "idle" => poll[k].seen[t] = "completed"
BackedRow(t) ==
  runState[t] \in {"running", "interrupted"} => LeftBehind(t) \/ \E s \in Slots : exec[t][s] \in Underway
PromotesBacklog == \A k \in Polls : poll[k].pc # "idle" => \A t \in poll[k].todo : poll[k].seen[t] = "backlog"
RowsAreBacked == PromotesBacklog /\ (phase = "up" => \A t \in Tasks : BackedRow(t))

\* A task that nothing is done to stays backed.
LEMMA BackedKept ==
  ASSUME NEW t \in Tasks, BackedRow(t), status'[t] = status[t], runState'[t] = runState[t],
         exec'[t] = exec[t],
         \A k \in Polls : poll'[k].pc # "idle" =>
           \/ poll'[k].seen[t] = status[t]
           \/ poll[k].pc # "idle" /\ poll'[k].seen[t] = poll[k].seen[t]
  PROVE  BackedRow(t)'
BY DEF BackedRow, LeftBehind

\* What polls do to the rows' backing.
LEMMA TicksBack ==
  ASSUME ~Outages, TypeOK, Lone, RowsAreBacked, NEW k \in Polls, Tick(k)
  PROVE  RowsAreBacked'
<1>0. phase = "up" /\ phase' = phase /\ runState' = runState /\ \A t \in Tasks : BackedRow(t)
  <2>1. poll[k].pc # "idle" \/ phase = "up"
    BY DEF Tick, TickRead, TickPlan, TickPromote, TickPromoteFails, TickLaunch
  <2>2. phase' = phase /\ runState' = runState
    BY DEF Tick, TickRead, TickPlan, TickPromote, TickPromoteFails, TickLaunch, durable
  <2> QED BY <2>1, <2>2 DEF Lone, NothingBeforeUp, RowsAreBacked
<1>1. CASE TickRead(k)
  <2>1. /\ UNCHANGED <<status, exec>> /\ poll'[k].seen = status /\ poll'[k].todo = {}
        /\ \A l \in Polls \ {k} : poll'[l] = poll[l]
    BY <1>1 DEF TickRead, NoPoll, TypeOK, durable
  <2>2. PromotesBacklog'
    BY <2>1 DEF RowsAreBacked, PromotesBacklog
  <2>3. \A t \in Tasks : BackedRow(t)'
    BY <1>0, <2>1, BackedKept
  <2> QED BY <2>2, <2>3 DEF RowsAreBacked
<1>2. CASE TickPlan(k)
  <2>1. /\ UNCHANGED <<status, exec>> /\ poll[k].pc # "idle" /\ poll'[k].seen = poll[k].seen
        /\ poll'[k].todo = Promotable(poll[k].seen)
        /\ \A l \in Polls \ {k} : poll'[l] = poll[l]
    BY <1>2 DEF TickPlan, TypeOK, durable
  <2>2. PromotesBacklog'
    BY <2>1 DEF RowsAreBacked, PromotesBacklog, Promotable
  <2>3. \A t \in Tasks : BackedRow(t)'
    BY <1>0, <2>1, BackedKept
  <2> QED BY <2>2, <2>3 DEF RowsAreBacked
<1>3. ASSUME NEW u \in Tasks, TickPromote(k, u) PROVE RowsAreBacked'
  <2>1. /\ exec' = exec /\ poll[k].pc # "idle" /\ u \in poll[k].todo
        /\ poll'[k].todo = poll[k].todo \ {u} /\ poll'[k].seen = [poll[k].seen EXCEPT ![u] = "ready"]
        /\ \A l \in Polls \ {k} : poll'[l] = poll[l]
        /\ status' = [status EXCEPT ![u] = "ready"]
    BY <1>3 DEF TickPromote, TypeOK
  <2>2. \A t \in Tasks \ {u} : poll'[k].seen[t] = poll[k].seen[t] /\ status'[t] = status[t]
    BY <2>1 DEF TypeOK
  <2>3. poll[k].todo \subseteq Tasks
    BY DEF TypeOK
  <2>4. PromotesBacklog'
    <3>1. \A t \in poll'[k].todo : poll'[k].seen[t] = "backlog"
      BY <2>1, <2>2, <2>3 DEF RowsAreBacked, PromotesBacklog
    <3>2. \A l \in Polls \ {k} : poll'[l].pc # "idle" => \A t \in poll'[l].todo : poll'[l].seen[t] = "backlog"
      BY <2>1 DEF RowsAreBacked, PromotesBacklog
    <3> QED BY <3>1, <3>2 DEF PromotesBacklog
  <2>5. poll[k].seen[u] = "backlog"
    BY <2>1 DEF RowsAreBacked, PromotesBacklog
  <2>6. BackedRow(u)'
    BY <1>0, <2>1, <2>5 DEF BackedRow, LeftBehind
  <2>7. \A t \in Tasks \ {u} : BackedRow(t)'
    BY <1>0, <2>1, <2>2, BackedKept
  <2> QED BY <2>4, <2>6, <2>7 DEF RowsAreBacked
<1>4. ASSUME NEW S \in SUBSET Tasks, TickLaunch(k, S) PROVE RowsAreBacked'
  <2> DEFINE N == S \ activeRuns
  <2>1. /\ status' = status /\ poll' = [poll EXCEPT ![k] = NoPoll]
        /\ \A t \in Tasks \ N : exec'[t] = exec[t]
        /\ \A t \in N : \E s \in Slots : exec'[t][s] = "launched"
    BY <1>4, LaunchEffect DEF durable
  <2>2. \A l \in Polls : poll'[l].pc # "idle" => poll'[l] = poll[l] /\ poll[l].pc # "idle"
    BY <2>1 DEF TypeOK, NoPoll
  <2> HIDE DEF N
  <2>3. PromotesBacklog'
    BY <2>2 DEF RowsAreBacked, PromotesBacklog
  <2>4. \A t \in Tasks \ N : BackedRow(t)'
    BY <1>0, <2>1, <2>2, BackedKept
  <2>5. \A t \in N : BackedRow(t)'
    BY <2>1 DEF BackedRow, Underway
  <2> QED BY <2>3, <2>4, <2>5 DEF RowsAreBacked
<1> QED BY <1>1, <1>2, <1>3, <1>4 DEF Tick, TickPromoteFails

\* Whatever an execution does, its row says running only while it is on its way.
LEMMA ExecutionsBack ==
  ASSUME TypeOK, Lone, RowsAreBacked, NEW t \in Tasks, NEW s \in Slots, RunTask(t, s)
  PROVE  RowsAreBacked'
<1>1. /\ exec[t][s] # "idle" /\ poll' = poll /\ phase = "up"
      /\ \A r \in Slots \ {s} : exec[t][r] = "idle" /\ exec'[t][r] = "idle"
      /\ \A u \in Tasks \ {t} :
           exec'[u] = exec[u] /\ status'[u] = status[u] /\ runState'[u] = runState[u]
  BY RunTaskEffect
<1>2. \A u \in Tasks \ {t} : BackedRow(u)'
  BY <1>1, BackedKept DEF RowsAreBacked
<1>3. runState'[t] \in {"running", "interrupted"} => exec'[t][s] \in Underway
  <2>1. RecordRunning(t, s) => exec'[t][s] \in Underway
    BY StageAfter DEF Underway
  <2>2. runState'[t] \in {"running", "interrupted"} /\ ~RecordRunning(t, s) =>
          /\ runState[t] \in {"running", "interrupted"}
          /\ ~WorkflowSucceeds(t, s) /\ ~WorkflowFails(t, s) /\ ~RecordWaiting(t, s)
    BY DEF RunTask, Supersede, AgentCall, RequestGate,
       RecordWaiting, WorkflowSucceeds, WorkflowFails, CreateIncident, FailAndPause, OpenPr,
       AwaitApproval, MergePr, CloseTracker, LifecycleFails, CompleteTask, ClearJournal, durable, TypeOK
  <2>3. runState[t] \in {"running", "interrupted"} => exec[t][s] \in Underway
    BY <1>1 DEF RowsAreBacked, BackedRow, LeftBehind, Underway
  <2>4. exec[t][s] \in Underway /\ exec'[t][s] \notin Underway =>
          WorkflowSucceeds(t, s) \/ WorkflowFails(t, s) \/ RecordWaiting(t, s)
    BY StageAfter DEF RunTask, Underway, CreateIncident, FailAndPause, OpenPr,
       AwaitApproval, MergePr, CloseTracker, LifecycleFails, CompleteTask, ClearJournal
  <2> QED BY <2>1, <2>2, <2>3, <2>4
<1>4. BackedRow(t)'
  BY <1>3 DEF BackedRow
<1> QED BY <1>1, <1>2, <1>4 DEF RowsAreBacked, PromotesBacklog

\* ... and so does every other step.
LEMMA BackedNext ==
  ASSUME Controls \subseteq {"pause", "resume"}, Answers = {}, Edits = {}, ~Outages,
         TypeOK, Lone, RowsAreBacked, [Next]_vars
  PROVE  RowsAreBacked'
<1>1. CASE Crash \/ Shutdown
  <2>1. phase' # "up" /\ \A k \in Polls : poll'[k].pc = "idle"
    BY <1>1 DEF Crash, Shutdown, Forget, NoPoll
  <2> QED BY <2>1 DEF RowsAreBacked, PromotesBacklog
<1>2. CASE Boot \/ ReconcileWithoutTracker
  BY <1>2 DEF Boot, ReconcileWithoutTracker, RowsAreBacked, PromotesBacklog
<1>3. CASE Reconcile
  <2>1. /\ UNCHANGED <<status, runState>> /\ \A k \in Polls : poll'[k].pc = "idle"
        /\ \A t \in Tasks \ Resumable : \A s \in Slots : exec'[t][s] = "idle"
        /\ \A t \in Resumable : \E s \in Slots : exec'[t][s] = "launched"
    BY <1>3, ReconcileEffect DEF Reconcile, durable
  <2>2. \A t \in Tasks : BackedRow(t)'
    BY <2>1 DEF BackedRow, LeftBehind, Underway, Resumable
  <2> QED BY <2>1, <2>2 DEF RowsAreBacked, PromotesBacklog
<1>4. ASSUME NEW t \in Tasks, Operate(t) \/ HumanMerges(t) PROVE RowsAreBacked'
  <2>1. UNCHANGED <<status, runState, exec, poll, phase>>
    BY <1>4, NobodyActs DEF Operate, PauseTask, ResumeTask, HumanMerges, durable
  <2> QED BY <2>1 DEF RowsAreBacked, PromotesBacklog, BackedRow, LeftBehind
<1>5. \A t \in Tasks : ~EditTracker(t)
  BY DEF EditTracker
<1>6. CASE UNCHANGED vars
  BY <1>6 DEF vars, RowsAreBacked, PromotesBacklog, BackedRow, LeftBehind
<1> QED BY <1>1, <1>2, <1>3, <1>4, <1>5, <1>6, TicksBack, ExecutionsBack, NobodyActs DEF Next

\* The limit holds of the supervisor's set, and of the rows a restart resumes
\* while there is no supervisor.
LimitIsKept ==
  /\ Cardinality(activeRuns) <= MaxParallel
  /\ phase # "up" => Cardinality(Resumable) <= MaxParallel

\* A subset of a set of tasks within the limit is within the limit.
LEMMA SubsetsAreWithin ==
  ASSUME NEW S \in SUBSET Tasks, NEW T \in SUBSET S, Cardinality(S) <= MaxParallel
  PROVE  Cardinality(T) <= MaxParallel
<1>1. IsFiniteSet(S) /\ IsFiniteSet(T)
  BY DaemonAssumption, FS_Subset DEF DaemonAssumption
<1>2. Cardinality(T) <= Cardinality(S) /\ Cardinality(S) \in Nat /\ Cardinality(T) \in Nat
  BY <1>1, FS_Subset, FS_CardinalityType
<1> QED BY <1>2, DaemonAssumption DEF DaemonAssumption

\* What a restart would resume stays within the limit.
LEMMA LimitNext ==
  ASSUME Controls \subseteq {"pause", "resume"}, Answers = {}, Edits = {}, ~Outages,
         TypeOK, Lone, RowsAreBacked, LimitIsKept, [Next]_vars
  PROVE  LimitIsKept'
<1>0. activeRuns \in SUBSET Tasks /\ Resumable \in SUBSET Tasks
  BY DEF TypeOK, Resumable
<1>1. phase = "up" => Resumable \subseteq activeRuns
  BY DEF RowsAreBacked, BackedRow, LeftBehind, Resumable, Underway, Lone, AtWorkIsActive
<1>2. Cardinality(Resumable) <= MaxParallel
  BY <1>0, <1>1, SubsetsAreWithin DEF LimitIsKept
<1>3. CASE activeRuns' \subseteq activeRuns /\ (Resumable' \subseteq Resumable \/ phase' = "up")
  BY <1>0, <1>2, <1>3, SubsetsAreWithin DEF LimitIsKept
<1>4. CASE Crash \/ Shutdown
  <2>1. activeRuns' = {} /\ Resumable' = Resumable
    BY <1>4 DEF Crash, Shutdown, Forget, durable, Resumable, TypeOK
  <2> QED BY <1>3, <2>1
<1>5. CASE Boot \/ ReconcileWithoutTracker
  BY <1>3, <1>5 DEF Boot, ReconcileWithoutTracker, durable, supervisor, Resumable
<1>6. CASE Reconcile
  <2>1. activeRuns' = Resumable /\ phase' = "up"
    BY <1>6, ReconcileEffect
  <2> QED BY <1>2, <2>1 DEF LimitIsKept
<1>7. ASSUME NEW k \in Polls, NEW S \in SUBSET Tasks, TickLaunch(k, S) PROVE LimitIsKept'
  <2>1. activeRuns' = activeRuns \cup S /\ Cardinality(S) <= Available /\ phase' = "up"
    BY <1>7, LaunchEffect
  <2>2. IsFiniteSet(activeRuns) /\ IsFiniteSet(S)
    BY <1>0, DaemonAssumption, FS_Subset DEF DaemonAssumption
  <2>3. /\ Cardinality(activeRuns \cup S) =
             Cardinality(activeRuns) + Cardinality(S) - Cardinality(activeRuns \cap S)
        /\ IsFiniteSet(activeRuns \cap S)
    BY <2>2, FS_Union, FS_Subset
  <2>4. /\ Cardinality(activeRuns) \in Nat /\ Cardinality(S) \in Nat
        /\ Cardinality(activeRuns \cap S) \in Nat /\ MaxParallel \in Nat
    BY <2>2, <2>3, FS_CardinalityType, DaemonAssumption DEF DaemonAssumption
  <2> QED BY <2>1, <2>3, <2>4 DEF Available, LimitIsKept
<1>8. ASSUME NEW k \in Polls, Tick(k), ~ \E S \in SUBSET Tasks : TickLaunch(k, S) PROVE LimitIsKept'
  <2>1. poll[k].pc # "idle" \/ phase = "up"
    BY <1>8 DEF Tick, TickRead, TickPlan, TickPromote, TickPromoteFails
  <2>2. UNCHANGED <<phase, activeRuns>>
    BY <1>8 DEF Tick, TickRead, TickPlan, TickPromote, TickPromoteFails, durable, supervisor
  <2> QED BY <1>3, <2>1, <2>2 DEF Lone, NothingBeforeUp
<1>9. ASSUME NEW t \in Tasks, NEW s \in Slots, RunTask(t, s) PROVE LimitIsKept'
  <2>1. phase' = "up"
    BY <1>9, RunTaskEffect
  <2>2. activeRuns' \subseteq activeRuns
    BY <1>9 DEF RunTask, Supersede, RecordRunning, AgentCall, RequestGate, RecordWaiting,
       WorkflowSucceeds, WorkflowFails, CreateIncident, FailAndPause, OpenPr, AwaitApproval, MergePr,
       CloseTracker, LifecycleFails, CompleteTask, ClearJournal, supervisor
  <2> QED BY <1>3, <2>1, <2>2
<1>10. ASSUME NEW t \in Tasks, Operate(t) PROVE LimitIsKept'
  BY <1>3, <1>10, NobodyActs DEF Operate, PauseTask, ResumeTask, durable, Resumable
<1>11. ASSUME NEW t \in Tasks, EditTracker(t) \/ HumanMerges(t) PROVE LimitIsKept'
  BY <1>3, <1>11 DEF EditTracker, HumanMerges, supervisor, Resumable
<1>12. CASE UNCHANGED vars
  BY <1>3, <1>12 DEF vars, Resumable
<1> QED BY <1>4, <1>5, <1>6, <1>7, <1>8, <1>9, <1>10, <1>11, <1>12, NobodyActs DEF Next

\* At first there are no rows to restart from.
LEMMA RowsInit == Init => RowsAreBacked /\ LimitIsKept /\ Restartable
<1> SUFFICES ASSUME Init PROVE RowsAreBacked /\ LimitIsKept /\ Restartable
  OBVIOUS
<1>1. Restartable
  BY DEF Init, Restartable, ClosedIsCompleted, RowsAreTrue, Idle, Underway
<1>2. RowsAreBacked
  BY DEF Init, RowsAreBacked, PromotesBacklog, NoPoll
<1>3. activeRuns = {} /\ Resumable = {}
  BY DEF Init, Resumable
<1>4. LimitIsKept
  BY <1>3, FS_EmptySet, DaemonAssumption DEF LimitIsKept, DaemonAssumption
<1> QED BY <1>1, <1>2, <1>4

\* The two invariants about rows hold together.
LEMMA RowsInvariant ==
  ASSUME Controls \subseteq {"pause", "resume"}, Answers = {}, Edits = {}, ~Outages
  PROVE  Spec => [](TypeOK /\ Lone /\ RowsAreBacked /\ LimitIsKept)
<1> DEFINE Inv == TypeOK /\ Lone /\ RowsAreBacked /\ LimitIsKept
<1>1. Init => Inv
  BY TypeInit, LoneInit, RowsInit
<1>2. Inv /\ [Next]_vars => Inv'
  BY TypeNext, LoneNext, BackedNext, LimitNext
<1> QED BY <1>1, <1>2, PTL DEF Spec

\* No more tasks are at work than the configuration allows, however polls
\* overlap and however often the daemon dies: what reconcile resumes without
\* counting was within the limit when it was launched. The tracker answers while
\* the daemon starts; when it does not, rows stay behind that nobody counts.
THEOREM LimitIsRespected ==
  ASSUME Controls \subseteq {"pause", "resume"}, Answers = {}, Edits = {}, ~Outages
  PROVE  Spec => []WithinLimit
<1>1. TypeOK /\ Lone /\ LimitIsKept => WithinLimit
  <2> SUFFICES ASSUME TypeOK, Lone, LimitIsKept PROVE WithinLimit
    OBVIOUS
  <2>1. {t \in Tasks : AtWork(t)} \subseteq activeRuns /\ activeRuns \in SUBSET Tasks
    BY DEF AtWork, Lone, AtWorkIsActive, TypeOK
  <2> QED BY <2>1, SubsetsAreWithin DEF WithinLimit, LimitIsKept
<1> QED BY <1>1, RowsInvariant, PTL

\* A run row that says running belongs to an execution once the daemon is up:
\* reconcile resumes every such row, and every way out of runTask rewrites it.
THEOREM RunningRowsExecute ==
  ASSUME Controls \subseteq {"pause", "resume"}, Answers = {}, Edits = {}, ~Outages
  PROVE  Spec => []RunningRowsAreExecuting
<1>1. RowsAreBacked => RunningRowsAreExecuting
  BY DEF RowsAreBacked, BackedRow, LeftBehind, Underway, RunningRowsAreExecuting, Busy
<1> QED BY <1>1, RowsInvariant, PTL

\* A run that waits at its workflow gate is not started again, by a poll or by a
\* restart: in the process that asked the task is paused, and the next one
\* pauses it before it polls (recoverPaused).
THEOREM GatedRunsWait ==
  ASSUME Controls \subseteq {"pause"}, Answers = {}, Edits = {}, ~Outages
  PROVE  Spec => GatedIsNotRestarted
<1> DEFINE Inv == TypeOK /\ Lone /\ Restartable
           Waits == \A t \in Tasks : Starts(t) /\ gate[t] = "open" => runState[t] # "waiting"
<1>1. Inv /\ [Next]_vars => [Waits]_vars
  <2> SUFFICES ASSUME Inv, Next, NEW t \in Tasks, Starts(t), runState[t] = "waiting" PROVE FALSE
    BY DEF Waits
  <2>0. PICK s \in Slots : exec[t][s] = "idle" /\ exec'[t][s] = "launched"
    BY DEF Starts
  <2>1. ~(Crash \/ Shutdown \/ Boot \/ ReconcileWithoutTracker)
    BY <2>0 DEF Crash, Shutdown, Forget, Idle, Boot, ReconcileWithoutTracker
  <2>2. ~Reconcile
    BY <2>0, ReconcileEffect DEF Resumable
  <2>3. ASSUME NEW k \in Polls, Tick(k) PROVE FALSE
    <3>1. PICK S \in SUBSET Tasks : TickLaunch(k, S)
      BY <2>0, <2>3 DEF Tick, TickRead, TickPlan, TickPromote, TickPromoteFails
    <3>2. t \in S \ activeRuns /\ t \notin manuallyPaused /\ phase = "up" /\ \A r \in Slots : exec[t][r] = "idle"
      BY <2>0, <3>1, LaunchEffect
    <3> QED BY <3>2 DEF Restartable, RowsAreTrue, RowIsTrue
  <2>4. ASSUME NEW u \in Tasks, NEW r \in Slots, RunTask(u, r) PROVE FALSE
    <3>1. u = t /\ r = s
      BY <2>0, <2>4, RunTaskEffect
    <3> QED BY <2>0, <2>4, <3>1, RunTaskEffect
  <2>5. ASSUME NEW u \in Tasks, Operate(u) \/ EditTracker(u) \/ HumanMerges(u) PROVE FALSE
    BY <2>0, <2>5 DEF Operate, PauseTask, ResumeTask, StopTask, RestartTask, EditTracker, HumanMerges
  <2> QED BY <2>1, <2>2, <2>3, <2>4, <2>5, NobodyActs DEF Next
<1>2. Init => Inv
  BY TypeInit, LoneInit, RowsInit
<1>3. Inv /\ [Next]_vars => Inv'
  BY TypeNext, LoneNext, RowsNext
<1> QED BY <1>1, <1>2, <1>3, PTL DEF Spec, GatedIsNotRestarted

(***************************************************************************)
(* The daemon implements TaskBoard                                         *)
(***************************************************************************)

\* What an execution needs to leave its task with is there before it leaves.
Accounted ==
  \A t \in Tasks : \A s \in Slots :
    /\ exec[t][s] = "reporting" => "open" \in incident[t]
    /\ exec[t][s] \in {"gating", "gated"} => gate[t] = "open"
    /\ exec[t][s] = "closed" => t \in done

\* Nobody takes a question back but the task's own next execution, and what was
\* completed once has been completed.
LEMMA AccountedNext ==
  ASSUME Controls \subseteq {"pause", "resume"}, Answers = {}, TypeOK, SeenIsDone, Lone, Accounted,
         [Next]_vars
  PROVE  Accounted'
<1> USE DEF TypeOK, Accounted, durable, supervisor
<1>0. done \subseteq done'
  BY SeenNext
<1>1. CASE Crash \/ Shutdown
  BY <1>1 DEF Crash, Shutdown, Forget, Idle
<1>2. CASE Boot \/ ReconcileWithoutTracker
  BY <1>2 DEF Boot, ReconcileWithoutTracker
<1>3. CASE Reconcile
  <2>1. \A t \in Tasks : \A s \in Slots : exec'[t][s] \in {"idle", "launched"}
    BY <1>3, ReconcileEffect
  <2> QED BY <2>1
<1>4. ASSUME NEW k \in Polls, Tick(k) PROVE Accounted'
  <2>1. ASSUME NEW S \in SUBSET Tasks, TickLaunch(k, S) PROVE Accounted'
    <3>1. /\ UNCHANGED <<incident, gate, done>>
          /\ \A t \in Tasks \ (S \ activeRuns) : exec'[t] = exec[t]
          /\ \A t \in S \ activeRuns : \A s \in Slots : exec'[t][s] \in {"idle", "launched"}
      BY <2>1, LaunchEffect
    <3>2. \A t \in Tasks : \A s \in Slots :
            exec'[t][s] = exec[t][s] \/ exec'[t][s] \in {"idle", "launched"}
      BY <3>1
    <3>3. ASSUME NEW t \in Tasks, NEW s \in Slots
          PROVE  /\ exec'[t][s] = "reporting" => "open" \in incident'[t]
                 /\ exec'[t][s] \in {"gating", "gated"} => gate'[t] = "open"
                 /\ exec'[t][s] = "closed" => t \in done'
      <4>1. incident'[t] = incident[t] /\ gate'[t] = gate[t] /\ done' = done
        BY <3>1
      <4>2. CASE exec'[t][s] = exec[t][s]
        BY <4>1, <4>2
      <4>3. CASE exec'[t][s] \in {"idle", "launched"}
        BY <4>3
      <4> QED BY <3>2, <4>2, <4>3
    <3> QED BY <3>3
  <2>2. CASE ~ \E S \in SUBSET Tasks : TickLaunch(k, S)
    BY <1>4, <2>2 DEF Tick, TickRead, TickPlan, TickPromote, TickPromoteFails
  <2> QED BY <2>1, <2>2
<1>5. ASSUME NEW t \in Tasks, NEW s \in Slots, RunTask(t, s) PROVE Accounted'
  <2>1. /\ \A u \in Tasks \ {t} : exec'[u] = exec[u] /\ incident'[u] = incident[u] /\ gate'[u] = gate[u]
        /\ \A r \in Slots \ {s} : exec'[t][r] = "idle"
    BY <1>5, RunTaskEffect
  <2> SUFFICES /\ exec'[t][s] = "reporting" => "open" \in incident'[t]
               /\ exec'[t][s] \in {"gating", "gated"} => gate'[t] = "open"
               /\ exec'[t][s] = "closed" => t \in done'
    <3>1. \A u \in Tasks \ {t} : \A r \in Slots :
            /\ exec'[u][r] = "reporting" => "open" \in incident'[u]
            /\ exec'[u][r] \in {"gating", "gated"} => gate'[u] = "open"
            /\ exec'[u][r] = "closed" => u \in done'
      BY <1>0, <2>1
    <3>2. \A r \in Slots \ {s} : exec'[t][r] \notin {"reporting", "gating", "gated", "closed"}
      BY <2>1
    <3> QED BY <3>1, <3>2
  <2>2. CASE CreateIncident(t, s)
    BY <2>2, StageAfter DEF CreateIncident
  <2>3. CASE RequestGate(t, s) \/ RecordWaiting(t, s)
    BY <2>3, StageAfter DEF RequestGate, RecordWaiting
  <2>4. CASE CloseTracker(t, s)
    BY <2>4, StageAfter DEF CloseTracker
  <2>5. CASE AgentCall(t, s) \/ OpenPr(t, s) \/ MergePr(t, s)
    BY <2>5 DEF AgentCall, OpenPr, MergePr
  <2>6. CASE exec'[t][s] \in Stages \ {"reporting", "gating", "gated", "closed"}
    BY <2>6
  <2> QED BY <1>5, <2>2, <2>3, <2>4, <2>5, <2>6, StageAfter DEF RunTask, Stages
<1>6. ASSUME NEW t \in Tasks, Operate(t) PROVE Accounted'
  BY <1>6, NobodyActs DEF Operate, PauseTask, ResumeTask
<1>7. ASSUME NEW t \in Tasks, EditTracker(t) \/ HumanMerges(t) PROVE Accounted'
  BY <1>0, <1>7 DEF EditTracker, HumanMerges
<1>8. CASE UNCHANGED vars
  BY <1>8 DEF vars
<1> QED BY <1>1, <1>2, <1>3, <1>4, <1>5, <1>6, <1>7, <1>8, NobodyActs DEF Next

\* The tasks of the board.
Working == {t \in Tasks : AtWork(t)}
AskedTasks == {t \in Tasks : Asked(t)}
Proposed == {t \in Tasks : pr[t] # "none"}

\* The cardinality that the board takes from FiniteSets is the one taken here.
LEMMA SameSizes == \A S : Board!Cardinality(S) = Cardinality(S)
BY DEF Cardinality, Board!Cardinality

\* A begin that stays within the set of the supervisor stays within the limit.
LEMMA BoardBegins ==
  ASSUME TypeOK', Lone', LimitIsKept', NEW S \in SUBSET Tasks, Working' = Working \cup S,
         S \cap Working = {}, \A t \in S : Blockers(t) \subseteq done,
         phase' = "up", UNCHANGED <<incident, gate, pr, done>>
  PROVE  Board!Begin(S)
<1>1. activeRuns' \in SUBSET Tasks /\ Working' \subseteq activeRuns' /\ Cardinality(activeRuns') <= MaxParallel
  BY DEF TypeOK, Lone, AtWorkIsActive, LimitIsKept, Working, AtWork
<1>2. Cardinality(Working') <= MaxParallel
  BY <1>1, SubsetsAreWithin
<1>3. AskedTasks' = AskedTasks /\ Proposed' = Proposed
  BY DEF AskedTasks, Asked, Proposed
<1>4. S \cap Working = {} /\ Working' = Working \cup S /\ Cardinality(Working \cup S) <= MaxParallel
  BY <1>2
<1>5. \A t \in S : Board!Blockers(t) \subseteq done
  BY DEF Board!Blockers, Blockers
<1> QED BY <1>3, <1>4, <1>5, SameSizes DEF Board!Begin, Working, AskedTasks, Proposed

\* Each step of an execution is one of the board's, or shows nothing there.
LEMMA BoardRuns ==
  ASSUME TypeOK, Lone, Accounted, NEW t \in Tasks, NEW s \in Slots, RunTask(t, s)
  PROVE  [Board!Next]_Board!vars
<1> USE DEF TypeOK, durable, supervisor
<1> DEFINE Moves == Board!Ask(t) \/ Board!TakeBack(t) \/ Board!Propose(t) \/ Board!Complete(t)
                    \/ Board!Leave(t) \/ UNCHANGED <<Working, done, AskedTasks, Proposed, phase>>
<1>0. phase' = phase
  BY DEF RunTask, Supersede, RecordRunning, AgentCall, RequestGate, RecordWaiting, WorkflowSucceeds,
         WorkflowFails, CreateIncident, FailAndPause, OpenPr, AwaitApproval, MergePr, CloseTracker,
         LifecycleFails, CompleteTask, ClearJournal
<1>1. SUFFICES Moves
  BY DEF Board!Next, Board!vars, Working, AskedTasks, Proposed
<1> USE DEF Board!Ask, Board!TakeBack, Board!Propose, Board!Complete, Board!Leave
<1>2. /\ \A r \in Slots \ {s} : exec[t][r] = "idle" /\ exec'[t][r] = "idle"
      /\ \A u \in Tasks \ {t} : /\ exec'[u] = exec[u] /\ incident'[u] = incident[u]
                                /\ gate'[u] = gate[u] /\ pr'[u] = pr[u]
  BY RunTaskEffect
<1>3. /\ \A u \in Tasks \ {t} : u \in Working' <=> u \in Working
      /\ t \in Working <=> exec[t][s] \notin {"idle", "clearing"}
      /\ t \in Working' <=> exec'[t][s] \notin {"idle", "clearing"}
  BY <1>2 DEF Working, AtWork
<1>4. \A u \in Tasks \ {t} : /\ u \in AskedTasks' <=> u \in AskedTasks
                             /\ u \in Proposed' <=> u \in Proposed
  BY <1>2 DEF AskedTasks, Asked, Proposed
<1>5. /\ UNCHANGED <<incident, gate>> => AskedTasks' = AskedTasks
      /\ UNCHANGED pr => Proposed' = Proposed
  BY DEF AskedTasks, Asked, Proposed
<1>6. /\ Working \in SUBSET Tasks /\ AskedTasks \in SUBSET Tasks /\ Proposed \in SUBSET Tasks
      /\ Working' \in SUBSET Tasks /\ AskedTasks' \in SUBSET Tasks /\ Proposed' \in SUBSET Tasks
  BY DEF Working, AskedTasks, Proposed
<1>a. ASSUME exec[t][s] \notin {"idle", "clearing"}, exec'[t][s] \notin {"idle", "clearing"}
      PROVE  Working' = Working /\ t \in Working
  <2>1. \A u \in Tasks : u \in Working' <=> u \in Working
    BY <1>3, <1>a
  <2> QED BY <1>3, <1>6, <1>a, <2>1
<1>b. ASSUME exec[t][s] \notin {"idle", "clearing"}, exec'[t][s] \in {"idle", "clearing"}
      PROVE  Working' = Working \ {t} /\ t \in Working
  <2>1. \A u \in Tasks : u \in Working' <=> u \in Working /\ u # t
    BY <1>3, <1>b
  <2> QED BY <1>3, <1>6, <1>b, <2>1
<1>c. ASSUME exec[t][s] \in {"idle", "clearing"}, exec'[t][s] \in {"idle", "clearing"}
      PROVE  Working' = Working
  <2>1. \A u \in Tasks : u \in Working' <=> u \in Working
    BY <1>3, <1>c
  <2> QED BY <1>6, <2>1
<1>d. ASSUME t \in Proposed, t \in Proposed' PROVE Proposed' = Proposed
  <2>1. \A u \in Tasks : u \in Proposed' <=> u \in Proposed
    BY <1>4, <1>d
  <2> QED BY <1>6, <2>1
<1>7. CASE Supersede(t, s)
  <2>1. Working' = Working /\ t \in Working
    BY <1>a, <1>7, StageAfter DEF Supersede
  <2>2. AskedTasks' = AskedTasks \/ AskedTasks' = AskedTasks \ {t}
    BY <1>4, <1>6, <1>7 DEF Supersede, AskedTasks, Asked
  <2>3. done' = done /\ Proposed' = Proposed
    BY <1>5, <1>7 DEF Supersede
  <2> QED BY <1>0, <2>1, <2>2, <2>3 DEF Working, AskedTasks, Proposed
<1>8. CASE RequestGate(t, s) \/ CreateIncident(t, s)
  <2>1. Working' = Working /\ t \in Working
    BY <1>a, <1>8, StageAfter DEF RequestGate, CreateIncident
  <2>2. t \in AskedTasks'
    BY <1>8 DEF RequestGate, CreateIncident, AskedTasks, Asked
  <2>3. AskedTasks' = AskedTasks \cup {t}
    BY <1>4, <1>6, <2>2
  <2>4. done' = done /\ Proposed' = Proposed
    BY <1>5, <1>8 DEF RequestGate, CreateIncident
  <2> QED BY <1>0, <2>1, <2>3, <2>4 DEF Working, AskedTasks, Proposed
<1>9. CASE OpenPr(t, s)
  <2>1. Working' = Working /\ t \in Working
    BY <1>a, <1>9, StageAfter DEF OpenPr
  <2>2. t \in Proposed'
    BY <1>9 DEF OpenPr, Proposed
  <2>3. Proposed' = Proposed \cup {t}
    BY <1>4, <1>6, <2>2
  <2>4. done' = done /\ AskedTasks' = AskedTasks
    BY <1>5, <1>9 DEF OpenPr
  <2> QED BY <1>0, <2>1, <2>3, <2>4 DEF Working, AskedTasks, Proposed
<1>10. CASE CloseTracker(t, s)
  <2>1. Working' = Working /\ t \in Working
    BY <1>a, <1>10, StageAfter DEF CloseTracker
  <2>2. done' = done \cup {t} /\ AskedTasks' = AskedTasks /\ Proposed' = Proposed
    BY <1>5, <1>10 DEF CloseTracker
  <2> QED BY <1>0, <2>1, <2>2 DEF Working, AskedTasks, Proposed
<1>11. CASE FailAndPause(t, s) \/ AwaitApproval(t, s) \/ CompleteTask(t, s)
  <2>1. Working' = Working \ {t} /\ t \in Working
    BY <1>b, <1>11, StageAfter DEF FailAndPause, AwaitApproval, CompleteTask
  <2>2. done' = done /\ AskedTasks' = AskedTasks /\ Proposed' = Proposed
    BY <1>5, <1>11 DEF FailAndPause, AwaitApproval, CompleteTask
  <2>3. t \in done \cup AskedTasks \cup Proposed
    BY <1>11 DEF FailAndPause, AwaitApproval, CompleteTask, Accounted, AskedTasks, Asked, Proposed
  <2> QED BY <1>0, <2>1, <2>2, <2>3 DEF Working, AskedTasks, Proposed
<1>12. CASE MergePr(t, s)
  <2>1. Working' = Working
    BY <1>a, <1>12, StageAfter DEF MergePr
  <2>2. t \in Proposed /\ t \in Proposed'
    BY <1>12 DEF MergePr, Proposed
  <2>3. Proposed' = Proposed
    BY <1>d, <2>2
  <2> QED BY <1>0, <1>5, <1>12, <2>1, <2>3 DEF MergePr
<1>13. CASE RecordRunning(t, s) \/ AgentCall(t, s) \/ RecordWaiting(t, s) \/ WorkflowSucceeds(t, s)
            \/ WorkflowFails(t, s) \/ LifecycleFails(t, s) \/ ClearJournal(t, s)
  <2>1. Working' = Working
    BY <1>a, <1>c, <1>13, StageAfter
       DEF RecordRunning, AgentCall, RecordWaiting, WorkflowSucceeds, WorkflowFails, LifecycleFails,
           ClearJournal
  <2>2. UNCHANGED <<done, incident, gate, pr>>
    BY <1>13 DEF RecordRunning, AgentCall, RecordWaiting, WorkflowSucceeds, WorkflowFails,
                 LifecycleFails, ClearJournal
  <2> QED BY <1>0, <1>5, <2>1, <2>2
<1> QED BY <1>7, <1>8, <1>9, <1>10, <1>11, <1>12, <1>13 DEF RunTask

\* What holds throughout, for the step to be one of the board's.
BoardInv ==
  /\ TypeOK /\ Lone /\ RowsAreBacked /\ LimitIsKept
  /\ SeenIsDone /\ StartedInOrder /\ Accounted

\* A poll or a restart begins tasks whose blockers are done, an execution moves on, and
\* everything else shows nothing on the board.
LEMMA BoardStep ==
  ASSUME Controls \subseteq {"pause", "resume"}, Answers = {}, Edits = {}, ~Outages,
         BoardInv, BoardInv', [Next]_vars
  PROVE  [Board!Next]_Board!vars
<1> USE DEF durable, supervisor
<1>1. TypeOK /\ Lone /\ Accounted /\ SeenIsDone /\ StartedInOrder /\ TypeOK' /\ Lone' /\ LimitIsKept'
  BY DEF BoardInv
<1>2. ASSUME UNCHANGED <<exec, done, incident, gate, pr>>, (phase' = "up") <=> (phase = "up")
      PROVE [Board!Next]_Board!vars
  BY <1>2 DEF Board!vars, AtWork, Asked
<1>3. CASE Crash \/ Shutdown
  <2>1. \A t \in Tasks : \A s \in Slots : exec'[t][s] = "idle"
    BY <1>3 DEF Crash, Shutdown, Forget, Idle
  <2>2. UNCHANGED <<done, incident, gate, pr>>
    BY <1>3 DEF Crash, Shutdown
  <2>3. CASE phase = "up"
    <3>1. Board!Die
      BY <1>3, <2>1, <2>2, <2>3 DEF Board!Die, Crash, Shutdown, Forget, AtWork, Asked
    <3> QED BY <3>1 DEF Board!Next
  <2>4. CASE phase # "up"
    <3>1. phase' # "up"
      BY <1>3 DEF Crash, Shutdown, Forget
    <3>2. \A t \in Tasks : ~AtWork(t) /\ ~AtWork(t)'
      BY <1>1, <2>1, <2>4 DEF Lone, NothingBeforeUp, AtWork
    <3> QED BY <2>2, <2>4, <3>1, <3>2 DEF Board!vars, Asked
  <2> QED BY <2>3, <2>4
<1>4. CASE Reconcile
  <2>1. \A t \in Tasks : ~AtWork(t)
    BY <1>1, <1>4 DEF Reconcile, Lone, NothingBeforeUp, AtWork
  <2>2. \A t \in Tasks : AtWork(t)' <=> t \in Resumable
    BY <1>1, <1>4, ReconcileEffect DEF AtWork
  <2>3. Working = {} /\ Working' = Resumable
    BY <2>1, <2>2, ResumableTasks DEF Working
  <2>4. \A t \in Resumable : Blockers(t) \subseteq done
    BY <1>1 DEF StartedInOrder, Resumable
  <2>5. phase' = "up" /\ UNCHANGED <<incident, gate, pr, done>>
    BY <1>4 DEF Reconcile
  <2>6. Board!Begin(Resumable)
    <3>1. Working' = Working \cup Resumable /\ Resumable \cap Working = {}
      BY <2>3
    <3> QED BY <1>1, <2>4, <2>5, <3>1, ResumableTasks, BoardBegins
  <2> QED BY <2>6, ResumableTasks DEF Board!Next
<1>5. ASSUME NEW k \in Polls, NEW S \in SUBSET Tasks, TickLaunch(k, S)
      PROVE  [Board!Next]_Board!vars
  <2> DEFINE N == S \ activeRuns
  <2>0. phase' = "up"
    BY <1>1, <1>5 DEF TickLaunch, Lone, NothingBeforeUp
  <2>1. /\ UNCHANGED <<incident, gate, pr, done>>
        /\ \A t \in Tasks \ N : exec'[t] = exec[t]
        /\ \A t \in N : /\ \A s \in Slots : exec[t][s] = "idle"
                        /\ \E s \in Slots : exec'[t][s] = "launched"
    BY <1>1, <1>5, LaunchEffect
  <2>2. \A t \in N : Blockers(t) \subseteq done
    BY <1>1, <1>5 DEF TickLaunch, Candidates, Unblocked, SeenIsDone, Blockers
  <2>3. N \in SUBSET Tasks
    OBVIOUS
  <2> HIDE DEF N
  <2>4. /\ \A t \in Tasks \ N : AtWork(t)' <=> AtWork(t)
        /\ \A t \in N : AtWork(t)' /\ ~AtWork(t)
    BY <2>1, <2>3 DEF AtWork
  <2>5. Working' = Working \cup N /\ N \cap Working = {}
    BY <2>3, <2>4 DEF Working
  <2>6. Board!Begin(N)
    BY <1>1, <2>0, <2>1, <2>2, <2>3, <2>5, BoardBegins
  <2> QED BY <2>3, <2>6 DEF Board!Next
<1>6. ASSUME NEW k \in Polls, Tick(k), ~ \E S \in SUBSET Tasks : TickLaunch(k, S)
      PROVE  [Board!Next]_Board!vars
  BY <1>2, <1>6 DEF Tick, TickRead, TickPlan, TickPromote, TickPromoteFails
<1>7. ASSUME NEW t \in Tasks, NEW s \in Slots, RunTask(t, s) PROVE [Board!Next]_Board!vars
  BY <1>1, <1>7, BoardRuns
<1>8. CASE Boot \/ ReconcileWithoutTracker
  BY <1>2, <1>8 DEF Boot, ReconcileWithoutTracker
<1>9. ASSUME NEW t \in Tasks, Operate(t) PROVE [Board!Next]_Board!vars
  BY <1>1, <1>2, <1>9, NobodyActs DEF Operate, PauseTask, ResumeTask
<1>10. ASSUME NEW t \in Tasks, HumanMerges(t) PROVE [Board!Next]_Board!vars
  <2>1. /\ UNCHANGED <<exec, done, incident, gate>>
        /\ phase' = phase
        /\ \A u \in Tasks : pr'[u] # "none" <=> pr[u] # "none"
    BY <1>1, <1>10 DEF HumanMerges, TypeOK
  <2> QED BY <2>1 DEF Board!vars, AtWork, Asked
<1>11. ASSUME NEW t \in Tasks PROVE ~EditTracker(t)
  BY DEF EditTracker
<1>12. CASE UNCHANGED vars
  BY <1>2, <1>12 DEF vars
<1> QED BY <1>1, <1>3, <1>4, <1>5, <1>6, <1>7, <1>8, <1>9, <1>10, <1>11, <1>12, NobodyActs DEF Next

\* The daemon implements TaskBoard step by step, for any tasks, graph, limit and polls,
\* wherever it dies. What is asked of people is what the promise needs: a stop, a
\* restart or an answer puts a task out of the supervisor's sets while its execution
\* goes on, and rows that edits or outages leave behind are resumed beyond the limit.
THEOREM DaemonImplementsBoard ==
  ASSUME Controls \subseteq {"pause", "resume"}, Answers = {}, Edits = {}, ~Outages
  PROVE  Spec => KeepsTheBoard
<1>1. Init => BoardInv /\ Board!Init
  <2> SUFFICES ASSUME Init PROVE BoardInv /\ Board!Init
    OBVIOUS
  <2>1. TypeOK /\ Lone /\ RowsAreBacked /\ LimitIsKept
    BY TypeInit, LoneInit, RowsInit
  <2>2. SeenIsDone /\ StartedInOrder /\ Accounted
    BY DEF Init, SeenIsDone, NoPoll, StartedInOrder, Busy, Idle, Accounted
  <2>3. Board!Init
    BY DEF Init, Board!Init, AtWork, Asked, Idle
  <2> QED BY <2>1, <2>2, <2>3 DEF BoardInv
<1>2. BoardInv /\ [Next]_vars => BoardInv'
  <2> SUFFICES ASSUME BoardInv, [Next]_vars PROVE BoardInv'
    OBVIOUS
  <2>1. TypeOK' /\ Lone' /\ RowsAreBacked' /\ LimitIsKept'
    BY TypeNext, LoneNext, BackedNext, LimitNext DEF BoardInv
  <2>2. SeenIsDone' /\ StartedInOrder' /\ Accounted'
    BY SeenNext, OrderNext, AccountedNext DEF BoardInv
  <2> QED BY <2>1, <2>2 DEF BoardInv
<1>3. BoardInv /\ BoardInv' /\ [Next]_vars => [Board!Next]_Board!vars
  BY BoardStep
<1> QED BY <1>1, <1>2, <1>3, PTL DEF Spec, KeepsTheBoard, Board!Spec

(***************************************************************************)
(* The gates are decisions                                                 *)
(***************************************************************************)

\* Is the task at work behind its gate?
Behind(t) == \E s \in Slots : exec[t][s] = "lifecycle"

\* What a launch adds is at its beginning.
LEMMA LaunchesAreInFront ==
  ASSUME TypeOK, NEW S \in SUBSET Tasks, HasRoom(S), exec' = LaunchAll(S), NEW t \in Tasks
  PROVE  Behind(t)' <=> Behind(t)
<1>1. CASE t \in S
  <2>1. PICK s \in Slots : /\ exec[t][s] = "idle" /\ exec'[t][s] = "launched"
                           /\ \A r \in Slots \ {s} : exec'[t][r] = exec[t][r]
    BY <1>1, LaunchAllEffect DEF TypeOK
  <2> QED BY <2>1 DEF Behind
<1>2. CASE t \notin S
  <2>1. exec'[t] = exec[t]
    BY <1>2, LaunchAllEffect DEF TypeOK
  <2> QED BY <2>1 DEF Behind
<1> QED BY <1>1, <1>2

\* An execution comes behind the gate of its task by its approval alone.
LEMMA RunsPassGates ==
  ASSUME TypeOK, NEW u \in Tasks, NEW s \in Slots, RunTask(u, s), NEW t \in GatedTasks
  PROVE  Gate(t)!Next \/ UNCHANGED Gate(t)!vars
<1> USE DaemonAssumption DEF TypeOK, durable, supervisor
<1>1. ASSUME gate'[t] = gate[t], Behind(t)' => Behind(t) \/ gate[t] = "approved"
      PROVE  Gate(t)!Next \/ UNCHANGED Gate(t)!vars
  BY <1>1 DEF Gate!Next, Gate!vars, Gate!Pass, Gate!Leave, Behind
<1>2. ASSUME NEW stage \in Stages \ {"lifecycle"}, Enter(u, s, stage)
      PROVE  Behind(t)' => Behind(t)
  <2>1. /\ exec'[u][s] = stage
        /\ \A r \in Slots \ {s} : exec'[u][r] = exec[u][r]
        /\ \A v \in Tasks \ {u} : exec'[v] = exec[v]
    BY <1>2, EnterEffect
  <2> QED BY <2>1 DEF Behind
<1>3. CASE RequestGate(u, s)
  <2>1. Behind(t)' <=> Behind(t)
    <3>1. /\ exec[u][s] = "workflow" /\ exec'[u][s] = "gating"
          /\ \A r \in Slots \ {s} : exec'[u][r] = exec[u][r]
          /\ \A v \in Tasks \ {u} : exec'[v] = exec[v]
      BY <1>3, EnterEffect DEF RequestGate, Stages
    <3> QED BY <3>1 DEF Behind
  <2>2. gate'[t] = gate[t] \/ (gate[t] = "none" /\ gate'[t] = "open")
    BY <1>3 DEF RequestGate
  <2> QED BY <2>1, <2>2 DEF Gate!Next, Gate!vars, Gate!Ask, Behind
<1>4. CASE WorkflowSucceeds(u, s)
  <2>1. gate' = gate /\ (u = t => gate[t] = "approved")
    BY <1>4 DEF WorkflowSucceeds
  <2>2. u # t => exec'[t] = exec[t]
    BY <1>4, EnterEffect DEF WorkflowSucceeds, Stages
  <2> QED BY <1>1, <2>1, <2>2 DEF Behind
<1>5. CASE AgentCall(u, s) \/ OpenPr(u, s) \/ MergePr(u, s)
  BY <1>1, <1>5 DEF AgentCall, OpenPr, MergePr, Behind
<1>6. CASE \/ Supersede(u, s) \/ RecordRunning(u, s) \/ RecordWaiting(u, s) \/ WorkflowFails(u, s)
           \/ CreateIncident(u, s) \/ FailAndPause(u, s) \/ AwaitApproval(u, s)
           \/ CloseTracker(u, s) \/ LifecycleFails(u, s) \/ CompleteTask(u, s) \/ ClearJournal(u, s)
  <2>1. gate' = gate
    BY <1>6 DEF Supersede, RecordRunning, RecordWaiting, WorkflowFails, CreateIncident,
       FailAndPause, AwaitApproval, CloseTracker, LifecycleFails, CompleteTask, ClearJournal
  <2>2. \E stage \in Stages \ {"lifecycle"} : Enter(u, s, stage)
    BY <1>6 DEF Stages, Supersede, RecordRunning, RecordWaiting, WorkflowFails, CreateIncident,
       FailAndPause, AwaitApproval, CloseTracker, LifecycleFails, CompleteTask, ClearJournal
  <2> QED BY <1>1, <1>2, <2>1, <2>2
<1> QED BY <1>3, <1>4, <1>5, <1>6 DEF RunTask

\* Answers decide what is open, and nobody else writes to a gate.
LEMMA GateSteps ==
  ASSUME TypeOK, [Next]_vars, NEW t \in GatedTasks
  PROVE  Gate(t)!Next \/ UNCHANGED Gate(t)!vars
<1> USE DaemonAssumption DEF durable, supervisor
<1>1. ASSUME gate' = gate, Behind(t)' => Behind(t)
      PROVE  Gate(t)!Next \/ UNCHANGED Gate(t)!vars
  BY <1>1 DEF Gate!Next, Gate!vars, Gate!Leave, Behind
<1>2. ASSUME UNCHANGED <<gate, exec>> PROVE Gate(t)!Next \/ UNCHANGED Gate(t)!vars
  BY <1>1, <1>2 DEF Behind
<1>3. CASE Crash \/ Shutdown
  <2>1. gate' = gate /\ ~Behind(t)'
    BY <1>3 DEF Crash, Shutdown, Forget, Idle, Behind
  <2> QED BY <1>1, <2>1
<1>4. CASE Boot \/ ReconcileWithoutTracker
  BY <1>2, <1>4 DEF Boot, ReconcileWithoutTracker
<1>5. CASE Reconcile
  <2>1. Behind(t)' <=> Behind(t)
    BY <1>5, LaunchesAreInFront DEF Reconcile, Resumable
  <2> QED BY <1>1, <1>5, <2>1 DEF Reconcile
<1>6. ASSUME NEW k \in Polls, Tick(k) PROVE Gate(t)!Next \/ UNCHANGED Gate(t)!vars
  <2>1. ASSUME NEW S \in SUBSET Tasks, TickLaunch(k, S)
        PROVE  Gate(t)!Next \/ UNCHANGED Gate(t)!vars
    <3>1. S \ activeRuns \in SUBSET Tasks /\ HasRoom(S \ activeRuns) /\ exec' = LaunchAll(S \ activeRuns)
      BY <2>1 DEF TickLaunch
    <3>2. Behind(t)' <=> Behind(t)
      BY <3>1, LaunchesAreInFront
    <3> QED BY <1>1, <2>1, <3>2 DEF TickLaunch
  <2>2. CASE ~ \E S \in SUBSET Tasks : TickLaunch(k, S)
    BY <1>2, <1>6, <2>2 DEF Tick, TickRead, TickPlan, TickPromote, TickPromoteFails
  <2> QED BY <2>1, <2>2
<1>7. ASSUME NEW u \in Tasks, NEW s \in Slots, RunTask(u, s)
      PROVE  Gate(t)!Next \/ UNCHANGED Gate(t)!vars
  BY <1>7, RunsPassGates
<1>8. ASSUME NEW u \in Tasks, Operate(u) PROVE Gate(t)!Next \/ UNCHANGED Gate(t)!vars
  BY <1>2, <1>8 DEF Operate, PauseTask, ResumeTask, StopTask, RestartTask
<1>9. ASSUME NEW u \in Tasks, NEW a \in AllAnswers, AnswerIncident(u, a) \/ AnswerGate(u, a)
      PROVE  Gate(t)!Next \/ UNCHANGED Gate(t)!vars
  <2>1. CASE AnswerIncident(u, a)
    BY <1>2, <2>1 DEF AnswerIncident
  <2>2. CASE AnswerGate(u, a)
    <3>1. exec' = exec
      BY <2>2 DEF AnswerGate
    <3>2. gate'[t] = gate[t] \/ (gate[t] = "open" /\ gate'[t] \in {"approved", "rejected"})
      BY <2>2 DEF AnswerGate, TypeOK
    <3> QED BY <3>1, <3>2 DEF Gate!Next, Gate!vars, Gate!Decide
  <2> QED BY <1>9, <2>1, <2>2
<1>10. ASSUME NEW u \in Tasks, Handle(u) PROVE Gate(t)!Next \/ UNCHANGED Gate(t)!vars
  BY <1>2, <1>10 DEF Handle, ApplyRetry, ApplyStop, ApplyNothing, TrackerWrite
<1>11. ASSUME NEW u \in Tasks, NEW w \in Writes, NEW told \in BOOLEAN, TrackerWriteFails(u, w, told)
       PROVE  Gate(t)!Next \/ UNCHANGED Gate(t)!vars
  BY <1>2, <1>11 DEF TrackerWriteFails
<1>12. ASSUME NEW u \in Tasks, EditTracker(u) \/ HumanMerges(u)
       PROVE  Gate(t)!Next \/ UNCHANGED Gate(t)!vars
  BY <1>2, <1>12 DEF EditTracker, HumanMerges
<1>13. CASE UNCHANGED vars
  BY <1>2, <1>13 DEF vars
<1> QED BY <1>3, <1>4, <1>5, <1>6, <1>7, <1>8, <1>9, <1>10, <1>11, <1>12, <1>13 DEF Next, Answer

\* Each gated task's gate is decided once and passed only when it was approved, for any
\* tasks and polls, whatever operators, answers, edits, outages and crashes do: what
\* ApprovalGate does in detail, DaemonLoop does by its effects.
THEOREM GatesAreDecisions == Spec => GatesDecide
<1>1. Init => \A t \in GatedTasks : Gate(t)!Init
  BY DaemonAssumption DEF Init, Idle, Gate!Init
<1>2. TypeOK /\ [Next]_vars => \A t \in GatedTasks : Gate(t)!Next \/ UNCHANGED Gate(t)!vars
  BY GateSteps
<1> QED BY <1>1, <1>2, TypeCorrect, PTL DEF Spec, GatesDecide

=============================================================================
