----------------------------- MODULE ApprovalGate -----------------------------
(***************************************************************************)
(* The high-risk workflow's approval gate, end to end, for one task:       *)
(* createHighRiskWorkflow (workflows/default.ts), the gate the daemon      *)
(* gives it (daemon.ts), the intervention's durable record and its         *)
(* transitions (interventions.ts), and the answers that arrive from MCP    *)
(* and from channels, concurrently or again, and are then applied.         *)
(*                                                                         *)
(* DaemonLoop has the scheduling of many tasks; here there is one, and the *)
(* plan a person approved, the answer and the call that carried it count.  *)
(*                                                                         *)
(* A definition marked "mutant" is a broken variant of the one it precedes. *)
(***************************************************************************)
EXTENDS Naturals, FiniteSets

CONSTANTS
  Plans,        \* plans the architect may come up with
  NoPlan,       \* none yet
  Callers,      \* MCP clients and channel replies that act on the gate
  Actions,      \* what they ask for: Resolutions, or "dismiss"
  Wordless,     \* an MCP call may leave the answer text out
  Reopens,      \* people reopen the finished task
  Crashes       \* the daemon may die and be started again

Resolutions == {"approve", "retry", "free-text", "stop", "switch-harness"}

\* What the constants may be.
ASSUME GateAssumption ==
  /\ NoPlan \notin Plans
  /\ Actions \subseteq Resolutions \cup {"dismiss"}
  /\ Wordless \in BOOLEAN /\ Reopens \in BOOLEAN /\ Crashes \in BOOLEAN

VARIABLES
  \* durable
  journal,      \* the architect's journalled plan
  record,       \* the gate's intervention
  run,          \* the task's row in the runs table
  tracker,      \* the tracker's state of the task
  \* memory of the process
  paused,       \* in RunSupervisor.manuallyPaused
  finished,     \* in RunSupervisor.completedTasks
  pc,           \* the await the task's execution is in
  plan,         \* the architecture its workflow closure holds
  transition,   \* transitionsInFlight: what the leading call is doing
  call,         \* each caller's call
  \* history
  decision      \* the first answer made durable

task == <<journal, run, tracker, paused, finished, pc, plan>>
vars == <<task, record, transition, call, decision>>

Stages == {"idle", "architecture", "gate", "asking", "waiting", "implementation",
           "refused", "lifecycle", "closing"}
CallStages == {"idle", "leading", "joined", "applying", "retrying", "readying", "blocking"}
NoCall == [pc |-> "idle", action |-> "retry", worded |-> TRUE]
NoRecord == [status |-> "none", plan |-> NoPlan, approved |-> FALSE, action |-> "none"]

TypeOK ==
  /\ journal \in Plans \cup {NoPlan} /\ plan \in Plans \cup {NoPlan}
  /\ record \in [status : {"none", "open", "resolved", "dismissed"}, plan : Plans \cup {NoPlan},
                 approved : BOOLEAN, action : Resolutions \cup {"none"}]
  /\ run \in {"none", "running", "waiting", "failed", "completed"}
  /\ tracker \in {"ready", "blocked", "completed"}
  /\ paused \in BOOLEAN /\ finished \in BOOLEAN
  /\ pc \in Stages
  /\ transition \in {"none", "reading", "emitting"}
  /\ call \in [Callers -> [pc : CallStages, action : Resolutions \cup {"dismiss"}, worded : BOOLEAN]]
  /\ decision \in Resolutions \cup {"none", "dismiss"}

Init ==
  /\ journal = NoPlan /\ plan = NoPlan /\ record = NoRecord
  /\ run = "none" /\ tracker = "ready" /\ paused = FALSE /\ finished = FALSE
  /\ pc = "idle" /\ transition = "none" /\ call = [c \in Callers |-> NoCall]
  /\ decision = "none"

(***************************************************************************)
(* The task's execution                                                    *)
(***************************************************************************)

callVars == <<record, transition, call, decision>>

\* A poll launches the task; runWorkflowForTask records the run. One execution
\* at a time: DaemonLoop has the polls, the executions that overlap, and the
\* incident of a failed run.
Start ==
  /\ pc = "idle" /\ tracker = "ready" /\ ~paused /\ ~finished
  /\ pc' = "architecture" /\ run' = "running" /\ plan' = NoPlan
  /\ UNCHANGED <<journal, tracker, paused, finished, callVars>>

\* The architect's call is replayed from the journal, or made and journalled.
Architect ==
  /\ pc = "architecture"
  /\ plan' \in IF journal = NoPlan THEN Plans ELSE {journal}
  /\ journal' = plan'
  /\ pc' = "gate"
  /\ UNCHANGED <<run, tracker, paused, finished, callVars>>

\* interventionService.create under the gate's stable key: one record for the
\* task's lifetime, whatever its status; a new one is notified before it returns.
RequestGate ==
  /\ pc = "gate" /\ record.status \in {"none", "open"}
  /\ record' = IF record.status = "none" THEN [NoRecord EXCEPT !.status = "open", !.plan = plan]
               ELSE record
  /\ pc' = "asking"
  /\ UNCHANGED <<journal, run, tracker, paused, finished, plan, transition, call, decision>>

\* ... and the workflow stops: the run is recorded as waiting,
RecordWaiting ==
  /\ pc = "asking"
  /\ run' = "waiting" /\ pc' = "waiting"
  /\ UNCHANGED <<journal, tracker, paused, finished, plan, callVars>>

\* then the task is paused. A failed run is reported and paused the same way.
Pause ==
  /\ pc \in {"waiting", "refused"}
  /\ paused' = TRUE /\ pc' = "idle"
  /\ run' = IF pc = "refused" THEN "failed" ELSE run
  /\ UNCHANGED <<journal, tracker, finished, plan, callVars>>

\* The gate is decided: approved only when the durable details say so.
Approved == record.status = "resolved" /\ record.approved

PassGate ==
  /\ pc = "gate" /\ record.status \in {"resolved", "dismissed"}
  /\ pc' = IF Approved THEN "implementation" ELSE "refused"
  /\ UNCHANGED <<journal, run, tracker, paused, finished, plan, callVars>>

\* Implementation, reviews and validation; any agent call may fail.
Implement ==
  /\ pc = "implementation"
  /\ \/ pc' = "lifecycle" /\ run' = "completed"
     \/ pc' = "refused" /\ run' = run
  /\ UNCHANGED <<journal, tracker, paused, finished, plan, callVars>>

\* The pull request is merged, the tracker task closed; then the journal goes.
Close ==
  /\ pc = "lifecycle"
  /\ tracker' = "completed" /\ finished' = TRUE /\ pc' = "closing"
  /\ UNCHANGED <<journal, run, paused, plan, callVars>>

ClearJournal ==
  /\ pc = "closing"
  /\ journal' = NoPlan /\ pc' = "idle"
  /\ UNCHANGED <<run, tracker, paused, finished, plan, callVars>>

(***************************************************************************)
(* Answers                                                                 *)
(***************************************************************************)

Move(c, stage) == call' = [call EXCEPT ![c].pc = stage]

\* A call joins the transition in flight for the intervention, whatever that
\* one asks for, or leads a new one.
JoinsWhenSaved == transition = "emitting"                                            \* mutant
Joins == transition # "none"

Ask(c, a, worded) ==
  /\ call[c].pc = "idle" /\ record.status # "none"
  /\ a \in Actions /\ (worded \/ (Wordless /\ a \in {"approve", "retry", "stop"}))
  /\ call' = [call EXCEPT ![c] = [pc |-> IF Joins THEN "joined" ELSE "leading",
                                  action |-> a, worded |-> worded]]
  /\ transition' = IF Joins THEN transition ELSE "reading"
  /\ UNCHANGED <<task, record, decision>>

\* The record is open: it is saved with the answer, or as dismissed, and
\* subscribers are told. "approved" is the line daemon.ts looks for in details.
SettledAlways == FALSE                                                               \* mutant
Settled == record.status \in {"resolved", "dismissed"}

Save(c) ==
  /\ call[c].pc = "leading" /\ transition = "reading" /\ ~Settled
  /\ LET a == call[c].action
     IN /\ record' = IF a = "dismiss" THEN [record EXCEPT !.status = "dismissed"]
                     ELSE [record EXCEPT !.status = "resolved", !.action = a,
                                         !.approved = (a = "approve" /\ call[c].worded)]
        /\ decision' = IF decision = "none" THEN a ELSE decision
  /\ transition' = "emitting"
  /\ UNCHANGED <<task, call>>

\* Everyone waiting on a transition gets its record, then acts on his own action.
Returned(k) ==
  IF k.pc \notin {"leading", "joined"} THEN k
  ELSE [k EXCEPT !.pc = IF k.action = "dismiss" THEN "idle" ELSE "applying"]

Return(c) ==
  /\ call[c].pc = "leading"
  /\ \/ transition = "emitting"
     \/ transition = "reading" /\ Settled /\ (record.status = "resolved" \/ call[c].action = "dismiss")
  /\ transition' = "none"
  /\ call' = [k \in Callers |-> Returned(call[k])]
  /\ UNCHANGED <<task, record, decision>>

\* A dismissed intervention cannot be resolved: the waiting calls throw.
Throw(c) ==
  /\ call[c].pc = "leading" /\ transition = "reading"
  /\ record.status = "dismissed" /\ call[c].action # "dismiss"
  /\ transition' = "none"
  /\ call' = [k \in Callers |-> IF call[k].pc \in {"leading", "joined"} THEN NoCall ELSE call[k]]
  /\ UNCHANGED <<task, record, decision>>

\* applyInterventionResolution: the journal is deleted, the task is retried in
\* the supervisor, then set ready in the tracker.
ApplyRetry(c) ==
  /\ call[c].pc = "applying" /\ call[c].action \in {"approve", "retry", "free-text"}
  /\ journal' = NoPlan
  /\ Move(c, "retrying")
  /\ UNCHANGED <<run, tracker, paused, finished, pc, plan, record, transition, decision>>

Retry(c) ==
  /\ call[c].pc = "retrying"
  /\ paused' = FALSE /\ finished' = FALSE
  /\ Move(c, "readying")
  /\ UNCHANGED <<journal, run, tracker, pc, plan, record, transition, decision>>

SetReady(c) ==
  /\ call[c].pc = "readying"
  /\ tracker' = "ready"
  /\ call' = [call EXCEPT ![c] = NoCall]
  /\ UNCHANGED <<journal, run, paused, finished, pc, plan, record, transition, decision>>

ApplyStop(c) ==
  /\ call[c].pc = "applying" /\ call[c].action = "stop"
  /\ paused' = TRUE /\ finished' = FALSE
  /\ Move(c, "blocking")
  /\ UNCHANGED <<journal, run, tracker, pc, plan, record, transition, decision>>

SetBlocked(c) ==
  /\ call[c].pc = "blocking"
  /\ tracker' = IF tracker = "completed" THEN tracker ELSE "blocked"
  /\ call' = [call EXCEPT ![c] = NoCall]
  /\ UNCHANGED <<journal, run, paused, finished, pc, plan, record, transition, decision>>

ApplyNothing(c) ==
  /\ call[c].pc = "applying" /\ call[c].action = "switch-harness"
  /\ call' = [call EXCEPT ![c] = NoCall]
  /\ UNCHANGED <<task, record, transition, decision>>

(***************************************************************************)
(* Operators, people and crashes                                           *)
(***************************************************************************)

\* A failed run's incident is answered with retry.
RetryFailed ==
  /\ pc = "idle" /\ run = "failed" /\ paused
  /\ journal' = NoPlan /\ paused' = FALSE /\ finished' = FALSE /\ tracker' = "ready"
  /\ UNCHANGED <<run, pc, plan, callVars>>

\* Somebody reopens the finished task and asks for a fresh run (dk_restart_task).
Reopen ==
  /\ Reopens /\ pc = "idle" /\ tracker = "completed"
  /\ tracker' = "ready" /\ finished' = FALSE /\ paused' = FALSE
  /\ UNCHANGED <<journal, run, pc, plan, callVars>>

\* The process dies and is started again: reconcile resumes a running row and
\* pauses a waiting one.
RestartDaemon ==
  /\ Crashes
  /\ pc' = IF run = "running" /\ tracker # "completed" THEN "architecture" ELSE "idle"
  /\ plan' = NoPlan
  /\ paused' = (run = "waiting" /\ tracker # "completed")
  /\ finished' = FALSE
  /\ transition' = "none" /\ call' = [c \in Callers |-> NoCall]
  /\ UNCHANGED <<journal, run, tracker, record, decision>>

Execute ==
  \/ Start \/ Architect \/ RequestGate \/ RecordWaiting \/ Pause \/ PassGate
  \/ Implement \/ Close \/ ClearJournal

Handle(c) ==
  \/ Save(c) \/ Return(c) \/ Throw(c)
  \/ ApplyRetry(c) \/ Retry(c) \/ SetReady(c) \/ ApplyStop(c) \/ SetBlocked(c) \/ ApplyNothing(c)

Next ==
  \/ Execute
  \/ \E c \in Callers : \E a \in Actions, worded \in BOOLEAN : Ask(c, a, worded)
  \/ \E c \in Callers : Handle(c)
  \/ RetryFailed \/ Reopen \/ RestartDaemon

Spec == Init /\ [][Next]_vars

(***************************************************************************)
(* Properties                                                              *)
(***************************************************************************)

\* Nothing is implemented unless the first answer made durable approved it:
\* no later, concurrent or repeated call, no retry, no dismissal and no crash
\* turns another decision into an approval ("fail closed", approval-gate.ts).
OnlyApprovedIsImplemented == pc = "implementation" => decision = "approve"

\* A run that is recorded as waiting has a gate a person can find, and the
\* gate shows the plan: the record is durable before the row says so.
WaitingHasGate == run = "waiting" => record.status # "none" /\ record.plan # NoPlan

\* One call decides and every other waits for it: a transition in flight has
\* exactly one leader, and nobody waits on a transition that is gone.
OneLeader ==
  LET leaders == {c \in Callers : call[c].pc = "leading"}
  IN IF transition = "none"
     THEN \A c \in Callers : call[c].pc \notin {"leading", "joined"}
     ELSE \E c \in Callers : leaders = {c}

\* What the gate is to its task is GateDecision: decided once, by an answer to the
\* question, whatever calls join, come late, repeat it or are cut off, and passed only
\* when what is durable of the decision says approved (interventions.ts, daemon.ts).
Verdict ==
  IF record.status \in {"none", "open"} THEN record.status
  ELSE IF Approved THEN "approved" ELSE "rejected"
Gate == INSTANCE GateDecision
  WITH verdict <- Verdict, behind <- pc \in {"implementation", "lifecycle", "closing"}
GateDecides == Gate!Spec

=============================================================================
