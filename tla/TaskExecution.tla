---------------------------- MODULE TaskExecution ----------------------------
(***************************************************************************)
(* What one task goes through between a poll and its pull request: the     *)
(* workflow is selected for it and built (daemon.ts, selection.ts), its     *)
(* worktree is allocated (git-worktree-manager.ts), the workflow's calls    *)
(* are made or replayed from the journal of the task's run (default.ts),    *)
(* the verifier's environment is set up and torn down                       *)
(* (verification-environment.ts), and what passed is committed and pushed   *)
(* (workflow-executor.ts). The daemon may die anywhere; people answer,      *)
(* retry, resolve conflicts, merge, reopen and edit the task.               *)
(*                                                                         *)
(* WorkflowEngine has how one call is made, retried, cancelled and         *)
(* journalled; ApprovalGate the gate's record; PrLifecycle what follows a   *)
(* push; DaemonLoop the scheduling. A call here is one step of an agent.    *)
(*                                                                         *)
(* A definition marked "mutant" is a broken variant of the one it precedes. *)
(***************************************************************************)
EXTENDS Naturals, Sequences, FiniteSets

CONSTANTS
  Workflows,    \* the configured workflows, in the order they are declared
  Views,        \* what the tracker may say of the task: its labels and profile
  Blocking,     \* the verification profile blocks a task that fails it
  MaxFix,       \* maxFixCycles
  MaxVerify,    \* maxVerificationFixCycles
  EditsOf,      \* bound: what people may edit the task to, from each of them
  MaxTree,      \* bound: contents the worktree may take
  Lives,        \* bound: lives of the daemon
  Requests      \* bound: times people ask for the task: once, and each retry

ASSUME TaskAssumption ==
  /\ Workflows # <<>> /\ Views # {}
  /\ \A i \in DOMAIN Workflows : Workflows[i].builtin \in {"default", "design-frontend", "high-risk"}
  /\ {MaxFix, MaxVerify} \subseteq 0..10
  /\ {MaxTree, Lives, Requests} \subseteq Nat \ {0}
  /\ Blocking \in BOOLEAN /\ EditsOf \in [Views -> SUBSET Views]

VARIABLES
  \* durable
  journal,      \* the answers of the run's finished calls
  tree,         \* the content of the task's branch and worktree, as a version
  pushed,       \* the content of its branch at the remote, 0 before a push
  disk,         \* the worktree's directory
  gate,         \* the high-risk gate's intervention
  row,          \* the run's row
  environment,  \* the verifier's environment, outside the daemon
  \* the tracker, the supervisor and the people
  view,         \* what the tracker says of the task
  status,       \* may the task be launched
  life, epoch,  \* the daemon's life; how many times people asked for the task
  spent,        \* history: a journal was left behind by an epoch that ended
  edited,       \* history: the task was edited since its journal has answers
  \* memory of the daemon
  primary,      \* the workspace manager's entry for the task
  pc,           \* the await the execution is in
  flow, at,     \* the workflow that runs, and the call it has come to
  answers,      \* the verdicts this execution holds
  prepared,     \* preparePromise
  result        \* how the execution ends

durable == <<journal, tree, pushed, disk, gate, row, environment>>
people == <<view, status, life, epoch, spent, edited>>
memory == <<primary, pc, flow, at, answers, prepared, result>>
vars == <<durable, people, memory>>

Judgements == {"security-review", "review", "verification", "validation"}
Writers == {"implementation", "base", "security-fix", "fix", "verification-fix"}
Call(phase, cycle) == [phase |-> phase, cycle |-> cycle]
Calls ==
  [phase : {"design", "architecture", "implementation", "base", "validation"}, cycle : {0}]
    \cup [phase : {"security-review", "security-fix", "review", "fix"}, cycle : 0..MaxFix]
    \cup [phase : {"verification", "verification-fix"}, cycle : 0..MaxVerify]
Gate == Call("gate", 0)
Done == Call("done", 0)

\* An answer, and, as history, the content and the epoch it was given at.
NoAnswer == [passed |-> FALSE, tree |-> 0, epoch |-> 0]
NoAnswers == [j \in Judgements |-> NoAnswer]
Answers == [passed : BOOLEAN, tree : 0..MaxTree, epoch : 0..Requests]

TypeOK ==
  /\ DOMAIN journal \subseteq Calls /\ \A c \in DOMAIN journal : journal[c] \in Answers
  /\ tree \in 0..MaxTree /\ pushed \in 0..MaxTree
  /\ disk \in {"absent", "present", "detached"}
  /\ gate \in {"none", "open", "approved", "rejected"}
  /\ row \in {"none", "running", "waiting", "failed", "completed"}
  /\ environment \in {"down", "up", "broken", "leaked"}
  /\ view \in Views /\ status \in {"ready", "active", "paused", "held", "conflict", "done"}
  /\ life \in 1..Lives /\ epoch \in 1..Requests /\ {spent, edited} \subseteq BOOLEAN
  /\ primary \in {"none", "active", "failed", "released"}
  /\ pc \in {"idle", "allocate", "workflow", "agent", "publish", "ending", "lifecycle", "clean"}
  /\ flow \in {"none", "default", "verified", "design", "high-risk"}
  /\ at \in Calls \cup {Gate, Done}
  /\ answers \in [Judgements -> Answers]
  /\ prepared \in {"no", "ready", "failed"}
  /\ result \in {"none", "success", "failure", "waiting"}

Init ==
  /\ journal = <<>> /\ tree = 0 /\ pushed = 0 /\ disk = "absent" /\ gate = "none"
  /\ row = "none" /\ environment = "down"
  /\ view \in Views /\ status = "ready" /\ life = 1 /\ epoch = 1
  /\ spent = FALSE /\ edited = FALSE
  /\ primary = "none" /\ pc = "idle" /\ flow = "none" /\ at = Done
  /\ answers = NoAnswers /\ prepared = "no" /\ result = "none"

(***************************************************************************)
(* Selection                                                               *)
(***************************************************************************)

\* matchesTaskSelector: every group of a selector must match; a workflow
\* without a selector matches nothing. labelsAny stands for the groups that
\* want one of their values, labelsAll for the one that wants them all.
MatchesTaskSelector(workflow, v) ==
  /\ workflow.selects
  /\ workflow.any = {} \/ workflow.any \cap v.labels # {}
  /\ workflow.all \subseteq v.labels

\* selectWorkflowForTask: the highest priority, the first declared among equals;
\* else the first explicit default, else the first.
SelectWorkflowForTask(v) ==
  LET matches == {i \in DOMAIN Workflows : MatchesTaskSelector(Workflows[i], v)}
      Before(i, j) == \/ Workflows[i].priority > Workflows[j].priority
                      \/ Workflows[i].priority = Workflows[j].priority /\ i <= j
      best == {i \in matches : \A j \in matches : Before(i, j)}
      defaults == {i \in DOMAIN Workflows : Workflows[i].default}
      first == {i \in defaults : \A j \in defaults : i <= j}
  IN Workflows[CHOOSE i \in IF best # {} THEN best ELSE IF first # {} THEN first ELSE {1} : TRUE]

\* Which of the built-in workflows runs: a requested profile turns the default
\* one into the one with verification.
FlowFor(v) ==
  LET builtin == SelectWorkflowForTask(v).builtin
  IN CASE builtin = "design-frontend" -> "design"
       [] builtin = "high-risk" -> "high-risk"
       [] OTHER -> IF v.profile THEN "verified" ELSE "default"

(***************************************************************************)
(* The workflows: the call that follows a call and its answer              *)
(***************************************************************************)

DefaultWorkflow == <<"implementation", "review", "validation">>
WorkflowWithVerification == <<"base", "review", "verification", "validation">>
DesignFrontendWorkflow == <<"design", "implementation", "review", "verification", "validation">>
HighRiskWorkflow ==
  <<"architecture", "gate", "implementation", "security-review", "review", "verification",
    "validation">>

Stages(f) == CASE f = "default" -> DefaultWorkflow
               [] f = "verified" -> WorkflowWithVerification
               [] f = "design" -> DesignFrontendWorkflow
               [] f = "high-risk" -> HighRiskWorkflow
Entry(f) == Call(Head(Stages(f)), 0)

\* Without verification of its own, a workflow asks for it if the task has a
\* profile and the reviews passed; the independent review follows a security
\* review that passed.
Skips(f, stage, passed) ==
  \/ stage = "verification" /\ f # "verified" /\ ~(view.profile /\ passed)
  \/ stage = "review" /\ f = "high-risk" /\ ~passed

\* The first call of the stage after this one that is not skipped.
NextStage(f, stage, passed) ==
  LET stages == Stages(f)
      here == CHOOSE i \in DOMAIN stages : stages[i] = stage
      later == {i \in DOMAIN stages : i > here /\ ~Skips(f, stages[i], passed)}
  IN IF later = {} THEN Done ELSE Call(stages[CHOOSE i \in later : \A j \in later : i <= j], 0)

\* runReviewLoop: a failed review is followed by a fix and another review, at
\* most maxFixCycles times.
AfterReview(f, c, passed, fixes) ==
  IF passed \/ c.cycle >= MaxFix THEN NextStage(f, c.phase, passed) ELSE Call(fixes, c.cycle)

\* runVerificationLoop, the same.
AfterVerification(f, c, passed) ==
  IF passed \/ c.cycle >= MaxVerify THEN NextStage(f, c.phase, passed)
  ELSE Call("verification-fix", c.cycle)

Following(f, c, passed) ==
  CASE c.phase = "review" -> AfterReview(f, c, passed, "fix")
    [] c.phase = "security-review" -> AfterReview(f, c, passed, "security-fix")
    [] c.phase = "verification" -> AfterVerification(f, c, passed)
    [] c.phase = "fix" -> Call("review", c.cycle + 1)
    [] c.phase = "security-fix" -> Call("security-review", c.cycle + 1)
    [] c.phase = "verification-fix" -> Call("verification", c.cycle + 1)
    [] OTHER -> NextStage(f, c.phase, passed)

(***************************************************************************)
(* The execution                                                           *)
(***************************************************************************)

\* runWorkflowForTask: the run is recorded, the workflow is selected for the
\* task as the tracker shows it now; a task that asks for a profile or a
\* capability that is not there is refused.
Launch ==
  /\ pc = "idle" /\ status = "ready"
  /\ status' = "active" /\ row' = "running" /\ flow' = FlowFor(view) /\ at' = Entry(flow')
  /\ UNCHANGED <<answers, prepared>>
  /\ \/ pc' = "allocate" /\ result' = "none"
     \/ view.profile /\ pc' = "ending" /\ result' = "failure"
  /\ UNCHANGED <<journal, tree, pushed, disk, gate, environment, view, life, epoch, spent, edited,
                 primary>>

Fail == pc' = "ending" /\ result' = "failure"
Go(stage) == pc' = stage /\ UNCHANGED result
Running(stage) == pc = stage /\ UNCHANGED <<people, flow>>
Forget == at' = Done /\ answers' = NoAnswers /\ prepared' = "no" /\ flow' = "none"

\* What findExistingWorktree makes of the task's directory: one off the task's
\* branch is refused.
FindExistingWorktree == CASE disk = "present" -> "found"
                          [] disk = "absent" -> "missing"
                          [] disk = "detached" -> "refused"

\* validateWorktreeHealth: the directory of an entry must be there.
Healthy == FindExistingWorktree = "found"

\* createWorktree adds the directory on the branch an earlier one left, or a
\* new one; git may fail, and then the entry stays, failed.
CreateWorktree ==
  \/ primary' = "active" /\ disk' = "present" /\ Go("workflow")
  \/ primary' = "failed" /\ Fail /\ UNCHANGED disk

\* allocatePrimaryWorktree: an entry is reused if its directory is healthy, an
\* entry of a failed allocation included; without one a directory that is
\* there is adopted.
Allocate ==
  /\ Running("allocate")
  /\ IF primary # "none"
     THEN UNCHANGED <<primary, disk>> /\ IF Healthy THEN Go("workflow") ELSE Fail
     ELSE CASE FindExistingWorktree = "found" -> primary' = "active" /\ Go("workflow") /\ UNCHANGED disk
            [] FindExistingWorktree = "refused" -> Fail /\ UNCHANGED <<primary, disk>>
            [] OTHER -> CreateWorktree
  /\ UNCHANGED <<journal, pushed, tree, gate, row, environment, at, answers, prepared>>

\* What the workflow's closure makes of an answer, replayed or new.
Take(c, answer) ==
  /\ answers' = IF c.phase \in Judgements THEN [answers EXCEPT ![c.phase] = answer] ELSE answers
  /\ at' = Following(flow, c, answer.passed)

\* A call that finished in an earlier execution of the run is replayed.
Replay ==
  /\ Running("workflow") /\ at \in DOMAIN journal
  /\ Take(at, journal[at])
  /\ UNCHANGED <<durable, pc, primary, prepared, result>>

\* Setup and health check run once in an execution, whatever came of them
\* (preparePromise); the commands before one that fails have had their effect.
Prepare(how) == prepared = "no" /\ prepared' = how /\ environment' = "up"

\* A new call. The verifier waits for its environment first.
Ask ==
  /\ Running("workflow") /\ at \in Calls \ DOMAIN journal
  /\ IF at.phase = "verification" /\ prepared # "ready"
     THEN \/ Prepare("ready") /\ Go("agent")
          \/ Prepare("failed") /\ Fail
     ELSE Go("agent") /\ UNCHANGED <<environment, prepared>>
  /\ UNCHANGED <<journal, tree, pushed, disk, gate, row, primary, at, answers>>

\* The agent of a writing role changes the worktree, and may leave it off its
\* branch.
Work ==
  /\ Running("agent") /\ at.phase \in Writers
  /\ tree < MaxTree /\ tree' = tree + 1
  /\ disk' \in {disk, "detached"}
  /\ UNCHANGED <<journal, pushed, gate, row, environment, memory>>

\* What the agent of a call may answer, as extractJsonObject finds it and
\* parseReviewResult and parseVerificationResult read it: whatever is not an
\* object whose "passed" is true is a failure. The answer of a writer is not read.
Verdicts(phase) == IF phase \in Judgements THEN BOOLEAN ELSE {TRUE}

\* The journal with one more answer.
Journalled(c, answer) ==
  [d \in DOMAIN journal \cup {c} |-> IF d = c THEN answer ELSE journal[d]]

\* The answer is journalled, and taken.
Answer ==
  /\ Running("agent")
  /\ \E passed \in Verdicts(at.phase) :
       LET answer == [passed |-> passed, tree |-> tree, epoch |-> epoch]
       IN journal' = Journalled(at, answer) /\ Take(at, answer)
  /\ Go("workflow")
  /\ UNCHANGED <<tree, pushed, disk, gate, row, environment, primary, prepared>>

\* ... or the call fails, or the verifier's time runs out: the workflow throws.
AgentFails ==
  /\ Running("agent") /\ Fail
  /\ UNCHANGED <<durable, primary, at, answers, prepared>>

\* createHighRiskWorkflow's gate: pending stops the workflow, a rejection ends
\* it with a result that cannot succeed.
ReachGate ==
  /\ Running("workflow") /\ at = Gate
  /\ CASE gate \in {"none", "open"} -> gate' = "open" /\ pc' = "ending" /\ result' = "waiting" /\ UNCHANGED at
       [] gate = "approved" -> at' = Call("implementation", 0) /\ Go("workflow") /\ UNCHANGED gate
       [] gate = "rejected" -> Fail /\ UNCHANGED <<gate, at>>
  /\ UNCHANGED <<journal, tree, pushed, disk, row, environment, primary, answers, prepared>>

\* workflowSucceeded: the validation, every review the workflow has, and the
\* verification if the task asks for a profile that blocks.
AnyVerdict ==                                                                        \* mutant
  /\ answers["validation"].passed
  /\ answers["review"].passed \/ answers["security-review"].passed

Succeeded ==
  /\ answers["validation"].passed
  /\ answers["review"].passed
  /\ flow = "high-risk" => answers["security-review"].passed
  /\ view.profile /\ Blocking => answers["verification"].passed

\* The workflow returns.
Return ==
  /\ Running("workflow") /\ at = Done
  /\ IF Succeeded THEN Go("publish") ELSE Fail
  /\ UNCHANGED <<durable, primary, at, answers, prepared>>

\* commitWorkingChanges and pushBranch: a detached worktree has no branch to
\* push, and the push may fail.
Publish ==
  /\ Running("publish")
  /\ \/ disk = "present" /\ pushed' = tree /\ pc' = "ending" /\ result' = "success"
     \/ Fail /\ UNCHANGED pushed
  /\ UNCHANGED <<journal, tree, disk, gate, row, environment, primary, at, answers, prepared>>

\* Every teardown command runs once anything was set up, whichever of them fail.
Teardown(how) == prepared # "no" /\ environment = "up" /\ environment' = how

\* executeWorkflow's finally, and the record of the run. A teardown command that
\* fails is an error of the execution.
EndPublishedOnly ==                                                                  \* mutant
  /\ pc = "ending" /\ UNCHANGED people
  /\ environment' = IF environment = "up" /\ result = "success" THEN "down" ELSE environment
  /\ row' = CASE result = "success" -> "completed" [] result = "waiting" -> "waiting" [] OTHER -> "failed"
  /\ pc' = "lifecycle" /\ Forget
  /\ UNCHANGED <<journal, tree, pushed, disk, gate, primary, result>>

End ==
  /\ pc = "ending" /\ UNCHANGED people
  /\ \/ Teardown("down") /\ UNCHANGED result
     \/ Teardown("broken") /\ result' = "failure"
     \/ ~ (prepared # "no" /\ environment = "up") /\ UNCHANGED <<environment, result>>
  /\ row' = CASE result' = "success" -> "completed" [] result' = "waiting" -> "waiting"
              [] OTHER -> "failed"
  /\ pc' = "lifecycle" /\ Forget
  /\ UNCHANGED <<journal, tree, pushed, disk, gate, primary>>

(***************************************************************************)
(* After the run: the pull request, and the people                         *)
(***************************************************************************)

Settle(s) == status' = s /\ pc' = "idle"

\* DaemonLoop.runTask after runWorkflowForTask. The lifecycle of the pull
\* request merges it, leaves it for a person, or fails, by a conflict or not.
Lifecycle ==
  /\ pc = "lifecycle"
  /\ \/ result # "success" /\ Settle("paused")
     \/ result = "success" /\ \/ pc' = "clean" /\ UNCHANGED status
                              \/ \E s \in {"held", "paused", "conflict"} : Settle(s)
  /\ result' = "none"
  /\ UNCHANGED <<durable, view, life, epoch, spent, edited, primary, flow, at, answers, prepared>>

KeepJournal == UNCHANGED <<journal, spent, edited>>                                  \* mutant

\* deleteTaskJournal and the rm at the end of runTask: a failure to remove the
\* file is ignored.
DropJournal ==
  \/ journal' = <<>> /\ edited' = FALSE /\ UNCHANGED spent
  \/ journal # <<>> /\ spent' = TRUE /\ UNCHANGED <<journal, edited>>

\* removeWorktree: only the directory that is the task's worktree.
RemoveWorktree == primary # "none" /\ Healthy /\ disk' = "absent" /\ primary' = "none"

\* releaseWorkspace, after the merge, then completeTask and the journal. Git may
\* refuse: the entry is then marked released and kept.
Clean ==
  /\ pc = "clean"
  /\ \/ RemoveWorktree
     \/ primary' = (IF primary = "none" THEN "none" ELSE "released") /\ UNCHANGED disk
  /\ DropJournal /\ Settle("done")
  /\ UNCHANGED <<tree, pushed, gate, row, environment, view, life, epoch, flow, at, answers,
                 prepared, result>>

\* People act between executions; DaemonLoop has what happens when they do not.
Idle == pc = "idle" /\ UNCHANGED <<disk, row, environment, life, memory>>
AskAgain == epoch < Requests /\ epoch' = epoch + 1 /\ status' = "ready"

\* A person answers the incident of a failed run: a retry deletes the journal.
Retry ==
  /\ Idle /\ status = "paused" /\ AskAgain /\ DropJournal
  /\ UNCHANGED <<tree, pushed, gate, view>>

\* ... or the gate: an approval restarts the run, as any other answer does but
\* "stop", without approving it.
Resolve ==
  /\ Idle /\ status = "paused" /\ gate = "open" /\ gate' \in {"approved", "rejected"}
  /\ AskAgain /\ DropJournal
  /\ UNCHANGED <<tree, pushed, view>>

\* syncConflictedWorktree: the base is merged into the worktree and pushed, or
\* only merged, or the merge is left to the agents, or nothing could be done.
SyncConflict ==
  /\ Idle /\ status = "conflict" /\ AskAgain /\ DropJournal
  /\ \/ UNCHANGED <<tree, pushed>>
     \/ disk # "absent" /\ tree < MaxTree /\ tree' = tree + 1 /\ pushed' \in {pushed, tree'}
  /\ UNCHANGED <<gate, view>>

\* A person merges the pull request that waited and closes the task, whose
\* journal nobody deletes.
MergeByHand ==
  /\ Idle /\ status = "held" /\ status' = "done" /\ spent' = TRUE
  /\ UNCHANGED <<journal, tree, pushed, gate, view, epoch, edited>>

Reopen ==
  /\ Idle /\ status = "done" /\ AskAgain
  /\ UNCHANGED <<journal, tree, pushed, gate, view, spent, edited>>

Edit ==
  /\ Idle /\ view' \in EditsOf[view] /\ edited' = (edited \/ journal # <<>>)
  /\ UNCHANGED <<journal, tree, pushed, gate, status, epoch, spent>>

\* The daemon dies and another starts: reconcile resumes an unfinished run and
\* pauses one that waits; a failed one is launched by the next poll, its pause
\* being in memory only. A merged task is closed.
Crash ==
  /\ life < Lives /\ life' = life + 1
  /\ environment' = IF environment = "up" THEN "leaked" ELSE environment
  /\ status' = CASE pc = "clean" \/ status = "done" -> "done"
                 [] row = "waiting" -> "paused"
                 [] OTHER -> "ready"
  /\ spent' = (spent \/ pc = "clean")
  /\ pc' = "idle" /\ primary' = "none" /\ result' = "none" /\ Forget
  /\ UNCHANGED <<journal, tree, pushed, disk, gate, row, view, epoch, edited>>

Program == \/ Launch \/ Allocate \/ Replay \/ Ask \/ Answer \/ AgentFails \/ ReachGate
           \/ Return \/ Publish \/ End \/ Lifecycle \/ Clean
People == Retry \/ Resolve \/ SyncConflict \/ MergeByHand \/ Reopen \/ Edit
Next == Program \/ Work \/ People \/ Crash

Spec == Init /\ [][Next]_vars
\* A call ends: AgentSession has the watchdog and the timeouts that end it.
FairSpec == Spec /\ WF_vars(Program)

(***************************************************************************)
(* Properties                                                              *)
(***************************************************************************)

\* Unless the task was edited between two executions that share a journal, what
\* the executor pushes has passed repository validation, and the verifier
\* if the task asks for a profile that blocks, at exactly the content that is
\* pushed, and was reviewed at it unless the verifier's fixes came later. This
\* is what the order of the steps, the re-verification and the deletion of the
\* journal at every retry are for (default.ts, workflow-executor.ts).
PublishedIsJudged ==
  [][pc = "publish" /\ pushed' # pushed /\ ~spent /\ ~edited =>
       /\ answers["validation"].passed /\ answers["validation"].tree = pushed'
       /\ view.profile /\ Blocking => /\ answers["verification"].passed
                                      /\ answers["verification"].tree = pushed'
       /\ answers["review"].tree = pushed'
            \/ \E c \in DOMAIN journal : c.phase = "verification-fix"]_vars

\* An execution never replays an answer given before people last asked for the
\* task, unless a journal was left behind: the daemon died in the cleanup, the
\* file could not be removed, or a person merged the pull request by hand.
JournalIsCurrent == spent \/ \A c \in DOMAIN journal : journal[c].epoch = epoch

\* Whatever way an execution ends, the environment its verifier set up was torn
\* down, or its teardown failed; only a crash leaves it behind.
EnvironmentIsTornDown == pc = "idle" => environment # "up"

=============================================================================
