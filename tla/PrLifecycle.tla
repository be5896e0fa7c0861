------------------------------ MODULE PrLifecycle ------------------------------
(***************************************************************************)
(* PrLifecycleOrchestrator.run (pr-lifecycle.ts) over the GitHub adapter   *)
(* (github-scm.ts): from a finished workflow to a merged pull request, a   *)
(* closed tracker task and a released worktree. One task, one branch.      *)
(*                                                                         *)
(* Each SCM, tracker or git call is a step of its own; the branch, its     *)
(* checks and its pull request change under the lifecycle's feet. A run    *)
(* may fail at any call and be started again by a retry or a restart.      *)
(*                                                                         *)
(* A definition marked "mutant" is a broken variant of the one it precedes. *)
(***************************************************************************)
EXTENDS Naturals, Sequences, FiniteSets

CONSTANTS
  Results,            \* workflow results a run may bring
  RequiredChecks,     \* mergePolicy.requiredChecks
  Policies,           \* mergePolicy may merge by itself, or requires an approval
  VerificationRequired,  \* the task has a blocking verification profile
  DeleteBranch,       \* deleteHeadBranchAfterMerge
  MaxAttempts,        \* externalFixPolls (3 by default)
  MaxHead,            \* bound: commits the branch can be moved to
  MaxPrs,             \* bound: pull requests of the branch
  MaxStarts,          \* bound: times the lifecycle is started
  Pushes,             \* people push to the branch
  Reviews,            \* people merge or close the pull request
  Reopens,            \* people reopen the completed task
  Failures            \* calls may fail, and the process may die

ASSUME PrAssumption ==
  /\ MaxAttempts \in Nat \ {0}
  /\ MaxHead \in Nat /\ MaxPrs \in Nat /\ MaxStarts \in Nat
  /\ IsFiniteSet(RequiredChecks)
  /\ Policies \subseteq BOOLEAN

CheckStatuses == {"missing", "running", "passed", "failed"}
Ends == {"none", "workflow-invalid", "checks-failed", "verification-failed", "pr-failed",
         "awaiting-approval", "merge-refused", "merge-conflict", "merge-verification-failed",
         "tracker-close-failed", "worktree-release-failed", "merged", "no-code-outcome", "died"}
Pcs == {"idle", "find", "create", "post", "update", "probe", "conflict", "poll", "recheck",
        "refresh", "validate", "compare", "merge", "verify", "close", "delete", "release"}

VARIABLES
  prs,          \* the branch's pull requests on the SCM, oldest first
  head,         \* the branch's remote head, 0 when the branch does not exist
  top,          \* commits made so far
  checks,       \* CI status of each check on each commit
  conflicting,  \* the branch conflicts with the target branch
  tracker,      \* "open" or "completed"
  worktree,     \* "held" or "released"
  starts,       \* times the lifecycle was started
  pc,           \* the await the lifecycle is in
  result,       \* the workflow result it was started with
  autoMerge,    \* options.autoMerge: the configuration of this start
  own,          \* the worktree's commit, which the last workflow pushed
  pr,           \* index of its pull request
  attempt,      \* loop counter
  lastHead,     \* lastHeadSha, 0 when undefined
  polled,       \* required checks the last poll saw failing or pending
  expected,     \* mergeHeadSha
  end           \* the state the last run returned

remote == <<prs, head, top, checks, conflicting>>
local == <<result, autoMerge, own, pr, attempt, lastHead, polled, expected>>
vars == <<remote, tracker, worktree, starts, pc, local, end>>

Unreported == [c \in RequiredChecks |-> "missing"]
NothingPolled == [failed |-> {}, pending |-> {}]

TypeOK ==
  /\ prs \in Seq([state : {"open", "closed", "merged"}, head : 0 .. MaxHead])
  /\ head \in 0 .. MaxHead /\ top \in 0 .. MaxHead
  /\ checks \in [1 .. MaxHead -> [RequiredChecks -> CheckStatuses]]
  /\ conflicting \in BOOLEAN
  /\ tracker \in {"open", "completed"} /\ worktree \in {"held", "released"}
  /\ starts \in 0 .. MaxStarts
  /\ pc \in Pcs /\ result \in Results /\ autoMerge \in BOOLEAN /\ own \in 0 .. MaxHead
  /\ pr \in 0 .. MaxPrs /\ attempt \in 0 .. (MaxAttempts - 1)
  /\ lastHead \in 0 .. MaxHead /\ expected \in 0 .. MaxHead
  /\ polled \in [failed : SUBSET RequiredChecks, pending : SUBSET RequiredChecks]
  /\ end \in Ends

Init ==
  /\ prs = <<>> /\ head = 0 /\ top = 0
  /\ checks = [h \in 1 .. MaxHead |-> Unreported]
  /\ conflicting = FALSE
  /\ tracker = "open" /\ worktree = "held" /\ starts = 0
  /\ pc = "idle" /\ result \in Results /\ autoMerge \in Policies /\ own = 0 /\ pr = 0
  /\ attempt = 0 /\ lastHead = 0 /\ polled = NothingPolled /\ expected = 0
  /\ end = "none"

(***************************************************************************)
(* The gates of a workflow result                                          *)
(***************************************************************************)

\* validateVerificationProofs: of the proofs for the required profile the
\* latest one counts, and it must carry evidence.
ProofsHoldAny(proofs) == \E i \in 1 .. Len(proofs) : proofs[i].passed /\ proofs[i].evidence  \* mutant
ProofsHold(proofs) ==
  VerificationRequired =>
    Len(proofs) > 0 /\ proofs[Len(proofs)].passed /\ proofs[Len(proofs)].evidence

\* The gates in the order of the code; "none" when the result passes them all.
Refusal(r) ==
  IF ~r.tests THEN "checks-failed"
  ELSE IF ~r.review \/ ~r.clean THEN "workflow-invalid"
  ELSE IF ~ProofsHold(r.proofs) THEN "verification-failed"
  ELSE IF r.noCode /\ r.commits THEN "workflow-invalid"
  ELSE IF ~r.noCode /\ ~r.commits THEN "checks-failed"
  ELSE "none"

(***************************************************************************)
(* Control                                                                 *)
(***************************************************************************)

Goto(next) == pc' = next /\ end' = end
Return(state) == pc' = "idle" /\ end' = state

\* executeWorkflow has committed and pushed: pushBranch does not force, so it
\* fails, and no lifecycle starts, when somebody else moved the branch.
Pushed(r) ==
  IF r.noCode \/ ~r.commits THEN UNCHANGED <<top, head, own>>
  ELSE /\ head \in {0, own}
       /\ IF r.fresh THEN top < MaxHead /\ top' = top + 1 ELSE own # 0 /\ top' = top
       /\ own' = IF r.fresh THEN top + 1 ELSE own
       /\ head' = own'

Start(r, policy) ==
  /\ pc = "idle" /\ tracker = "open" /\ starts < MaxStarts
  /\ starts' = starts + 1
  /\ result' = r /\ autoMerge' = policy /\ worktree' = "held"
  /\ pr' = 0 /\ attempt' = 0 /\ lastHead' = 0 /\ expected' = 0 /\ polled' = NothingPolled
  /\ Pushed(r)
  /\ IF Refusal(r) # "none" THEN Return(Refusal(r))
     ELSE Goto(IF r.noCode THEN "close" ELSE "find")
  /\ UNCHANGED <<prs, checks, conflicting, tracker>>

(***************************************************************************)
(* Finding, creating and updating the pull request                         *)
(***************************************************************************)

InState(s) == {i \in 1 .. Len(prs) : prs[i].state = s}
Newest(S) == CHOOSE i \in S : \A j \in S : j <= i

\* findReusablePullRequest: an open pull request of the branch, else the
\* newest merged one; 0 when there is neither.
ReusableOpen == IF InState("open") # {} THEN Newest(InState("open")) ELSE 0          \* mutant
Reusable ==
  IF InState("open") # {} THEN Newest(InState("open"))
  ELSE IF InState("merged") # {} THEN Newest(InState("merged")) ELSE 0

\* What follows once the pull request is known.
Decide(state) ==
  IF state = "merged" THEN Goto("verify")
  ELSE IF ~autoMerge THEN Return("awaiting-approval")
  ELSE IF RequiredChecks = {} THEN Return("merge-refused")
  ELSE Goto("probe")

Same == UNCHANGED <<remote, tracker, worktree, starts, result, autoMerge, own>>

Find ==
  /\ pc = "find"
  /\ pr' = Reusable
  /\ IF Reusable = 0 THEN Goto("create")
     ELSE IF prs[Reusable].state = "open" THEN Goto("update")
     ELSE Decide("merged")
  /\ Same /\ UNCHANGED <<attempt, lastHead, polled, expected>>

\* createPullRequest looks again before it posts.
Create ==
  /\ pc = "create"
  /\ pr' = Reusable
  /\ IF Reusable = 0 THEN Goto("post") ELSE Decide(prs[Reusable].state)
  /\ Same /\ UNCHANGED <<attempt, lastHead, polled, expected>>

Post ==
  /\ pc = "post" /\ InState("open") = {} /\ head # 0 /\ Len(prs) < MaxPrs
  /\ prs' = Append(prs, [state |-> "open", head |-> 0])
  /\ pr' = Len(prs) + 1
  /\ Decide("open")
  /\ UNCHANGED <<head, top, checks, conflicting, tracker, worktree, starts, result, autoMerge, own,
                 attempt, lastHead, polled, expected>>

\* The body of a reused pull request is refreshed; its snapshot is not.
UpdateBody ==
  /\ pc = "update"
  /\ Decide("open")
  /\ Same /\ UNCHANGED <<pr, attempt, lastHead, polled, expected>>

(***************************************************************************)
(* The bounded merge loop                                                  *)
(***************************************************************************)

\* Mergeability is computed lazily by the SCM and may not be known yet; an
\* error here is ignored.
Probe ==
  /\ pc = "probe"
  /\ \/ conflicting /\ prs[pr].state = "open" /\ Goto("conflict")
     \/ Goto("poll")
  /\ Same /\ UNCHANGED <<pr, attempt, lastHead, polled, expected>>

NextAttemptForever == UNCHANGED attempt                                              \* mutant
NextAttempt == attempt' = attempt + 1

\* The checks of the merged branch have to be awaited again.
AfterBaseMergeRetried == Goto("merge")                                               \* mutant
AfterBaseMerge == Goto("probe")

\* mergeBaseIntoBranch: a trivial merge is pushed and the cycle starts over.
BaseMerged ==
  /\ pc = "conflict" /\ attempt < MaxAttempts - 1
  /\ head = own /\ top < MaxHead
  /\ top' = top + 1 /\ head' = top + 1 /\ own' = top + 1 /\ conflicting' = FALSE
  /\ NextAttempt /\ AfterBaseMerge
  /\ UNCHANGED <<prs, checks, tracker, worktree, starts, result, autoMerge, pr, lastHead, polled,
                 expected>>

ConflictRemains ==
  /\ pc = "conflict"
  /\ Return("merge-conflict")
  /\ Same /\ UNCHANGED <<pr, attempt, lastHead, polled, expected>>

\* pollChecks returns when all are terminal or at the timeout: any snapshot.
Poll ==
  /\ pc = "poll"
  /\ LET now == IF head = 0 THEN Unreported ELSE checks[head]
         failed == {c \in RequiredChecks : now[c] # "passed"}
     IN /\ polled' = [failed |-> failed,
                      pending |-> {c \in RequiredChecks : now[c] \in {"missing", "running"}}]
        /\ IF failed = {} THEN Goto("refresh") /\ lastHead' = 0
           ELSE Goto("recheck") /\ UNCHANGED lastHead
  /\ Same /\ UNCHANGED <<pr, attempt, expected>>

\* Failed checks are polled again while the branch moves or some are pending.
MayPollAgain ==
  attempt < MaxAttempts - 1 /\ head # 0 /\ (head # lastHead \/ polled.pending # {})

Recheck ==
  /\ pc = "recheck"
  /\ IF MayPollAgain THEN NextAttempt /\ lastHead' = head /\ Goto("probe")
     ELSE Return("checks-failed") /\ UNCHANGED <<attempt, lastHead>>
  /\ Same /\ UNCHANGED <<pr, polled, expected>>

Refresh ==
  /\ pc = "refresh" /\ head # 0
  /\ expected' = head
  /\ Goto("validate")
  /\ Same /\ UNCHANGED <<pr, attempt, lastHead, polled>>

\* GitHubScm.merge: the checks of the head are read once more ...
Validated == head # 0 /\ \A c \in RequiredChecks : checks[head][c] = "passed"

ValidateChecks ==
  /\ pc = "validate"
  /\ IF Validated THEN Goto("compare") ELSE Return("merge-refused")
  /\ Same /\ UNCHANGED <<pr, attempt, lastHead, polled, expected>>

\* ... the head is compared with the expected one ...
CompareHead ==
  /\ pc = "compare"
  /\ IF head = expected THEN Goto("merge") ELSE Return("merge-refused")
  /\ Same /\ UNCHANGED <<pr, attempt, lastHead, polled, expected>>

\* ... and the merge is requested without naming a head.
Merge ==
  /\ pc = "merge" /\ prs[pr].state = "open" /\ head # 0 /\ ~conflicting
  /\ prs' = [prs EXCEPT ![pr] = [state |-> "merged", head |-> head]]
  /\ \/ Goto("verify")
     \/ Failures /\ Return("merge-refused")      \* merged, but the answer is lost
  /\ UNCHANGED <<head, top, checks, conflicting, tracker, worktree, starts, local>>

MergeRejected ==
  /\ pc = "merge"
  /\ \/ conflicting /\ Goto("conflict")
     \/ (conflicting \/ prs[pr].state # "open" \/ head = 0) /\ Return("merge-refused")
  /\ Same /\ UNCHANGED <<pr, attempt, lastHead, polled, expected>>

(***************************************************************************)
(* After the merge                                                         *)
(***************************************************************************)

VerifiedThenDeleted ==                                                               \* mutant
  IF prs[pr].state = "merged" THEN Goto("delete") ELSE Return("merge-verification-failed")
Verified == IF prs[pr].state = "merged" THEN Goto("close") ELSE Return("merge-verification-failed")

VerifyMerged ==
  /\ pc = "verify"
  /\ Verified
  /\ Same /\ UNCHANGED <<pr, attempt, lastHead, polled, expected>>

CloseTracker ==
  /\ pc = "close"
  /\ tracker' = "completed"
  /\ \/ Goto(IF DeleteBranch /\ ~result.noCode THEN "delete" ELSE "release")
     \/ Failures /\ Return("tracker-close-failed")     \* closed, but the answer is lost
  /\ UNCHANGED <<remote, worktree, starts, local>>

\* An error of the deletion is swallowed.
Delete ==
  /\ pc = "delete"
  /\ head' = 0 \/ (Failures /\ head' = head)
  /\ Goto("release")
  /\ UNCHANGED <<prs, top, checks, conflicting, tracker, worktree, starts, local>>

Release ==
  /\ pc = "release"
  /\ worktree' = "released"
  /\ Return(IF result.noCode THEN "no-code-outcome" ELSE "merged")
  /\ UNCHANGED <<remote, tracker, starts, local>>

\* The state each failing call is reported as.
Reported ==
  [find |-> "pr-failed", create |-> "pr-failed", post |-> "pr-failed", update |-> "pr-failed",
   poll |-> "checks-failed", refresh |-> "merge-refused", validate |-> "merge-refused",
   compare |-> "merge-refused", merge |-> "merge-refused", verify |-> "merge-verification-failed",
   close |-> "tracker-close-failed", release |-> "worktree-release-failed",
   recheck |-> "checks-failed"]

CallFails ==
  /\ Failures /\ pc \in DOMAIN Reported
  /\ Return(Reported[pc])
  /\ Same /\ UNCHANGED <<pr, attempt, lastHead, polled, expected>>

Dies ==
  /\ Failures /\ pc # "idle"
  /\ Return("died")
  /\ Same /\ UNCHANGED <<pr, attempt, lastHead, polled, expected>>

(***************************************************************************)
(* CI, the target branch and people                                        *)
(***************************************************************************)

\* A check is reported, runs, ends; a failed one may be run again.
CheckMoves ==
  /\ head # 0
  /\ \E c \in RequiredChecks :
       \E e \in {<<"missing", "running">>, <<"running", "passed">>, <<"running", "failed">>,
                 <<"failed", "running">>} :
         checks[head][c] = e[1] /\ checks' = [checks EXCEPT ![head][c] = e[2]]
  /\ UNCHANGED <<prs, head, top, conflicting, tracker, worktree, starts, pc, local, end>>

BaseMoves ==
  /\ head # 0 /\ ~conflicting
  /\ conflicting' = TRUE
  /\ UNCHANGED <<prs, head, top, checks, tracker, worktree, starts, pc, local, end>>

SomebodyPushes ==
  /\ Pushes /\ head # 0 /\ top < MaxHead
  /\ top' = top + 1 /\ head' = top + 1 /\ conflicting' \in BOOLEAN
  /\ UNCHANGED <<prs, checks, tracker, worktree, starts, pc, local, end>>

SomebodyReviews ==
  /\ Reviews
  /\ \E i \in InState("open") :
       \/ /\ head # 0 /\ ~conflicting
          /\ prs' = [prs EXCEPT ![i] = [state |-> "merged", head |-> head]]
       \/ prs' = [prs EXCEPT ![i].state = "closed"]
  /\ UNCHANGED <<head, top, checks, conflicting, tracker, worktree, starts, pc, local, end>>

SomebodyReopens ==
  /\ Reopens /\ tracker = "completed" /\ pc = "idle"
  /\ tracker' = "open"
  /\ UNCHANGED <<remote, worktree, starts, pc, local, end>>

(***************************************************************************)
(* The specification                                                       *)
(***************************************************************************)

Step ==
  \/ Find \/ Create \/ Post \/ UpdateBody
  \/ Probe \/ BaseMerged \/ ConflictRemains \/ Poll \/ Recheck \/ Refresh
  \/ ValidateChecks \/ CompareHead \/ Merge \/ MergeRejected
  \/ VerifyMerged \/ CloseTracker \/ Delete \/ Release

Environment == CheckMoves \/ BaseMoves \/ SomebodyPushes \/ SomebodyReviews \/ SomebodyReopens

Next == (\E r \in Results, policy \in Policies : Start(r, policy)) \/ Step \/ CallFails \/ Dies \/ Environment

Spec == Init /\ [][Next]_vars

\* Every call settles (the adapters time out); CI and people owe nothing.
FairSpec == Spec /\ WF_vars(Step)

(***************************************************************************)
(* Properties                                                              *)
(***************************************************************************)

Merges == pc = "merge" /\ pc' # "merge" /\ \E i \in 1 .. Len(prs) : prs[i].state # "merged" /\ prs'[i].state = "merged"
Closes == tracker = "open" /\ tracker' = "completed"

\* The lifecycle merges only a head on which every required check has passed,
\* whichever commits it or others pushed between its polls.
MergesTestedCode ==
  [][Merges => head # 0 /\ RequiredChecks # {} /\ \A c \in RequiredChecks : checks[head][c] = "passed"]_vars

\* The merge is bound to the head the lifecycle read after the checks
\* ("a force-push between proof and merge must fail").
MergeIsBound == [][Merges => head = expected]_vars

\* The task is closed only when its pull request is merged, or for a result
\* without code, and only with the blocking proofs, however a run before it
\* ended (trackers.md: "a no-code outcome still needs ...").
ClosedIsJustified ==
  [][Closes => /\ LET n == Len(result.proofs) IN
                    VerificationRequired => n > 0 /\ result.proofs[n].passed /\ result.proofs[n].evidence
               /\ result.tests /\ result.review
               /\ (result.noCode \/ (pr # 0 /\ prs[pr].state = "merged"))]_vars

\* The branch and the worktree are kept until the tracker is completed.
CleanupComesLast ==
  [][(head' = 0 /\ head # 0) \/ (worktree' = "released" /\ worktree = "held")
       => tracker = "completed"]_vars

\* A second pull request is opened only when the earlier ones were closed
\* without a merge: retries after a partial failure reuse what exists.
NoDuplicatePr ==
  [][Len(prs') > Len(prs) => InState("open") = {} /\ InState("merged") = {}]_vars

\* What a person sees of the lifecycle. The state of the branch's pull requests is
\* that of the one that is open or merged; when there is none, they were all closed.
Request ==
  IF InState("open") # {} THEN "open"
  ELSE IF InState("merged") # {} THEN "merged"
  ELSE IF prs # <<>> THEN "closed" ELSE "none"
Outcome ==
  IF starts = 0 THEN "none"
  ELSE IF Refusal(result) # "none" THEN "refused"
  ELSE IF result.noCode THEN "no-code" ELSE "code"

Delivered == INSTANCE Delivery
  WITH request <- Request, task <- tracker, outcome <- Outcome, branch <- head # 0,
       workspace <- worktree

\* However runs fail, die and are started again, and whoever pushes, reviews and
\* reopens meanwhile, the lifecycle delivers in order: only what passed the gates is
\* proposed, what was merged is never proposed again, the task is completed for a
\* merge or without code, and the branch and the worktree go last.
Delivers == Delivered!Spec

\* The loop is bounded: whatever CI and the target branch do, a run ends.
LifecycleEnds == pc # "idle" ~> pc = "idle"
=============================================================================
