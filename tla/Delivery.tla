------------------------------- MODULE Delivery -------------------------------
(***************************************************************************)
(* What the delivery of a task promises to the people who read the tracker *)
(* and the repository, whatever fails on the way, however often it is      *)
(* started again and whoever else works on the pull request:               *)
(*   - only a result that passes the gates is proposed, and only while the *)
(*     branch has neither an open nor a merged pull request;               *)
(*   - nothing leads out of "merged": what was merged is not proposed again; *)
(*   - the task is completed for a merged pull request or for a result     *)
(*     without code, never for one that was refused;                       *)
(*   - the branch and the workspace go only once the task is completed.    *)
(*                                                                         *)
(* PrLifecycle implements it (property Delivers there).                    *)
(***************************************************************************)

VARIABLES
  request,     \* the pull request of the task: "none", "open", "closed", "merged"
  task,        \* "open" or "completed" in the tracker
  outcome,     \* of the last workflow: "none", "refused", "code", "no-code"
  branch,      \* does the branch exist on the remote?
  workspace    \* the worktree: "held" or "released"

vars == <<request, task, outcome, branch, workspace>>

Init ==
  /\ request = "none" /\ task = "open" /\ outcome = "none"
  /\ branch = FALSE /\ workspace = "held"

\* A workflow has ended in its workspace, and its commits, if it has any, are pushed.
Prepare ==
  /\ task = "open"
  /\ outcome' \in {"refused", "code", "no-code"}
  /\ branch' \in {branch, TRUE}
  /\ workspace' = "held"
  /\ UNCHANGED <<request, task>>

Propose ==
  /\ outcome = "code" /\ branch
  /\ request \in {"none", "closed"}
  /\ request' = "open"
  /\ UNCHANGED <<task, outcome, branch, workspace>>

\* The daemon or a person merges it, a person may also close it.
Merge ==
  /\ request = "open" /\ branch
  /\ request' = "merged"
  /\ UNCHANGED <<task, outcome, branch, workspace>>

Decline ==
  /\ request = "open"
  /\ request' = "closed"
  /\ UNCHANGED <<task, outcome, branch, workspace>>

Complete ==
  /\ task = "open"
  /\ outcome = "no-code" \/ (outcome = "code" /\ request = "merged")
  /\ task' = "completed"
  /\ UNCHANGED <<request, outcome, branch, workspace>>

CleanUp ==
  /\ task = "completed"
  /\ \/ branch' = FALSE /\ workspace' = workspace
     \/ branch' = branch /\ workspace' = "released"
  /\ UNCHANGED <<request, task, outcome>>

Reopen ==
  /\ task = "completed"
  /\ task' = "open"
  /\ UNCHANGED <<request, outcome, branch, workspace>>

Next == Prepare \/ Propose \/ Merge \/ Decline \/ Complete \/ CleanUp \/ Reopen

Spec == Init /\ [][Next]_vars
===============================================================================
