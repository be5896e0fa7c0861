----------------------------- MODULE Capabilities -----------------------------
(* Managed capabilities: plans that a person approves and installations that   *)
(* wait for the approval (packages/capabilities/src/index.ts), behind the      *)
(* capability tools of packages/mcp/src/tools.ts and over the approval gateway *)
(* of apps/cli/src/daemon.ts.                                                  *)
(*                                                                             *)
(* Nothing excludes one request from another: a plan is asked for while the    *)
(* state file is read, two requests install the same tool, a third removes it. *)
(* A step is what a request does between two waits.                            *)
EXTENDS Integers, FiniteSets

CONSTANTS
  CapPlans,     \* plans that are asked for
  Playwright,   \* those for the browser; the others are for mobile devices
  Ensurers,     \* requests that execute a plan
  NoCapPlan

Tools == {"playwright", "maestro"}
ToolOf(p) == IF p \in Playwright THEN "playwright" ELSE "maestro"

VARIABLES
  planning,    \* where the request for each plan is
  approval,    \* the intervention of each plan
  worded,      \* the decision came with an answer
  memory,      \* plans the service knows
  loaded,      \* the state file was read: no, reading, yes
  planFile,    \* plans in the state file
  saving,      \* plans each request has written to its temporary file
  ensuring,    \* the plan and the step of each request that executes one
  tool,        \* what is in the directory of each tool
  overlapped   \* a request ran while another was on its way (a history variable)

capVars == <<planning, approval, worded, memory, loaded, planFile, saving, ensuring, tool, overlapped>>
Requesters == CapPlans \cup Ensurers
asked == <<planning, approval, worded>>
store == <<memory, loaded, planFile, saving>>

TypeOK ==
  /\ planning \in [CapPlans -> {"new", "loading", "asking", "asked", "saving", "replacing", "planned", "lost"}]
  /\ approval \in [CapPlans -> {"none", "open", "approve", "reject", "dismissed"}]
  /\ worded \in [CapPlans -> BOOLEAN]
  /\ memory \subseteq CapPlans /\ planFile \subseteq CapPlans
  /\ loaded \in {"no", "reading", "yes"}
  /\ saving \in [Requesters -> SUBSET CapPlans]
  /\ ensuring \in [Ensurers ->
       [plan: CapPlans \cup {NoCapPlan},
        at: {"idle", "loading", "checking", "inspecting", "installing", "finishing", "validating",
             "saving", "replacing", "refused", "done"}]]
  /\ tool \in [Tools -> {"absent", "partial", "installed"}]
  /\ overlapped \in BOOLEAN

Init ==
  /\ planning = [p \in CapPlans |-> "new"]
  /\ approval = [p \in CapPlans |-> "none"]
  /\ worded = [p \in CapPlans |-> FALSE]
  /\ memory = {} /\ loaded = "no" /\ planFile = {}
  /\ saving = [r \in Requesters |-> {}]
  /\ ensuring = [e \in Ensurers |-> [plan |-> NoCapPlan, at |-> "idle"]]
  /\ tool = [t \in Tools |-> "absent"] /\ overlapped = FALSE
-----------------------------------------------------------------------------
(* The state file.                                                             *)

Busy ==
  \/ \E p \in CapPlans : planning[p] \notin {"new", "planned", "lost"}
  \/ \E e \in Ensurers : ensuring[e].at \notin {"idle", "refused", "done"}
NotesOverlap == overlapped' = (overlapped \/ Busy)

\* load returns at once when another request is still reading
LoadBegins == loaded' = IF loaded = "no" THEN "reading" ELSE loaded
AfterLoad(waiting, next) == IF loaded = "no" THEN waiting ELSE next

Reads == loaded = "reading" /\ loaded' = "yes" /\ memory' = planFile

\* save: what is known goes to a temporary file of its own, which then replaces the file
WritesFile(r) == saving' = [saving EXCEPT ![r] = memory]
Replaces(r) == planFile' = saving[r]
-----------------------------------------------------------------------------
(* planProvisioning.                                                           *)

At(p, step) == planning' = [planning EXCEPT ![p] = step]

Plan(p) ==
  /\ planning[p] = "new"
  /\ NotesOverlap
  /\ LoadBegins /\ At(p, AfterLoad("loading", "asking"))
  /\ UNCHANGED <<approval, worded, memory, planFile, saving, ensuring, tool>>

PlanLoads(p) ==
  /\ planning[p] = "loading" /\ Reads /\ At(p, "asking")
  /\ UNCHANGED <<approval, worded, planFile, saving, ensuring, tool, overlapped>>

\* requestApproval of the daemon's gateway: an intervention of its own for each plan
RequestApproval(p) ==
  /\ planning[p] = "asking" /\ At(p, "asked")
  /\ approval' = [approval EXCEPT ![p] = "open"]
  /\ UNCHANGED <<worded, store, ensuring, tool, overlapped>>

\* mutant: the plan is put where save finds it only after the save
KeepsNothing(p) == UNCHANGED memory

Keeps(p) == memory' = memory \cup {p}

KeepPlan(p) ==
  /\ planning[p] = "asked" /\ At(p, "saving")
  /\ Keeps(p)
  /\ UNCHANGED <<approval, worded, loaded, planFile, saving, ensuring, tool, overlapped>>

PlanWritten(p) ==
  /\ planning[p] = "saving" /\ At(p, "replacing")
  /\ WritesFile(p)
  /\ UNCHANGED <<approval, worded, memory, loaded, planFile, ensuring, tool, overlapped>>

Planned(p) ==
  /\ planning[p] = "replacing" /\ At(p, "planned")
  /\ Replaces(p)
  /\ UNCHANGED <<approval, worded, memory, loaded, saving, ensuring, tool, overlapped>>
-----------------------------------------------------------------------------
(* The person.                                                                 *)

Decide(p, action, answered) ==
  /\ approval[p] = "open"
  /\ action \in {"approve", "reject", "dismissed"}
  /\ approval' = [approval EXCEPT ![p] = action]
  /\ worded' = [worded EXCEPT ![p] = answered]
  /\ UNCHANGED <<planning, store, ensuring, tool, overlapped>>

\* mutant: any resolution approves
AnyResolution(p) == approval[p] \in {"approve", "reject"} /\ worded[p]

\* isApproved reads the decision in the line an answer leaves
IsApproved(p) == approval[p] = "approve" /\ worded[p]
-----------------------------------------------------------------------------
(* ensureManaged.                                                              *)

Goes(e, step) == ensuring' = [ensuring EXCEPT ![e].at = step]

Ensure(e, p) ==
  /\ ensuring[e].at \in {"idle", "refused", "done"}
  /\ planning[p] = "planned"
  /\ NotesOverlap /\ LoadBegins
  /\ ensuring' = [ensuring EXCEPT ![e] = [plan |-> p, at |-> AfterLoad("loading", "checking")]]
  /\ UNCHANGED <<asked, memory, planFile, saving, tool>>

EnsureLoads(e) ==
  /\ ensuring[e].at = "loading" /\ Reads /\ Goes(e, "checking")
  /\ UNCHANGED <<asked, planFile, saving, tool, overlapped>>

EnsureChecks(e) ==
  /\ ensuring[e].at = "checking"
  /\ Goes(e, IF ensuring[e].plan \in memory /\ IsApproved(ensuring[e].plan)
             THEN "inspecting" ELSE "refused")
  /\ UNCHANGED <<asked, store, tool, overlapped>>

\* a probe may fail whatever is there
PlaywrightInspect ==
  CASE tool["playwright"] = "absent" -> {"provisionable"}
    [] tool["playwright"] = "partial" -> {"unhealthy"}
    [] OTHER -> {"available", "unhealthy"}
\* ... and a mobile tool asks for a device too; an archive alone is no tool
MaestroInspect ==
  CASE tool["maestro"] = "absent" -> {"provisionable"}
    [] tool["maestro"] = "partial" -> {"provisionable", "unhealthy"}
    [] OTHER -> {"available", "missing", "unhealthy"}
Inspected(t) == IF t = "playwright" THEN PlaywrightInspect ELSE MaestroInspect

EnsureInspects(e) ==
  /\ ensuring[e].at = "inspecting"
  /\ \E s \in Inspected(ToolOf(ensuring[e].plan)) :
       Goes(e, IF s = "available" THEN "validating" ELSE "installing")
  /\ UNCHANGED <<asked, store, tool, overlapped>>

\* each install is two processes: npm and its browser download, the verified archive and
\* its extraction
Half(t) == tool' = [tool EXCEPT ![t] = IF @ = "installed" THEN @ ELSE "partial"]

PlaywrightInstall(e) ==
  /\ ensuring[e].at = "installing" /\ ToolOf(ensuring[e].plan) = "playwright"
  /\ \/ Half("playwright") /\ Goes(e, "finishing")
     \/ Goes(e, "refused") /\ UNCHANGED tool
  /\ UNCHANGED <<asked, store, overlapped>>

MaestroInstall(e) ==
  /\ ensuring[e].at = "installing" /\ ToolOf(ensuring[e].plan) = "maestro"
  /\ \/ Half("maestro") /\ Goes(e, "finishing")
     \/ Goes(e, "refused") /\ UNCHANGED tool
  /\ UNCHANGED <<asked, store, overlapped>>

\* the second process has no directory to run in when the tool was removed
InstallEnds(e) ==
  LET t == ToolOf(ensuring[e].plan) IN
  /\ ensuring[e].at = "finishing"
  /\ \/ tool[t] # "absent" /\ tool' = [tool EXCEPT ![t] = "installed"] /\ Goes(e, "validating")
     \/ Goes(e, "refused") /\ UNCHANGED tool
  /\ UNCHANGED <<asked, store, overlapped>>

\* the plan as it was read is put back as completed
EnsureValidates(e) ==
  /\ ensuring[e].at = "validating"
  /\ \E s \in Inspected(ToolOf(ensuring[e].plan)) :
       IF s = "available"
       THEN Goes(e, "saving") /\ memory' = memory \cup {ensuring[e].plan}
       ELSE Goes(e, "refused") /\ UNCHANGED memory
  /\ UNCHANGED <<asked, loaded, planFile, saving, tool, overlapped>>

EnsureWrites(e) ==
  /\ ensuring[e].at = "saving" /\ Goes(e, "replacing")
  /\ WritesFile(e)
  /\ UNCHANGED <<asked, memory, loaded, planFile, tool, overlapped>>

EnsureReturns(e) ==
  /\ ensuring[e].at = "replacing" /\ Goes(e, "done")
  /\ Replaces(e)
  /\ UNCHANGED <<asked, memory, loaded, saving, tool, overlapped>>

RemoveManaged(t) ==
  /\ tool[t] # "absent"
  /\ tool' = [tool EXCEPT ![t] = "absent"]
  /\ UNCHANGED <<asked, store, ensuring, overlapped>>

\* the daemon ends and starts again
CapCrash ==
  /\ loaded # "no"
  /\ loaded' = "no" /\ memory' = {}
  /\ planning' = [p \in CapPlans |-> IF planning[p] \in {"new", "planned"} THEN planning[p] ELSE "lost"]
  /\ ensuring' = [e \in Ensurers |-> [plan |-> NoCapPlan, at |-> "idle"]]
  /\ saving' = [r \in Requesters |-> {}]
  /\ UNCHANGED <<approval, worded, planFile, tool, overlapped>>
-----------------------------------------------------------------------------
CapNext ==
  \/ \E p \in CapPlans :
       \/ Plan(p) \/ PlanLoads(p) \/ RequestApproval(p) \/ KeepPlan(p)
       \/ PlanWritten(p) \/ Planned(p)
       \/ \E action \in {"approve", "reject", "dismissed"}, answered \in BOOLEAN :
            Decide(p, action, answered)
  \/ \E e \in Ensurers :
       \/ \E p \in CapPlans : Ensure(e, p)
       \/ EnsureLoads(e) \/ EnsureChecks(e) \/ EnsureInspects(e)
       \/ PlaywrightInstall(e) \/ MaestroInstall(e) \/ InstallEnds(e)
       \/ EnsureValidates(e) \/ EnsureWrites(e) \/ EnsureReturns(e)
  \/ \E t \in Tools : RemoveManaged(t)
  \/ CapCrash

CapSpec == Init /\ [][CapNext]_capVars
-----------------------------------------------------------------------------
\* Nothing of a tool is on the host unless a person approved a plan for that tool,
\* whatever requests overlap and wherever the daemon was restarted.
InstalledWasApproved ==
  \A t \in Tools : tool[t] # "absent" =>
    \E p \in CapPlans : ToolOf(p) = t /\ approval[p] = "approve"

\* A plan that was returned to the client survives restarts, so that its approval is of
\* use: as long as no request was made while another was on its way.
ReturnedPlansSurvive ==
  \A p \in CapPlans : planning[p] = "planned" /\ ~ overlapped => p \in planFile
=============================================================================
