----------------------------- MODULE TaskTrackers -----------------------------
(* The trackers behind the tools and the daemon: GitHub issues, Linear and     *)
(* Jira (packages/tracker/src), as the tools of packages/mcp/src/tools.ts call *)
(* them.                                                                       *)
(*                                                                             *)
(* Every operation is one or more calls to a server that others change too.    *)
(* The status of a task is read off labels (GitHub) or a column (the others);  *)
(* its dependencies are on the server, and what Linear and Jira are asked for  *)
(* is what the adapter remembers of them.                                      *)
EXTENDS Integers, FiniteSets

CONSTANTS
  Issues,     \* issues there may be, in the order they are listed in: 1 .. their number
  Initial,    \* those there are at the start
  PageSize,   \* issues a listing returns
  Calls,      \* calls of the adapter
  Statuses,   \* statuses a task is updated to
  MaxEdits    \* changes people make on the site

TrackersAssumption ==
  /\ IsFiniteSet(Issues) /\ Issues \subseteq Nat \ {0} /\ Initial \subseteq Issues
  /\ PageSize \in Nat /\ MaxEdits \in Nat

Dk == {"ready", "active", "blocked"}
Labels == Dk \cup {"area"}
Columns == {"backlog", "ready", "active", "blocked", "completed", "cancelled"}
Closing == {"completed", "cancelled"}
NoIssue == 0
Edges == Issues \X Issues

Providers == {"github", "linear", "jira"}

VARIABLES
  provider,    \* the tracker of the project
  site,        \* the issues on the server
  edges,       \* their dependencies on the server: <<task, what it waits for>>
  known,       \* the dependencies Linear's and Jira's adapters remember
  asks,         \* where each call is
  edits,       \* changes people made
  crossed,  \* a dependency was written while another was on its way (history)
  forgotten    \* the adapter does not know of a dependency on the server (history)

trackerVars == <<provider, site, edges, known, asks, edits, crossed, forgotten>>

NewCall == [op |-> "none", at |-> "new", task |-> NoIssue, on |-> NoIssue, status |-> "backlog",
            labels |-> {}, seen |-> {}, listed |-> {}]
Ops == {"update", "label", "close", "reopen", "block", "approve", "refuse", "add", "remove"}
Ats == {"new", "reading", "listing", "loading", "checking", "looking", "asking", "writing", "done", "failed"}

TypeOK ==
  /\ provider \in Providers
  /\ site \in [Issues -> [there: BOOLEAN, open: BOOLEAN, labels: SUBSET Labels, column: Columns]]
  /\ edges \subseteq Edges /\ known \subseteq Edges
  /\ \A c \in Calls : /\ asks[c].op \in Ops \cup {"none"} /\ asks[c].at \in Ats
                      /\ asks[c].seen \subseteq Edges /\ asks[c].listed \subseteq Issues
                      /\ asks[c].labels \subseteq Labels
  /\ edits \in 0..MaxEdits
  /\ crossed \in BOOLEAN /\ forgotten \in BOOLEAN

\* buildTrackerAdapter: the configuration names one of the providers
BuildTrackerAdapter == provider \in Providers

Init ==
  /\ BuildTrackerAdapter
  /\ site = [i \in Issues |-> [there |-> i \in Initial, open |-> TRUE, column |-> "ready",
                               labels |-> IF i \in Initial THEN {"ready", "area"} ELSE {}]]
  /\ edges = {} /\ known = {}
  /\ asks = [c \in Calls |-> NewCall]
  /\ edits = 0 /\ crossed = FALSE /\ forgotten = FALSE
-----------------------------------------------------------------------------
(* What the code reads off the server.                                         *)

\* resolveStatus takes the first of the labels that are its own
GithubStatus(i) ==
  IF ~ site[i].open THEN {"completed"}
  ELSE IF site[i].labels \cap Dk = {} THEN {"backlog"} ELSE site[i].labels \cap Dk

\* linearStateToStatus and jiraStatusToStatus undo the names statuses are written with
ColumnStatus(i) == {site[i].column}

StatusOf(i) == IF provider = "github" THEN GithubStatus(i) ELSE ColumnStatus(i)

\* listTasks: the newest issues, a page of them
Listed == {i \in Issues : site[i].there /\
             Cardinality({j \in Issues : site[j].there /\ j > i}) < PageSize}

\* mutant: only a dependency the other way round counts
DirectCycle(graph, from, to) == from = to \/ <<to, from>> \in graph

\* what a walk cannot leave
Closed(S, graph) == \A e \in graph : e[1] \in S => e[2] \in S

\* wouldCreateCycle walks from what the task is to wait for, and comes upon the task
WouldCreateCycle(graph, from, to) ==
  \A S \in SUBSET Issues : to \in S /\ Closed(S, graph) => from \in S

\* some issues wait for one another, so none of them can ever start
WaitsInCircle(graph) ==
  \E S \in (SUBSET Issues) \ {{}} : \A i \in S : \E j \in S : <<i, j>> \in graph
Cyclic == WaitsInCircle(edges)
-----------------------------------------------------------------------------
(* Calls.                                                                      *)

\* of a call that is over nothing but that is kept
Goes(c, step) == asks' = [asks EXCEPT ![c] = IF step \in {"done", "failed"} THEN [NewCall EXCEPT !.at = step]
                                          ELSE [@ EXCEPT !.at = step]]
InFlight(c) == asks[c].at \notin {"new", "done", "failed"}
history == <<edits, crossed, forgotten>>
Depending(c) == InFlight(c) /\ asks[c].op \in {"add", "remove"}

\* operations on one issue that read its labels first; the others write at once.
\* Linear finds no state for any status, so its calls change nothing.
ReadsFirst(op, s) ==
  \/ provider = "github" /\ (op \in {"block", "approve", "refuse"} \/ <<op, s>> = <<"update", "ready">>)
  \/ provider = "jira" /\ op # "label"

BeginUpdate(c, op, i, s) ==
  /\ asks[c].at = "new" /\ site[i].there
  /\ op \in {"update", "label", "close", "reopen", "block", "approve", "refuse"}
  /\ IF op = "update" THEN s \in Statuses ELSE s = "backlog"
  /\ asks' = [asks EXCEPT ![c] = [NewCall EXCEPT !.op = op, !.task = i, !.status = s,
                                 !.at = IF ReadsFirst(op, s) THEN "reading" ELSE "writing"]]
  /\ UNCHANGED <<provider, site, edges, known, history>>

ReadsLabels(c) ==
  /\ provider = "github" /\ asks[c].at = "reading"
  /\ asks' = [asks EXCEPT ![c].at = "writing", ![c].labels = site[asks[c].task].labels]
  /\ UNCHANGED <<provider, site, edges, known, history>>

\* a transition Jira does not offer from the column of the issue is passed over in silence
ReadsTransitions(c) ==
  /\ provider = "jira" /\ asks[c].at = "reading"
  /\ \E offered \in BOOLEAN : Goes(c, IF offered THEN "writing" ELSE "done")
  /\ UNCHANGED <<provider, site, edges, known, history>>

\* the status each operation asks for
Asked(r) == CASE r.op = "update" -> r.status
              [] r.op = "close" -> "completed"
              [] r.op = "block" -> "blocked"
              [] r.op = "approve" -> "ready"
              [] OTHER -> "backlog"

\* setBlocked leaves the issue open or closed as it is
BlockedLabels(r) == (r.labels \ Dk) \cup {"blocked"}

GithubWritten(i, r) ==
  CASE r.op = "block" -> [i EXCEPT !.labels = BlockedLabels(r)]
    [] r.op = "approve" \/ (r.op = "update" /\ r.status = "ready") ->
         [i EXCEPT !.open = TRUE, !.labels = (r.labels \ Dk) \cup {"ready"}]
    [] r.op = "refuse" -> [i EXCEPT !.open = TRUE, !.labels = r.labels \ Dk]
    [] r.op = "label" -> [i EXCEPT !.labels = {"area"}]
    [] OTHER -> [i EXCEPT !.open = Asked(r) \notin Closing]

Written(i, r) ==
  CASE provider = "github" -> GithubWritten(i, r)
    [] provider = "jira" /\ r.op # "label" -> [i EXCEPT !.column = Asked(r)]
    [] OTHER -> i

Writes(c) ==
  LET i == asks[c].task IN
  /\ asks[c].at = "writing" /\ asks[c].op \notin {"add", "remove"}
  /\ Goes(c, "done")
  /\ site' = [site EXCEPT ![i] = Written(@, asks[c])]
  /\ UNCHANGED <<provider, edges, known, edits, crossed, forgotten>>

\* createTask gives the labels to GitHub alone
CreateTask(c, i, ready) ==
  /\ asks[c].at = "new" /\ ~ site[i].there
  /\ \A j \in Issues : j < i => site[j].there
  /\ asks' = [asks EXCEPT ![c] = [NewCall EXCEPT !.at = "done"]]
  /\ site' = [site EXCEPT ![i] = [there |-> TRUE, open |-> TRUE, column |-> "backlog",
                                  labels |-> IF ready THEN {"ready"} ELSE {}]]
  /\ UNCHANGED <<provider, edges, known, history>>
-----------------------------------------------------------------------------
(* Dependencies.                                                               *)

NotesOverlap == crossed' = (crossed \/ \E d \in Calls : Depending(d))

\* GitHub lists the issues and asks for the dependencies of each; the others look at what
\* they remember and call the server
BeginAdd(c, i, d) ==
  /\ asks[c].at = "new" /\ site[i].there /\ site[d].there
  /\ NotesOverlap
  /\ asks' = [asks EXCEPT ![c] =
       IF provider # "github" /\ WouldCreateCycle(known, i, d) THEN [NewCall EXCEPT !.at = "failed"]
       ELSE [NewCall EXCEPT !.op = "add", !.task = i, !.on = d,
                            !.at = IF provider = "github" THEN "listing" ELSE "writing"]]
  /\ UNCHANGED <<provider, site, edges, known, edits, forgotten>>

Lists(c) ==
  /\ asks[c].at = "listing"
  /\ asks' = [asks EXCEPT ![c].at = "loading", ![c].listed = Listed]
  /\ UNCHANGED <<provider, site, edges, known, history>>

Loads(c) ==
  /\ asks[c].at = "loading" /\ asks[c].listed # {}
  /\ LET i == CHOOSE x \in asks[c].listed : \A y \in asks[c].listed : y <= x IN
       asks' = [asks EXCEPT ![c].listed = @ \ {i},
                          ![c].seen = @ \cup {e \in edges : e[1] = i}]
  /\ UNCHANGED <<provider, site, edges, known, history>>

Checks(c) ==
  /\ asks[c].at = "loading" /\ asks[c].listed = {}
  /\ Goes(c, IF WouldCreateCycle(asks[c].seen, asks[c].task, asks[c].on) THEN "failed" ELSE "looking")
  /\ UNCHANGED <<provider, site, edges, known, history>>

\* an edge that is there is not added, one that is not there not removed
Looks(c) ==
  /\ asks[c].at = "looking"
  /\ Goes(c, IF (<<asks[c].task, asks[c].on>> \in edges) = (asks[c].op = "add") THEN "done" ELSE "asking")
  /\ UNCHANGED <<provider, site, edges, known, history>>

\* the number of the blocker becomes its id
AsksForBlocker(c) ==
  /\ asks[c].at = "asking" /\ Goes(c, "writing")
  /\ UNCHANGED <<provider, site, edges, known, history>>

Edge(c) == <<asks[c].task, asks[c].on>>

AddsEdge(c) ==
  /\ asks[c].at = "writing" /\ asks[c].op = "add" /\ Goes(c, "done")
  /\ edges' = edges \cup {Edge(c)}
  /\ known' = IF provider = "github" THEN known ELSE known \cup {Edge(c)}
  /\ UNCHANGED <<provider, site, history>>

\* removeDependency of Linear and Jira forgets what the server keeps
BeginRemove(c, i, d) ==
  /\ asks[c].at = "new" /\ <<i, d>> \in edges
  /\ NotesOverlap
  /\ asks' = [asks EXCEPT ![c] =
       IF provider # "github" THEN [NewCall EXCEPT !.at = "done"]
       ELSE [NewCall EXCEPT !.op = "remove", !.task = i, !.on = d, !.at = "looking"]]
  /\ known' = known \ {<<i, d>>}
  /\ forgotten' = (forgotten \/ provider # "github")
  /\ UNCHANGED <<provider, site, edges, edits>>

RemovesEdge(c) ==
  /\ asks[c].at = "writing" /\ asks[c].op = "remove" /\ Goes(c, "done")
  /\ edges' = edges \ {Edge(c)}
  /\ UNCHANGED <<provider, site, known, history>>

\* a call the server does not answer: what it asked for may have happened
Fails(c) == /\ InFlight(c) /\ Goes(c, "failed")
            /\ UNCHANGED <<provider, site, edges, known, history>>
AnswerLost(c) ==
  /\ asks[c].at = "writing" /\ asks[c].op = "add" /\ Goes(c, "failed")
  /\ edges' = edges \cup {Edge(c)}
  /\ forgotten' = (forgotten \/ provider # "github")
  /\ UNCHANGED <<provider, site, known, edits, crossed>>
-----------------------------------------------------------------------------
(* The others.                                                                 *)

\* people relabel, close and reopen, and may add a dependency that closes no cycle
PersonEdits(i, open, labels, column) ==
  /\ edits < MaxEdits /\ edits' = edits + 1 /\ site[i].there
  /\ site' = [site EXCEPT ![i] = [there |-> TRUE, open |-> open, labels |-> labels, column |-> column]]
  /\ UNCHANGED <<provider, edges, known, asks, crossed, forgotten>>

PersonLinks(i, d) ==
  /\ edits < MaxEdits /\ edits' = edits + 1
  /\ site[i].there /\ site[d].there /\ ~ WouldCreateCycle(edges, i, d)
  /\ edges' = edges \cup {<<i, d>>}
  /\ NotesOverlap
  /\ forgotten' = (forgotten \/ provider # "github")
  /\ UNCHANGED <<provider, site, known, asks>>

\* the process starts again: what its adapter remembered is gone
Restart ==
  /\ \E c \in Calls : asks[c].at # "new"
  /\ known' = {}
  /\ forgotten' = (forgotten \/ (provider # "github" /\ edges # {}))
  /\ asks' = [c \in Calls |-> IF InFlight(c) THEN [NewCall EXCEPT !.at = "failed"] ELSE asks[c]]
  /\ UNCHANGED <<provider, site, edges, edits, crossed>>
-----------------------------------------------------------------------------
TrackerNext ==
  \/ \E c \in Calls :
       \/ \E op \in Ops, i \in Issues, s \in Columns : BeginUpdate(c, op, i, s)
       \/ \E i \in Issues, ready \in BOOLEAN : CreateTask(c, i, ready)
       \/ \E i, d \in Issues : BeginAdd(c, i, d) \/ BeginRemove(c, i, d)
       \/ ReadsLabels(c) \/ ReadsTransitions(c) \/ Writes(c)
       \/ Lists(c) \/ Loads(c) \/ Checks(c) \/ Looks(c) \/ AsksForBlocker(c)
       \/ AddsEdge(c) \/ RemovesEdge(c) \/ Fails(c) \/ AnswerLost(c)
  \/ \E i \in Issues : \/ PersonEdits(i, TRUE, {"ready", "area"}, "ready")
                        \/ PersonEdits(i, FALSE, {}, "completed")
  \/ \E i, d \in Issues : PersonLinks(i, d)
  \/ Restart

TrackerSpec == Init /\ [][TrackerNext]_trackerVars
-----------------------------------------------------------------------------
\* Dependencies form no cycle, whatever was added, removed and cut off: one can close only
\* when two changes crossed, when Linear's or Jira's adapter no longer knows a dependency
\* of the server, or when GitHub has more issues than a listing returns.
CyclesNeedABlindSpot ==
  Cyclic => \/ crossed \/ forgotten
            \/ provider = "github" /\ Cardinality({i \in Issues : site[i].there}) > PageSize
=============================================================================
