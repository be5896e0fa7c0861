------------------------------- MODULE TaskBoard -------------------------------
(***************************************************************************)
(* What the daemon promises to the people who watch the tracker, however   *)
(* its polls overlap and wherever it dies:                                 *)
(*   - a task is begun only after all that blocks it was completed, and    *)
(*     never while it is at work already;                                  *)
(*   - no more tasks are at work than the limit allows;                    *)
(*   - only a task at work is proposed, completed or asked about;          *)
(*   - no task is dropped: work on it ends with the task completed, with a *)
(*     question to a person, or with a pull request for a person to merge. *)
(*                                                                         *)
(* DaemonLoop implements it (property KeepsTheBoard there).                *)
(***************************************************************************)
EXTENDS Naturals, FiniteSets

CONSTANTS
  Tasks,      \* the tracker's tasks
  Blocks,     \* <<blocker, blocked>>
  Limit       \* tasks that may be at work at the same time

VARIABLES
  working,    \* tasks at work
  done,       \* tasks that were completed
  asked,      \* tasks with a question a person can answer
  proposed,   \* tasks with a pull request
  alive       \* is the daemon up?

vars == <<working, done, asked, proposed, alive>>

Init == ~alive /\ working = {} /\ done = {} /\ asked = {} /\ proposed = {}

Blockers(t) == {b \in Tasks : <<b, t>> \in Blocks}

\* A poll begins several tasks at a time, and so does a daemon that comes up.
Begin(S) ==
  /\ S \cap working = {}
  /\ \A t \in S : Blockers(t) \subseteq done
  /\ Cardinality(working \cup S) <= Limit
  /\ working' = working \cup S /\ alive'
  /\ UNCHANGED <<done, asked, proposed>>

\* A new execution takes the questions of the last one back.
Ask(t) == t \in working /\ asked' = asked \cup {t} /\ UNCHANGED <<working, done, proposed, alive>>
TakeBack(t) == t \in working /\ asked' = asked \ {t} /\ UNCHANGED <<working, done, proposed, alive>>

Propose(t) == t \in working /\ proposed' = proposed \cup {t} /\ UNCHANGED <<working, done, asked, alive>>
Complete(t) == t \in working /\ done' = done \cup {t} /\ UNCHANGED <<working, asked, proposed, alive>>

Leave(t) ==
  /\ t \in working \cap (done \cup asked \cup proposed)
  /\ working' = working \ {t}
  /\ UNCHANGED <<done, asked, proposed, alive>>

\* What was at work is begun again when the daemon is back, in one step.
Die == alive /\ ~alive' /\ working' = {} /\ UNCHANGED <<done, asked, proposed>>

Next ==
  \/ \E S \in SUBSET Tasks : Begin(S)
  \/ \E t \in Tasks : Ask(t) \/ TakeBack(t) \/ Propose(t) \/ Complete(t) \/ Leave(t)
  \/ Die

Spec == Init /\ [][Next]_vars
===============================================================================
