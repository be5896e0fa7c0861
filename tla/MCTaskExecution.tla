--------------------------- MODULE MCTaskExecution ---------------------------
(* Instances of TaskExecution. *)
EXTENDS TaskExecution

Flow(builtin, default, priority, any, all) ==
  [builtin |-> builtin, default |-> default, priority |-> priority,
   selects |-> any \cup all # {}, any |-> any, all |-> all]

\* The default workflow, the one for designs, and the one for risky changes,
\* which two rules select and which wins over the one for designs.
MCWorkflows == <<Flow("design-frontend", FALSE, 1, {"ui", "risky"}, {}),
                 Flow("default", TRUE, 0, {}, {}),
                 Flow("high-risk", FALSE, 2, {}, {"risky"})>>

View(labels, profile) == [labels |-> labels, profile |-> profile]
MCViews == {View({}, TRUE), View({"ui"}, TRUE), View({"ui", "risky"}, FALSE)}

\* Someone makes a design task of the plain one, and a plain one of it again.
MCEditsOf == [v \in MCViews |-> {w \in MCViews : w.profile /\ v.profile /\ w # v}]
=============================================================================
