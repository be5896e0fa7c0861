----------------------------- MODULE GateDecision -----------------------------
(***************************************************************************)
(* What an approval gate promises for its task, whoever answers, how often *)
(* and how much at once, and wherever the daemon dies:                     *)
(*   - it is decided once, by an answer to a question that was asked, and  *)
(*     the decision is never taken back or turned into another;            *)
(*   - the work behind the gate begins only when it was approved.          *)
(*                                                                         *)
(* ApprovalGate implements it in detail (property GateDecides there), and  *)
(* so does DaemonLoop for each gated task (GatesDecide), which takes the   *)
(* gate by its effects.                                                    *)
(***************************************************************************)

VARIABLES
  verdict,   \* "none" before the question, "open", "approved" or "rejected"
  behind     \* is the task at work behind its gate?

vars == <<verdict, behind>>

Init == verdict = "none" /\ behind = FALSE

Ask == verdict = "none" /\ verdict' = "open" /\ UNCHANGED behind

Decide ==
  /\ verdict = "open"
  /\ verdict' \in {"approved", "rejected"}
  /\ UNCHANGED behind

Pass == verdict = "approved" /\ behind' = TRUE /\ UNCHANGED verdict

\* The work is over, has failed, or dies with the daemon.
Leave == behind' = FALSE /\ UNCHANGED verdict

Next == Ask \/ Decide \/ Pass \/ Leave

Spec == Init /\ [][Next]_vars
===============================================================================
