----------------------------- MODULE DurableCalls -----------------------------
(***************************************************************************)
(* What the workflow engine promises about the agent calls of one run,     *)
(* whatever interrupts the run and however often it is started again: a    *)
(* call is made at most once at a time, on one of a fixed number of slots, *)
(* and a call whose answer was recorded is never made again.               *)
(*                                                                         *)
(* WorkflowEngine implements it (property Implements there).               *)
(***************************************************************************)
EXTENDS Naturals, FiniteSets

CONSTANTS
  Calls,      \* the call keys
  Slots       \* calls that may be executing at once

VARIABLE state

States == {"idle", "executing", "answered", "recorded"}

Init == state = [c \in Calls |-> "idle"]

Busy == {c \in Calls : state[c] = "executing"}

Move(c, from, to) == state[c] = from /\ state' = [state EXCEPT ![c] = to]

\* A harness is given the call.
Execute(c) == Move(c, "idle", "executing") /\ Cardinality(Busy) < Slots

\* The harness has answered, and the slot is free for another call,
Answer(c) == Move(c, "executing", "answered")

\* ... and the answer is durable: nothing leads out of "recorded".
Record(c) == Move(c, "answered", "recorded")

\* Failures, cancellation and crashes forget calls that were not recorded.
Interrupt ==
  \E S \in SUBSET {c \in Calls : state[c] \in {"executing", "answered"}} :
    state' = [c \in Calls |-> IF c \in S THEN "idle" ELSE state[c]]

Next == Interrupt \/ \E c \in Calls : Execute(c) \/ Answer(c) \/ Record(c)

Spec == Init /\ [][Next]_state
===============================================================================
