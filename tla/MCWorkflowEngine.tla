--------------------------- MODULE MCWorkflowEngine ---------------------------
(***************************************************************************)
(* Two branches on two slots, in two rounds: a branch left over from the   *)
(* failed round competes with the next round for the semaphore. The body's  *)
(* call is retried, and the second execution of the run may be cancelled   *)
(* in its first round.                                                     *)
(***************************************************************************)
EXTENDS WorkflowEngine

MCAttempts == [b \in 0..Branches |-> IF b = 0 THEN 2 ELSE 1]
MCCancelIn == {<<2, 1>>}
===============================================================================
