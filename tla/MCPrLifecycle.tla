---------------------------- MODULE MCPrLifecycle ----------------------------
(***************************************************************************)
(* Small instances of PrLifecycle for TLC.                                 *)
(***************************************************************************)
EXTENDS PrLifecycle

Proof(passed, evidence) == [passed |-> passed, evidence |-> evidence]
Good == [tests |-> TRUE, review |-> TRUE, clean |-> TRUE, noCode |-> FALSE, commits |-> TRUE,
         fresh |-> TRUE, proofs |-> <<Proof(TRUE, TRUE)>>]
Resumed == [Good EXCEPT !.fresh = FALSE]

\* A retry that replays its journal pushes nothing new.
CodeResults == {Good, Resumed}

\* Every gate, failing alone, and what passes it.
AllResults ==
  {Good, Resumed,
   [Good EXCEPT !.tests = FALSE], [Good EXCEPT !.review = FALSE], [Good EXCEPT !.clean = FALSE],
   [Good EXCEPT !.commits = FALSE], [Good EXCEPT !.noCode = TRUE],
   [Good EXCEPT !.noCode = TRUE, !.commits = FALSE],
   [Good EXCEPT !.noCode = TRUE, !.commits = FALSE, !.proofs = <<Proof(TRUE, TRUE), Proof(FALSE, TRUE)>>],
   [Good EXCEPT !.proofs = <<>>], [Good EXCEPT !.proofs = <<Proof(TRUE, FALSE)>>],
   [Good EXCEPT !.proofs = <<Proof(TRUE, TRUE), Proof(FALSE, TRUE)>>],
   [Good EXCEPT !.proofs = <<Proof(FALSE, TRUE), Proof(TRUE, TRUE)>>]}
=============================================================================
