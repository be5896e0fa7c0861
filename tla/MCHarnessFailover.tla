-------------------------- MODULE MCHarnessFailover --------------------------
(* Instances of HarnessFailover. *)
EXTENDS HarnessFailover

\* The second candidate has no restoreSession.
ThreeCandidates == 1..3
FirstAndLast == {1, 3}
=============================================================================
