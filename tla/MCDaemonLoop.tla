---------------------------- MODULE MCDaemonLoop ----------------------------
(***************************************************************************)
(* Small instances of DaemonLoop for TLC.                                  *)
(***************************************************************************)
EXTENDS DaemonLoop

CONSTANTS a, b, c     \* tasks

\* a blocks b; c, when present, is independent of both.
ChainAB == {<<a, b>>}
NoBlocks == {}

OneSlot == {1}
TwoSlots == {1, 2}

NoEdits == {}
Reopening == {<<"completed", "ready">>}
=============================================================================
