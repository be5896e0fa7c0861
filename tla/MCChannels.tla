------------------------------ MODULE MCChannels ------------------------------
(* Instances of Channels. *)
EXTENDS Channels

CONSTANTS r1, r2

\* the first reply may be delivered twice
FirstTwice == {<<r1, 1>>, <<r1, 2>>, <<r2, 1>>}
=============================================================================
