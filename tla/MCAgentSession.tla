--------------------------- MODULE MCAgentSession ---------------------------
(* Instances of AgentSession: its bounds are set in the configurations. *)
EXTENDS AgentSession
=============================================================================
