--------------------------- MODULE MCAgentClient ---------------------------
(* AgentClient on a small instance. *)
EXTENDS AgentClient
=============================================================================
