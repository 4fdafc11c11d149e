---------------------------- MODULE MCAgentLoop ----------------------------
(* AgentLoop on a small instance. *)
EXTENDS AgentLoop
=============================================================================
