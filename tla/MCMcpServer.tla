---------------------------- MODULE MCMcpServer ----------------------------
(* McpServer on a small instance. *)
EXTENDS McpServer, TLC

\* Bound: the viewer's connection ends when it leaves, and not before.
ViewerStaysUp == \A s \in Sessions : conn[s] # "down"

MCSpec == McpInit /\ [][McpNext /\ ViewerStaysUp']_mcpAll

\* Connections differ only by name, and so do requests that have an id.
Symmetry == Permutations(Links) \cup Permutations(Calls \ Unnamed)
=============================================================================
