------------------------------- MODULE MCRoom -------------------------------
(* Room on a small instance. *)
EXTENDS Room, TLC

\* Sessions differ only by name, and so do calls.
Symmetry == Permutations(Sessions) \cup Permutations(Calls)
=============================================================================
