----------------------------- MODULE MCEventHub -----------------------------
(* EventHub on a small instance. *)
EXTENDS EventHub, TLC

\* Broadcasting goroutines, and requests, differ only by name.
Symmetry == Permutations(Broadcasts) \cup Permutations(Requests)

\* The invariants of the pass run do not read freed, and no guard does.
WithoutFreed == <<room, cast, hub, request, watching, source, quiet>>
=============================================================================
