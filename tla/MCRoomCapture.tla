--------------------------- MODULE MCRoomCapture ---------------------------
(* RoomCapture on a small instance. *)
EXTENDS RoomCapture, TLC

\* Sessions differ only by name.
Symmetry == Permutations(Sessions)
=============================================================================
