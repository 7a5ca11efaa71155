--------------------------- MODULE MCRoomObject ---------------------------
(* Two devices. *)
EXTENDS RoomObject, TLC
CONSTANTS a, b
Symmetry == Permutations({a, b})
=============================================================================
