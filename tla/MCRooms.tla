------------------------------ MODULE MCRooms ------------------------------
(* The players, who are alike. *)
EXTENDS Rooms, TLC

CONSTANTS a, b

Alike == Permutations(Players)
=============================================================================
