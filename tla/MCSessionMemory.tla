--------------------------- MODULE MCSessionMemory ---------------------------
(* Three requests of one session and a window of one turn: two may overlap   *)
(* while a third runs before, between or after them.                         *)
EXTENDS SessionMemory, TLC

RequestSymmetry == Permutations(Requests)
=============================================================================
