--------------------------- MODULE MCCalendarStore ---------------------------
(* Three turns on the table of one date: enough for two creations to meet on *)
(* one id and for a third turn to delete what one of them is reading back.   *)
(* Events say two things, so that one update can leave another's field alone. *)
EXTENDS CalendarStore, TLC

TurnSymmetry == Permutations(Turns) \cup Permutations(Values)
=============================================================================
