------------------------- MODULE MCBracketGeneration -------------------------
(* Brackets of up to 17 participants; seeds of both signs for up to four.   *)
EXTENDS BracketGeneration

MCSeedValues == {-3, -1, 1, 2}
=============================================================================
