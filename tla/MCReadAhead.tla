----------------------------- MODULE MCReadAhead -----------------------------
(* A file of seven units and a seek into it.  Caps of three and two packets *)
(* let both targets of the hold (1 and 2) lie below the video cap, and both *)
(* overshoot limits (6 and 4) lie within reach.  Audio may lie five units   *)
(* ahead: as much as the audio queue at its limit and the PCM ring hold.    *)
EXTENDS ReadAhead

MCTargets == {3}
=============================================================================
