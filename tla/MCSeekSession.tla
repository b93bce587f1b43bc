---------------------------- MODULE MCSeekSession ----------------------------
(* Model checking of seek sessions: a short file, and where seeks go in it. *)
EXTENDS SeekSession

\* Backward seeks, and seeks to the end of the file, which are cut short.
SomeTargets == {1, 4}
=============================================================================
