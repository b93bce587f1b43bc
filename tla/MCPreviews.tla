----------------------------- MODULE MCPreviews -----------------------------
(* Two files of five seconds and a cache of two: entries close to each      *)
(* other, entries that push each other out.                                 *)
EXTENDS Previews
MCTimes == 0..4
=============================================================================
