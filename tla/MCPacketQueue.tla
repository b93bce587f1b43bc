--------------------------- MODULE MCPacketQueue ---------------------------
(* Two slots over a ring of seven units.  With the two paddings and the    *)
(* header a payload of 1 byte takes three units and one of 65 four, so two *)
(* packets fill the ring, a third falls back to a reference, and a decoder *)
(* that frees its two packets in either order leaves pads and holes.       *)
(* Durations lie below zero, in range, and above the clamp (DurMax = 2).   *)
EXTENDS PacketQueue

MCDurations == {0 - 1, 5}
=============================================================================
