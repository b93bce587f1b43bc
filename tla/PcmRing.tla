------------------------------ MODULE PcmRing ------------------------------
(***************************************************************************)
(* The ring of decoded sound between audio_decode_thread_func and          *)
(* audio_output_thread (media/src/evo_audio_out.c).  Its count is a plain  *)
(* volatile int that both threads step without a lock, a load and a store  *)
(* each, and that a seek on the demux thread sets to zero, with both       *)
(* indices, while they may be anywhere (media/src/evo_demux.c).            *)
(***************************************************************************)
EXTENDS Integers

CONSTANTS Blocks,  \* AUDIO_QUEUE_BLOCKS
          Brim,    \* free blocks mix_audio_frame_to_queue waits for: two
          Low,     \* count above which no packet is decoded: ten
          Burst    \* blocks one packet may decode to, at most

ASSUME PcmAssumption ==
  /\ {Blocks, Brim, Low, Burst} \subseteq Nat \ {0}
  /\ Brim < Blocks /\ Low < Blocks - Brim

VARIABLES pcmCount, readAt, writeAt, \* audio_queue_count, _read, _write
          pushPc, pushed,            \* the decode thread, and the count it has loaded
          playPc, played,            \* the output thread, likewise
          resetPc,                   \* the seek's three stores
          owing                      \* blocks of the packet in hand still to push

pcmVars == <<pcmCount, readAt, writeAt, pushPc, pushed, playPc, played, resetPc, owing>>
pushVars == <<pushPc, pushed, owing>>
playVars == <<playPc, played>>

PcmInit ==
  /\ pcmCount = 0 /\ readAt = 0 /\ writeAt = 0
  /\ pushPc = "packet" /\ pushed = 0 /\ owing = 0
  /\ playPc = "look" /\ played = 0
  /\ resetPc = "none"
-----------------------------------------------------------------------------
(***************************************************************************)
(* The decode thread.                                                      *)
(***************************************************************************)
\* It waits until little is left to play, then decodes one packet.
DecodePacket ==
  /\ pushPc = "packet"
  /\ pcmCount <= Low
  /\ owing' \in 0..Burst
  /\ pushPc' = IF owing' = 0 THEN "packet" ELSE "room"
  /\ UNCHANGED <<pcmCount, readAt, writeAt, pushed, playVars, resetPc>>

\* Faulty variant: the wait for room is given up, as audio_queue_push's own is, and the block pushed.
SeeRoomAlways ==
  /\ pushPc = "room"
  /\ pushPc' = "store"
  /\ UNCHANGED <<pcmCount, readAt, writeAt, pushed, owing, playVars, resetPc>>

\* mix_audio_frame_to_queue waits for room; audio_queue_push's own test passes then.
SeeRoom ==
  /\ pushPc = "room"
  /\ pcmCount < Blocks - Brim
  /\ pushPc' = "store"
  /\ UNCHANGED <<pcmCount, readAt, writeAt, pushed, owing, playVars, resetPc>>

\* audio_queue_push: the block, the index, and the count's load ...
PushBlock ==
  /\ pushPc = "store"
  /\ writeAt' = (writeAt + 1) % Blocks
  /\ pushPc' = "load"
  /\ UNCHANGED <<pcmCount, readAt, pushed, owing, playVars, resetPc>>

PushLoad ==
  /\ pushPc = "load"
  /\ pushed' = pcmCount
  /\ pushPc' = "add"
  /\ UNCHANGED <<pcmCount, readAt, writeAt, owing, playVars, resetPc>>

\* ... and its store.
PushAdd ==
  /\ pushPc = "add"
  /\ pcmCount' = pushed + 1
  /\ pushed' = 0
  /\ owing' = owing - 1
  /\ pushPc' = IF owing = 1 THEN "packet" ELSE "room"
  /\ UNCHANGED <<readAt, writeAt, playVars, resetPc>>
-----------------------------------------------------------------------------
(***************************************************************************)
(* The output thread.  With nothing counted it plays silence.              *)
(***************************************************************************)
\* Faulty variant: a count that is off is not zero.
LookNotZero ==
  /\ playPc = "look"
  /\ pcmCount # 0
  /\ playPc' = "play"
  /\ UNCHANGED <<pcmCount, readAt, writeAt, pushVars, played, resetPc>>

Look ==
  /\ playPc = "look"
  /\ pcmCount > 0
  /\ playPc' = "play"
  /\ UNCHANGED <<pcmCount, readAt, writeAt, pushVars, played, resetPc>>

PlayBlock ==
  /\ playPc = "play"
  /\ readAt' = (readAt + 1) % Blocks
  /\ playPc' = "load"
  /\ UNCHANGED <<pcmCount, writeAt, pushVars, played, resetPc>>

PlayLoad ==
  /\ playPc = "load"
  /\ played' = pcmCount
  /\ playPc' = "subtract"
  /\ UNCHANGED <<pcmCount, readAt, writeAt, pushVars, resetPc>>

PlaySubtract ==
  /\ playPc = "subtract"
  /\ pcmCount' = played - 1
  /\ played' = 0
  /\ playPc' = "look"
  /\ UNCHANGED <<readAt, writeAt, pushVars, resetPc>>
-----------------------------------------------------------------------------
\* prospero_process_seek_request's three stores, in this order.
ResetCount ==
  /\ resetPc = "none"
  /\ pcmCount' = 0
  /\ resetPc' = "read"
  /\ UNCHANGED <<readAt, writeAt, pushVars, playVars>>

ResetRead ==
  /\ resetPc = "read"
  /\ readAt' = 0
  /\ resetPc' = "write"
  /\ UNCHANGED <<pcmCount, writeAt, pushVars, playVars>>

ResetWrite ==
  /\ resetPc = "write"
  /\ writeAt' = 0
  /\ resetPc' = "none"
  /\ UNCHANGED <<pcmCount, readAt, pushVars, playVars>>

PushThread == DecodePacket \/ SeeRoom \/ PushBlock \/ PushLoad \/ PushAdd
PlayThread == Look \/ PlayBlock \/ PlayLoad \/ PlaySubtract

PcmNext == \/ PushThread \/ PlayThread
           \/ ResetCount \/ ResetRead \/ ResetWrite

PcmSpec == PcmInit /\ [][PcmNext]_pcmVars
-----------------------------------------------------------------------------
\* However many updates of the count are lost and whenever seeks reset the
\* ring, the count never leaves -1 .. Blocks - Brim: it cannot drift to where
\* the decode thread waits for ever, nor to where the ring would seem to hold
\* more blocks than it has; one push brings a negative count back.  What it
\* counts may be off, and both indices stay inside the ring.
CountBounded ==
  /\ pcmCount \in -1..(Blocks - Brim)
  /\ readAt \in 0..(Blocks - 1) /\ writeAt \in 0..(Blocks - 1)
=============================================================================
