------------------------------ MODULE SeekPark ------------------------------
(***************************************************************************)
(* The handshake that gives a seek the video decoder to itself: the demux  *)
(* thread raises video_decode_hold, sleeps 5 ms, waits for                 *)
(* video_decode_parked, flushes the decoder and lowers the hold            *)
(* (media/src/evo_demux.c); the decode thread parks on the hold and reads  *)
(* it again before every decoder call (media/src/evo_playback.c).  Both    *)
(* flags are plain volatile ints.                                          *)
(*                                                                         *)
(* The decode thread's last store to video_decode_parked may wait in the   *)
(* store buffer of its core, which a sleep drains.  A decoder call ends    *)
(* within the demux thread's 2 s limit unless the decoder is wedged.       *)
(***************************************************************************)
EXTENDS Naturals

VARIABLES running,     \* video_thread_running
          hold,        \* video_decode_hold
          parked,      \* video_decode_parked, as the demux thread reads it
          buffered,    \* the decode thread's store to it not yet visible
          undrained,   \* that store is older than the hold
          paused,      \* player_paused
          otherHold,   \* prebuffer or scrub hold, off screen, or not ready
          vpc,         \* where the decode thread is
          spc,         \* where the demux thread is in a seek
          timedOut     \* the seek in progress gave up waiting

parkFlags == <<running, paused, otherHold>>
parkVars == <<parkFlags, hold, parked, buffered, undrained, vpc, spc, timedOut>>

NoStore == "none"

ParkInit ==
  /\ running = FALSE
  /\ hold = FALSE
  /\ parked = TRUE
  /\ buffered = NoStore
  /\ undrained = FALSE
  /\ paused \in BOOLEAN
  /\ otherHold \in BOOLEAN
  /\ vpc = "exited"
  /\ spc = "idle"
  /\ timedOut = FALSE
-----------------------------------------------------------------------------
(* The store buffer *)

StoreParked(v) ==
  /\ buffered = NoStore
  /\ buffered' = (IF v THEN "set" ELSE "clear")
  /\ UNCHANGED <<parked, undrained>>

Drain ==
  /\ buffered # NoStore
  /\ parked' = (buffered = "set")
  /\ buffered' = NoStore
  /\ undrained' = FALSE
  /\ UNCHANGED <<parkFlags, hold, vpc, spc, timedOut>>
-----------------------------------------------------------------------------
(***************************************************************************)
(* video_decode_thread_func.  "test" is the loop's condition and the hold  *)
(* test, "park" and "rest" are its two sleeps, "recheck" is the test at    *)
(* the head of an attempt in decode_next_video_frame, "decode" the decoder *)
(* calls of that attempt.                                                  *)
(***************************************************************************)
decodeFrame == <<parkFlags, hold, spc, timedOut>>

ExitThread ==
  /\ vpc = "test"
  /\ ~running
  /\ vpc' = "exited"
  /\ UNCHANGED <<decodeFrame, parked, buffered, undrained>>

\* Faulty variant: the loop does not test video_decode_hold.
MustParkUnheld == paused \/ otherHold

MustPark == hold \/ paused \/ otherHold

TestHolds ==
  /\ vpc = "test"
  /\ running
  /\ vpc' = (IF MustPark THEN "toPark" ELSE "unpark")
  /\ UNCHANGED <<decodeFrame, parked, buffered, undrained>>

Park ==
  /\ vpc = "toPark"
  /\ StoreParked(TRUE)
  /\ vpc' = "park"
  /\ UNCHANGED decodeFrame

Unpark ==
  /\ vpc = "unpark"
  /\ StoreParked(FALSE)
  /\ vpc' = "recheck"
  /\ UNCHANGED decodeFrame

MustLeave == paused \/ hold

Recheck ==
  /\ vpc = "recheck"
  /\ vpc' = (IF MustLeave THEN "rest" ELSE "decode")
  /\ UNCHANGED <<decodeFrame, parked, buffered, undrained>>

\* Another attempt after EAGAIN, or the frame is out, or no packet is there.
DecodeReturns ==
  /\ vpc \in {"decode", "wedged"}
  /\ vpc' \in {"recheck", "rest"}
  /\ UNCHANGED <<decodeFrame, parked, buffered, undrained>>

\* The decoder stops answering; the call may still return much later.
Wedge ==
  /\ vpc = "decode"
  /\ vpc' = "wedged"
  /\ UNCHANGED <<decodeFrame, parked, buffered, undrained>>

Wake ==
  /\ vpc \in {"park", "rest"}
  /\ buffered = NoStore
  /\ vpc' = "test"
  /\ UNCHANGED <<decodeFrame, parked, buffered, undrained>>
-----------------------------------------------------------------------------
(***************************************************************************)
(* prospero_process_seek_request, on the demux thread.                     *)
(***************************************************************************)
\* The demux thread runs with the decode thread, or alone for audio.
TakeSeek ==
  /\ spc = "idle"
  /\ running \/ vpc = "exited"
  /\ spc' = "raise"
  /\ timedOut' = FALSE
  /\ UNCHANGED <<parkFlags, hold, parked, buffered, undrained, vpc>>

Raise ==
  /\ spc = "raise"
  /\ hold' = TRUE
  /\ undrained' = (buffered # NoStore)
  /\ spc' = "settle"
  /\ UNCHANGED <<parkFlags, parked, buffered, vpc, timedOut>>

\* Faulty variant of Settle: no usleep before the flag is read.
SettleUnslept ==
  /\ spc = "settle"
  /\ spc' = (IF running THEN "wait" ELSE "touch")
  /\ UNCHANGED <<parkFlags, hold, parked, buffered, undrained, vpc, timedOut>>

\* usleep(5000): longer than any store stays in a buffer.
Settle ==
  /\ spc = "settle"
  /\ ~undrained
  /\ spc' = (IF running THEN "wait" ELSE "touch")
  /\ UNCHANGED <<parkFlags, hold, parked, buffered, undrained, vpc, timedOut>>

SeeParked ==
  /\ spc = "wait"
  /\ parked
  /\ spc' = "touch"
  /\ UNCHANGED <<parkFlags, hold, parked, buffered, undrained, vpc, timedOut>>

\* 2000 waits of 1 ms: only a wedged decoder leaves the flag down that long.
GiveUp ==
  /\ spc = "wait"
  /\ ~parked
  /\ vpc = "wedged"
  /\ spc' = "touch"
  /\ timedOut' = TRUE
  /\ UNCHANGED <<parkFlags, hold, parked, buffered, undrained, vpc>>

\* Faulty variant of Lower: an error path that leaves the hold raised.
LowerNot ==
  /\ spc = "touch"
  /\ spc' = "restore"
  /\ UNCHANGED <<parkFlags, hold, parked, buffered, undrained, vpc, timedOut>>

\* The flush is done: the hold is lowered, then player_paused is set from
\* the seek's restore_paused.
Lower ==
  /\ spc = "touch"
  /\ hold' = FALSE
  /\ spc' = "restore"
  /\ UNCHANGED <<parkFlags, parked, buffered, undrained, vpc, timedOut>>

Restore ==
  /\ spc = "restore"
  /\ paused' \in BOOLEAN
  /\ spc' = "idle"
  /\ UNCHANGED <<running, otherHold, hold, parked, buffered, undrained, vpc, timedOut>>
-----------------------------------------------------------------------------
(***************************************************************************)
(* The other threads: pauses and holds come and go at any time;            *)
(* stopPlayback joins the demux thread before it stops the decode thread;  *)
(* the next file starts a new one with the flags as they were left.        *)
(***************************************************************************)
Toggle ==
  /\ paused' \in BOOLEAN
  /\ otherHold' \in BOOLEAN
  /\ UNCHANGED <<running, hold, parked, buffered, undrained, vpc, spc, timedOut>>

StopVideo ==
  /\ running
  /\ spc = "idle"
  /\ running' = FALSE
  /\ UNCHANGED <<paused, otherHold, hold, parked, buffered, undrained, vpc, spc, timedOut>>

StartVideo ==
  /\ ~running
  /\ vpc = "exited"
  /\ spc = "idle"
  /\ running' = TRUE
  /\ vpc' = "test"
  /\ UNCHANGED <<paused, otherHold, hold, parked, buffered, undrained, spc, timedOut>>
-----------------------------------------------------------------------------
DecodeThread == \/ ExitThread \/ TestHolds \/ Park \/ Unpark \/ Recheck \/ Wake

DemuxThread == Raise \/ Settle \/ SeeParked \/ GiveUp \/ Lower \/ Restore

ParkNext == \/ DecodeThread \/ DecodeReturns \/ Wedge
        \/ DemuxThread \/ TakeSeek
        \/ Drain
        \/ Toggle \/ StopVideo \/ StartVideo

ParkFairness ==
  /\ WF_parkVars(DecodeThread)
  /\ WF_parkVars(vpc = "decode" /\ DecodeReturns)
  /\ WF_parkVars(DemuxThread)
  /\ WF_parkVars(Drain)

ParkSpec == ParkInit /\ [][ParkNext]_parkVars /\ ParkFairness
-----------------------------------------------------------------------------
(* Properties *)

ParkTypeOK ==
  /\ running \in BOOLEAN /\ hold \in BOOLEAN /\ parked \in BOOLEAN
  /\ buffered \in {NoStore, "set", "clear"} /\ undrained \in BOOLEAN
  /\ paused \in BOOLEAN /\ otherHold \in BOOLEAN /\ timedOut \in BOOLEAN
  /\ vpc \in {"exited", "test", "toPark", "park", "unpark", "recheck",
              "decode", "wedged", "rest"}
  /\ spc \in {"idle", "raise", "settle", "wait", "touch", "restore"}

InDecoder == vpc \in {"decode", "wedged"}

(***************************************************************************)
(* While a seek flushes the decoder and frees the packet in hand, the      *)
(* decode thread is not in a decoder call, unless the seek gave up waiting *)
(* for a wedged one: the crash of #94 that the hold was added for.         *)
(***************************************************************************)
ExclusiveUse == (spc = "touch" /\ ~timedOut) => ~InDecoder

(***************************************************************************)
(* A seek the demux thread took always ends.  Only a wedged decoder makes  *)
(* it sit out its limit: a decode thread that runs always gets to park.    *)
(***************************************************************************)
SeekEnds == spc # "idle" ~> spc = "idle"

(***************************************************************************)
(* The picture comes back: once seeks, pauses and other holds stop, the    *)
(* decode thread enters the decoder again and again.                       *)
(***************************************************************************)
Quiet == running /\ spc = "idle" /\ ~paused /\ ~otherHold
PictureResumes == <>[]Quiet => []<>InDecoder
=============================================================================
