------------------------------ MODULE ReadAhead ------------------------------
(***************************************************************************)
(* How packets flow from the demuxer to picture and sound.  The demux      *)
(* thread reads packets in file order and waits for room in the packet     *)
(* queues (media/src/evo_demux.c); the video decode thread shows frames    *)
(* (media/src/evo_playback.c); the audio decode thread fills the PCM ring  *)
(* and the audio output thread plays it (media/src/evo_audio_out.c).  The  *)
(* four wait for each other, and for the pre-buffer hold, pauses, scrubs   *)
(* and seeks: every wait must have a way out.                              *)
(*                                                                         *)
(* A file has N frames of video and as many packets of audio, one of each  *)
(* per unit of time.  Queues are measured in packets (the byte caps work   *)
(* alike).  A time limit or a count of idle polls is an action that may    *)
(* happen while the wait lasts.  The inside of a seek is the subject of    *)
(* SeekPark and SeekSession: here it is one step.                          *)
(***************************************************************************)
EXTENDS Integers

CONSTANTS N,              \* length of the file
          Skew,           \* how far one stream may lie ahead of the other
          VCap, ACap,     \* video_packet_cap, audio_packet_cap
          StarveLow,      \* DEMUX_STARVE_LOW_PACKETS
          PcmHigh,        \* PCM blocks above which no audio packet is taken
          PrePackets,     \* pb_prebuffer_packets
          RebufPackets,   \* pb_rebuffer_packets
          LowPackets,     \* pb_rebuffer_low_packets
          Settle, Lead,   \* EVO_AV_SYNC_SETTLE_SEC, EVO_AV_AUDIO_LEAD_MAX_SEC
          Network,        \* pb_rebuffer_enabled
          RunUp,          \* how far a keyframe may lie before a target
          Targets,        \* where seeks may go
          MaxSeeks        \* bound: seeks requested

ASSUME FileAssumption ==
  /\ N \in Nat \ {0} /\ Skew \in Nat \ {0} /\ RunUp \in Nat
  /\ Targets \subseteq 0 .. (N - 1) /\ MaxSeeks \in Nat
ASSUME CapAssumption ==
  /\ VCap \in Nat \ {0, 1} /\ ACap \in Nat \ {0, 1}
  /\ PcmHigh \in Nat /\ Settle \in Nat /\ Lead \in Nat /\ Network \in BOOLEAN
ASSUME MarkAssumption ==
  /\ StarveLow \in Nat \ {0} /\ LowPackets \in Nat
  /\ LowPackets < PrePackets /\ LowPackets < RebufPackets /\ LowPackets < VCap - 1

VARIABLES vRead, aRead,   \* packets of each stream queued since the file's start
          vq, aq,         \* video_packet_queue, audio_packet_queue
          pcm,            \* audio_queue_count
          inHand,         \* the stream of the packet the demux thread holds
          done,           \* video_decode_done
          hold,           \* pb_prebuffer_hold
          rebuffer,       \* pb_hold_is_rebuffer
          expired,        \* the hold's deadline has passed
          pending,        \* prospero_seek_pending and its target
          target,         \* audio_seek_discard_until, seek_target_us
          discarding,     \* seek_discarding
          anchor,         \* first_video_pts_seconds
          still,          \* video_stuck_iters has reached its limit
          paused, scrub,  \* player_paused, pb_scrub_hold
          seeks           \* seeks requested

file == <<vRead, aRead>>
queues == <<vq, aq, pcm>>
holding == <<hold, rebuffer, expired>>
window == <<target, discarding, anchor>>
ui == <<paused, scrub, seeks>>
vars == <<file, queues, inHand, done, holding, pending, window, still, ui>>

None == 0 - 1
Nothing == "none"
Streams == {"video", "audio"}

Init ==
  /\ vRead = 0 /\ aRead = 0
  /\ vq = 0 /\ aq = 0 /\ pcm = 0
  /\ inHand = Nothing
  /\ done = FALSE
  /\ hold = Network /\ rebuffer = FALSE /\ expired = FALSE
  /\ pending = None
  /\ target = 0 /\ discarding = FALSE /\ anchor = None
  /\ still = FALSE
  /\ paused = FALSE /\ scrub = FALSE /\ seeks = 0
-----------------------------------------------------------------------------
(* The pre-buffer hold *)

Least(a, b) == IF a < b THEN a ELSE b

AtCap(s) == IF s = "video" THEN vq >= VCap ELSE aq >= ACap

\* Never more than a queue can hold below its cap, and never nothing.
FillTarget ==
  LET wanted == IF rebuffer THEN RebufPackets ELSE PrePackets
  IN  IF Least(wanted, VCap - 1) < 1 THEN 1 ELSE Least(wanted, VCap - 1)

ReleaseDue == expired \/ AtCap("video") \/ vq >= FillTarget

LowerHold == hold' = FALSE /\ rebuffer' = FALSE /\ expired' = FALSE

ArmDue == /\ Network
          /\ ~paused /\ ~scrub /\ pending = None /\ ~discarding
          /\ vq <= LowPackets

\* prebuffer_check and then rebuffer_check, for a packet just read.
CheckHold ==
  IF hold /\ ~ReleaseDue THEN UNCHANGED holding
  ELSE IF ArmDue THEN hold' = TRUE /\ rebuffer' = TRUE /\ expired' = FALSE
  ELSE LowerHold

DeadlinePasses ==
  /\ hold /\ ~expired
  /\ expired' = TRUE
  /\ UNCHANGED <<file, queues, inHand, done, hold, rebuffer, pending, window, still, ui>>
-----------------------------------------------------------------------------
(* The demux thread *)

MayCome(s) == IF s = "video" THEN vRead < N /\ vRead - aRead < Skew
                             ELSE aRead < N /\ aRead - vRead < Skew

ReadPacket(s) ==
  /\ inHand = Nothing /\ pending = None
  /\ MayCome(s)
  /\ inHand' = s
  /\ done' = FALSE
  /\ CheckHold
  /\ UNCHANGED <<file, queues, pending, window, still, ui>>

ReadEnds ==
  /\ inHand = Nothing /\ pending = None
  /\ vRead = N /\ aRead = N
  /\ done' = TRUE
  /\ LowerHold
  /\ UNCHANGED <<file, queues, inHand, pending, window, still, ui>>

BelowLimit(s) == IF s = "video" THEN vq < 2 * VCap ELSE aq < 2 * ACap

OtherStarves(s) == IF s = "video" THEN aq < Least(StarveLow, ACap \div 2)
                                  ELSE vq < Least(StarveLow, VCap \div 2)

\* Faulty variant: a full queue is waited for although the other runs dry.
MayOvershootHeldOnly(s) == hold /\ s = "audio" /\ BelowLimit(s)

\* Faulty variant: nothing limits the overshoot.
MayOvershootUnlimited(s) == (hold /\ s = "audio") \/ OtherStarves(s)

MayOvershoot(s) == /\ (hold /\ s = "audio") \/ OtherStarves(s)
                   /\ BelowLimit(s)

\* Faulty variant: the hold is not looked at before the queue has room.
ReleaseInWaitWithRoom(s) ==
  /\ inHand = s /\ pending = None
  /\ ~AtCap(s)
  /\ hold /\ ReleaseDue
  /\ LowerHold
  /\ UNCHANGED <<file, queues, inHand, done, pending, window, still, ui>>

\* A round of demux_wait_for_room that finds the hold due.
ReleaseInWait(s) ==
  /\ inHand = s /\ pending = None
  /\ AtCap(s)
  /\ hold /\ ReleaseDue
  /\ LowerHold
  /\ UNCHANGED <<file, queues, inHand, done, pending, window, still, ui>>

Push(s) ==
  /\ inHand = s /\ pending = None
  /\ AtCap(s) => ~(hold /\ ReleaseDue) /\ MayOvershoot(s)
  /\ inHand' = Nothing
  /\ IF s = "video" THEN vq' = vq + 1 /\ vRead' = vRead + 1 /\ UNCHANGED <<aq, aRead>>
                    ELSE aq' = aq + 1 /\ aRead' = aRead + 1 /\ UNCHANGED <<vq, vRead>>
  /\ UNCHANGED <<pcm, done, holding, pending, window, still, ui>>

\* Faulty variant: a seek is noticed only once the queue has room.
DropForSeekWithRoom ==
  /\ inHand # Nothing /\ pending # None
  /\ ~AtCap(inHand)
  /\ inHand' = Nothing
  /\ UNCHANGED <<file, queues, done, holding, pending, window, still, ui>>

\* A seek ends the wait, and the packet is dropped with what is queued.
DropForSeek ==
  /\ inHand # Nothing /\ pending # None
  /\ inHand' = Nothing
  /\ UNCHANGED <<file, queues, done, holding, pending, window, still, ui>>

\* prospero_process_seek_request: video goes on at a keyframe at or before
\* the target, audio somewhere near it.
TakeSeek ==
  /\ inHand = Nothing /\ pending # None
  /\ vRead' \in {k \in 0 .. pending : k >= pending - RunUp}
  /\ aRead' \in {a \in 0 .. N : a - vRead' <= Skew /\ vRead' - a <= Skew}
  /\ vq' = 0 /\ aq' = 0 /\ pcm' = 0
  /\ done' = FALSE
  /\ target' = pending /\ discarding' = TRUE /\ anchor' = None
  /\ pending' = None
  /\ paused' = FALSE
  /\ UNCHANGED <<inHand, holding, still, scrub, seeks>>
-----------------------------------------------------------------------------
(* The video decode thread, the audio decode thread and the audio output *)

Shown == vRead - vq           \* frames that have left the decoder
Played == aRead - aq - pcm    \* audio played or discarded

\* A frame is paced against the audio clock for a bounded number of polls
\* and then presented; the run-up to a seek's target is discarded.
ShowFrame ==
  /\ ~paused /\ ~hold /\ ~scrub
  /\ vq > 0
  /\ vq' = vq - 1
  /\ IF discarding /\ Shown < target THEN UNCHANGED <<discarding, anchor, still>>
     ELSE /\ discarding' = FALSE
          /\ anchor' = (IF anchor = None THEN Shown ELSE anchor)
          /\ still' = FALSE
  /\ UNCHANGED <<file, aq, pcm, inHand, done, holding, pending, target, ui>>

\* Audio before the target is dropped, the rest is mixed into the PCM ring.
DecodeAudio ==
  /\ ~paused /\ ~hold /\ ~scrub
  /\ pcm <= PcmHigh
  /\ aq > 0
  /\ aq' = aq - 1
  /\ pcm' = (IF Played + pcm < target THEN pcm ELSE pcm + 1)
  /\ UNCHANGED <<file, vq, inHand, done, holding, pending, window, still, ui>>

OutputParks == discarding \/ scrub \/ paused

WaitsForPicture == anchor = None /\ ~done

Throttled == /\ anchor # None
             /\ Shown - anchor >= Settle
             /\ Played - Shown > Lead

MayPlay == ~OutputParks /\ ~WaitsForPicture /\ (Throttled => still)

\* With an empty ring silence is played, and nothing changes.
Play ==
  /\ MayPlay
  /\ pcm > 0
  /\ pcm' = pcm - 1
  /\ UNCHANGED <<file, vq, aq, inHand, done, holding, pending, window, still, ui>>

\* 125 polls without movement of the picture.
PictureStandsStill ==
  /\ ~OutputParks /\ ~WaitsForPicture
  /\ Throttled /\ ~still
  /\ still' = TRUE
  /\ UNCHANGED <<file, queues, inHand, done, holding, pending, window, ui>>

ForgetStill ==
  /\ OutputParks /\ still
  /\ still' = FALSE
  /\ UNCHANGED <<file, queues, inHand, done, holding, pending, window, ui>>
-----------------------------------------------------------------------------
(* The user *)

TogglePause ==
  /\ paused' = ~paused
  /\ UNCHANGED <<file, queues, inHand, done, holding, pending, window, still, scrub, seeks>>

ToggleScrub ==
  /\ scrub' = ~scrub
  /\ UNCHANGED <<file, queues, inHand, done, holding, pending, window, still, paused, seeks>>

\* A seek out of a scrub goes straight back to playing; any other leaves
\* player_paused set until it is done.
RequestSeek(t) ==
  /\ seeks < MaxSeeks
  /\ seeks' = seeks + 1
  /\ pending' = t
  /\ paused' = ~scrub
  /\ scrub' = FALSE
  /\ UNCHANGED <<file, queues, inHand, done, holding, window, still>>
-----------------------------------------------------------------------------
Demux == \/ ReadEnds \/ DropForSeek \/ TakeSeek
         \/ \E s \in Streams : ReadPacket(s) \/ ReleaseInWait(s) \/ Push(s)

AudioOut == Play \/ PictureStandsStill \/ ForgetStill

User == TogglePause \/ ToggleScrub \/ \E t \in Targets : RequestSeek(t)

Next == Demux \/ ShowFrame \/ DecodeAudio \/ AudioOut \/ DeadlinePasses \/ User

\* Every thread runs and time passes; the user need not do anything.
Fairness == /\ WF_vars(Demux) /\ WF_vars(ShowFrame) /\ WF_vars(DecodeAudio)
            /\ WF_vars(AudioOut) /\ WF_vars(DeadlinePasses)

Spec == Init /\ [][Next]_vars /\ Fairness
-----------------------------------------------------------------------------
(* Properties *)

TypeOK ==
  /\ vRead \in 0 .. N /\ aRead \in 0 .. N
  /\ vq \in 0 .. vRead /\ aq \in 0 .. aRead /\ pcm \in 0 .. (PcmHigh + 1)
  /\ inHand \in Streams \cup {Nothing}
  /\ done \in BOOLEAN /\ hold \in BOOLEAN /\ rebuffer \in BOOLEAN /\ expired \in BOOLEAN
  /\ pending \in Targets \cup {None} /\ target \in Targets \cup {0}
  /\ discarding \in BOOLEAN /\ anchor \in None .. (N - 1) /\ still \in BOOLEAN
  /\ paused \in BOOLEAN /\ scrub \in BOOLEAN /\ seeks \in 0 .. MaxSeeks

(***************************************************************************)
(* A queue grows past its cap only for a stream that starves, and never    *)
(* past twice its cap, whichever waits are given up for it.                *)
(***************************************************************************)
QueuesBounded == vq <= 2 * VCap /\ aq <= 2 * ACap

(***************************************************************************)
(* A file that is left alone plays to its end: no cycle of waits among the *)
(* demuxer, picture, sound, the hold and the discard window is permanent,  *)
(* wherever pauses, scrubs and seeks have left the queues.                 *)
(***************************************************************************)
Quiet == ~paused /\ ~scrub /\ pending = None
AllPlayed == vRead = N /\ aRead = N /\ vq = 0 /\ aq = 0 /\ pcm = 0
PlaysToTheEnd == <>[]Quiet => <>AllPlayed

(***************************************************************************)
(* Buffering ends: the hold is lowered, also while playback is paused or   *)
(* scrubbed and nothing takes packets from the queues.                     *)
(***************************************************************************)
HoldEnds == hold ~> ~hold

(***************************************************************************)
(* A requested seek is taken, however full the queues are and whether or   *)
(* not anything takes packets from them.                                   *)
(***************************************************************************)
SeekTaken == pending # None ~> pending = None
=============================================================================
