---------------------------- MODULE SeekSession ----------------------------
(***************************************************************************)
(* Seeking and pausing across threads.  The UI thread drives the playback  *)
(* state machine and requests seeks (PlaybackController.cpp), the demux    *)
(* thread carries them out (media/src/evo_demux.c), and the video decode   *)
(* thread pushes frames to the presenter, which discards the run-up to the *)
(* target (pp/src/pp_playback.c) and runs the presentation clock           *)
(* (pp/src/pp_clock.c).  player_paused, the holds, the discard window and  *)
(* the clock are shared by all three without a lock, so that an            *)
(* announcement of a seek and the push of a frame are sequences of steps.  *)
(*                                                                         *)
(* Places in a file are frames, 0 .. LastFrame.  How the decode thread is  *)
(* kept out of the decoder is SeekPark's subject: here the demux thread    *)
(* waits for the frame in hand to be pushed.                               *)
(***************************************************************************)
EXTENDS Integers

CONSTANTS LastFrame,   \* the last frame of a file
          Targets,     \* frames a seek may ask for
          RunUp,       \* frames a keyframe may lie before the target
          HasVideo,    \* video_stream_index >= 0
          MaxSeeks,    \* bound: seeks requested
          MaxFiles     \* bound: files opened one after the other

ASSUME FramesAssumption == LastFrame \in Nat /\ Targets \subseteq 0 .. LastFrame
ASSUME BoundsAssumption == RunUp \in Nat /\ MaxSeeks \in Nat /\ MaxFiles \in Nat
ASSUME VideoAssumption == HasVideo \in BOOLEAN

VARIABLES fsm,           \* m_playbackFsm
          playerPaused,  \* player_paused
          scrubHold,     \* pb_scrub_hold
          decodeHold,    \* video_decode_hold
          seekPending,   \* prospero_seek_pending and its target
          discarding,    \* seek_discarding
          target,        \* seek_target_us
          clock,         \* "reset", "running" or "paused"
          ui,            \* what the UI thread still has to do
          demuxer,       \* where the demux thread is, and its locals
          place,         \* the next frame the decoder returns
          inHand,        \* the frame the decode thread holds
          pushing,       \* where pp_playback_push_frame is with it
          fileNo, seeks, \* files opened, seeks requested
          late           \* history: an announcement paused the clock of a seek that was over

uiVars == <<fsm, ui>>
fileVars == <<fileNo, seeks, late>>
presenter == <<discarding, target, clock>>
decoder == <<place, inHand, pushing>>
seekVars == <<uiVars, playerPaused, scrubHold, decodeHold, seekPending, presenter,
              demuxer, decoder, fileVars>>

None == 0 - 1
UiIdle == [op |-> "idle", target |-> None]
NoSeek == [target |-> None, file |-> 0]
Looping == [pc |-> "loop", target |-> None, ok |-> FALSE]

\* Before the first file.
PlayInit ==
  /\ fsm = "Stopped" /\ ui = UiIdle
  /\ playerPaused = FALSE /\ scrubHold = FALSE /\ decodeHold = FALSE
  /\ seekPending = NoSeek
  /\ discarding = FALSE /\ target = None /\ clock = "reset"
  /\ demuxer = [Looping EXCEPT !.pc = "ended"]
  /\ place = 0 /\ inHand = None /\ pushing = "no"
  /\ fileNo = 0 /\ seeks = 0 /\ late = FALSE
-----------------------------------------------------------------------------
(* pp_clock and pp_playback_notify_seek_begin *)

PauseClock == clock' = (IF clock = "running" THEN "paused" ELSE clock)
ResumeClock == clock' = (IF clock = "paused" THEN "running" ELSE clock)

AnnounceSteps == {"notify", "arm", "aim", "still"}

\* A step of an announcement of t, and what comes next.  One seek announces
\* itself twice; the second time does nothing while the window for the same
\* target is open.
NotifySeekBegin(step, t, next) ==
  \/ /\ step = "notify" /\ next = (IF discarding /\ target = t THEN "done" ELSE "arm")
     /\ UNCHANGED presenter
  \/ /\ step = "arm" /\ next = "aim"
     /\ discarding' = TRUE
     /\ UNCHANGED <<target, clock>>
  \/ /\ step = "aim" /\ next = "still"
     /\ target' = t
     /\ UNCHANGED <<discarding, clock>>
  \/ /\ step = "still" /\ next = "done"
     /\ PauseClock
     /\ UNCHANGED <<discarding, target>>
-----------------------------------------------------------------------------
(***************************************************************************)
(* The UI thread.  A pause or a resume goes through the state machine; a   *)
(* seek is a request, an announcement and, after a scrub, the Play event.  *)
(***************************************************************************)
Pause ==
  /\ ui = UiIdle /\ fsm = "Playing"
  /\ fsm' = "Paused"
  /\ playerPaused' = TRUE
  /\ PauseClock
  /\ UNCHANGED <<ui, scrubHold, decodeHold, seekPending, discarding, target, demuxer,
                 decoder, fileVars>>

Resume ==
  /\ ui = UiIdle /\ fsm = "Paused"
  /\ fsm' = "Playing"
  /\ playerPaused' = FALSE
  /\ ResumeClock /\ late' = FALSE
  /\ UNCHANGED <<ui, scrubHold, decodeHold, seekPending, discarding, target, demuxer,
                 decoder, fileNo, seeks>>

BeginScrub ==
  /\ ui = UiIdle /\ fsm \in {"Playing", "Paused"}
  /\ fsm' = "Scrubbing"
  /\ PauseClock
  /\ scrubHold' = TRUE
  /\ UNCHANGED <<ui, playerPaused, decodeHold, seekPending, discarding, target, demuxer,
                 decoder, fileVars>>

CancelScrub ==
  /\ ui = UiIdle /\ fsm = "Scrubbing"
  /\ fsm' = "Playing"
  /\ playerPaused' = FALSE
  /\ scrubHold' = FALSE
  /\ ResumeClock /\ late' = FALSE
  /\ UNCHANGED <<ui, decodeHold, seekPending, discarding, target, demuxer,
                 decoder, fileNo, seeks>>

\* confirmScrub up to its call of seekTo.
ConfirmScrub(t) ==
  /\ ui = UiIdle /\ fsm = "Scrubbing"
  /\ seeks < MaxSeeks
  /\ fsm' = "Seeking"
  /\ scrubHold' = FALSE
  /\ ui' = [op |-> "request", target |-> t]
  /\ UNCHANGED <<playerPaused, decodeHold, seekPending, presenter, demuxer, decoder,
                 fileVars>>

\* seekTo without a scrub, as jumpChapter calls it.
JumpTo(t) ==
  /\ ui = UiIdle /\ fsm \in {"Playing", "Paused"}
  /\ seeks < MaxSeeks
  /\ ui' = [op |-> "request", target |-> t]
  /\ UNCHANGED <<fsm, playerPaused, scrubHold, decodeHold, seekPending, presenter, demuxer,
                 decoder, fileVars>>

\* A request is carried out short of the end of the file; the announcement
\* that goes with it is not held back.
InFile(t) == IF t = LastFrame /\ LastFrame > 0 THEN LastFrame - 1 ELSE t

\* prospero_request_inplace_seek: a request not taken yet is overwritten.
Request ==
  /\ ui.op = "request"
  /\ playerPaused' = TRUE
  /\ seekPending' = [target |-> InFile(ui.target), file |-> fileNo]
  /\ seeks' = seeks + 1 /\ late' = FALSE
  /\ ui' = [ui EXCEPT !.op = "notify"]
  /\ UNCHANGED <<fsm, scrubHold, decodeHold, presenter, demuxer, decoder, fileNo>>

\* The seek that is announced has been carried out and lifted its pause.
SeekOver == seekPending = NoSeek /\ demuxer.pc \in {"restore", "loop"}

Notify ==
  /\ ui.op \in AnnounceSteps
  /\ \E next \in AnnounceSteps \cup {"done"} :
       /\ NotifySeekBegin(ui.op, ui.target, next)
       /\ ui' = (IF next # "done" THEN [ui EXCEPT !.op = next]
                 ELSE IF fsm = "Seeking" THEN [ui EXCEPT !.op = "play"] ELSE UiIdle)
  /\ late' = (late \/ (ui.op = "still" /\ SeekOver))
  /\ UNCHANGED <<fsm, playerPaused, scrubHold, decodeHold, seekPending, demuxer, decoder,
                 fileNo, seeks>>

PlayAfterScrub ==
  /\ ui.op = "play"
  /\ fsm' = "Playing"
  /\ playerPaused' = FALSE
  /\ ResumeClock
  /\ ui' = UiIdle
  /\ UNCHANGED <<scrubHold, decodeHold, seekPending, discarding, target, demuxer, decoder,
                 fileVars>>

\* The remote's seek command requests a seek and announces nothing.
RemoteSeek(t) ==
  /\ ui = UiIdle /\ fsm # "Stopped"
  /\ seeks < MaxSeeks
  /\ playerPaused' = TRUE
  /\ seekPending' = [target |-> InFile(t), file |-> fileNo]
  /\ seeks' = seeks + 1 /\ late' = FALSE
  /\ UNCHANGED <<uiVars, scrubHold, decodeHold, presenter, demuxer, decoder, fileNo>>

(***************************************************************************)
(* stopPlayback up to the join of the demux thread, the rest of it, and    *)
(* startPlaybackSource for the next file.                                  *)
(***************************************************************************)
Stop ==
  /\ ui = UiIdle /\ fsm # "Stopped"
  /\ fsm' = "Stopped"
  /\ playerPaused' = FALSE
  /\ ui' = [UiIdle EXCEPT !.op = "join"]
  /\ UNCHANGED <<scrubHold, decodeHold, seekPending, presenter, demuxer, decoder,
                 fileVars>>

FinishStop ==
  /\ ui.op = "join"
  /\ demuxer.pc = "ended"
  /\ inHand = None
  /\ scrubHold' = FALSE
  /\ discarding' = FALSE
  /\ clock' = "reset"
  /\ ui' = UiIdle
  /\ UNCHANGED <<fsm, playerPaused, decodeHold, seekPending, target, demuxer, decoder,
                 fileVars>>

OpenNext ==
  /\ ui = UiIdle /\ fsm = "Stopped"
  /\ fileNo < MaxFiles
  /\ fileNo' = fileNo + 1 /\ late' = FALSE
  /\ fsm' = "Playing"
  /\ playerPaused' = FALSE
  /\ discarding' = FALSE
  /\ clock' = "reset"
  /\ place' = 0
  /\ demuxer' = Looping
  /\ UNCHANGED <<ui, scrubHold, decodeHold, seekPending, target, inHand, pushing, seeks>>
-----------------------------------------------------------------------------
(* The demux thread: prospero_process_seek_request step by step. *)

TakeRequest ==
  /\ demuxer.pc = "loop" /\ fsm # "Stopped"
  /\ seekPending # NoSeek
  /\ seekPending' = NoSeek
  /\ demuxer' = [demuxer EXCEPT !.pc = "notify", !.target = seekPending.target]
  /\ UNCHANGED <<uiVars, playerPaused, scrubHold, decodeHold, presenter, decoder,
                 fileVars>>

BeginSeek ==
  /\ demuxer.pc \in AnnounceSteps
  /\ \E next \in AnnounceSteps \cup {"done"} :
       /\ NotifySeekBegin(demuxer.pc, demuxer.target, next)
       /\ demuxer' = [demuxer EXCEPT !.pc = IF next = "done" THEN "hold" ELSE next]
  /\ UNCHANGED <<uiVars, playerPaused, scrubHold, decodeHold, seekPending, decoder,
                 fileVars>>

RaiseHold ==
  /\ demuxer.pc = "hold"
  /\ decodeHold' = TRUE
  /\ demuxer' = [demuxer EXCEPT !.pc = "seek"]
  /\ UNCHANGED <<uiVars, playerPaused, scrubHold, seekPending, presenter, decoder,
                 fileVars>>

\* av_seek_frame lands on a keyframe at or before the target, or fails and
\* leaves an empty queue to be filled from where the demuxer had got to.
Reposition ==
  /\ demuxer.pc = "seek"
  /\ inHand = None
  /\ \/ /\ place' \in {p \in 0 .. demuxer.target : p >= demuxer.target - RunUp}
        /\ demuxer' = [demuxer EXCEPT !.pc = "lower", !.ok = TRUE]
     \/ /\ demuxer' = [demuxer EXCEPT !.pc = "lower", !.ok = FALSE]
        /\ place' \in place .. (LastFrame + 1)
  /\ UNCHANGED <<uiVars, playerPaused, scrubHold, decodeHold, seekPending, presenter,
                 inHand, pushing, fileVars>>

\* Faulty variant: only the error path lowers the hold.
LowerHoldOnError ==
  /\ demuxer.pc = "lower"
  /\ decodeHold' = demuxer.ok
  /\ demuxer' = [demuxer EXCEPT !.pc = "end"]
  /\ UNCHANGED <<uiVars, playerPaused, scrubHold, seekPending, presenter, decoder,
                 fileVars>>

LowerHold ==
  /\ demuxer.pc = "lower"
  /\ decodeHold' = FALSE
  /\ demuxer' = [demuxer EXCEPT !.pc = "end"]
  /\ UNCHANGED <<uiVars, playerPaused, scrubHold, seekPending, presenter, decoder,
                 fileVars>>

\* pp_playback_notify_seek_end.
EndSeek ==
  /\ demuxer.pc = "end"
  /\ discarding' = (discarding /\ demuxer.ok)
  /\ demuxer' = [demuxer EXCEPT !.pc = "lift"]
  /\ UNCHANGED <<uiVars, playerPaused, scrubHold, decodeHold, seekPending, target, clock,
                 decoder, fileVars>>

\* Faulty variant: the clock is resumed by the seek that succeeded only.
LiftOnSuccess ==
  /\ demuxer.pc = "lift"
  /\ IF demuxer.ok THEN ResumeClock ELSE UNCHANGED clock
  /\ demuxer' = [demuxer EXCEPT !.pc = "restore"]
  /\ UNCHANGED <<uiVars, playerPaused, scrubHold, decodeHold, seekPending, discarding, target,
                 decoder, fileVars>>

\* The clock is resumed: every caller asks for playback to go on.
LiftPause ==
  /\ demuxer.pc = "lift"
  /\ ResumeClock
  /\ demuxer' = [demuxer EXCEPT !.pc = "restore"]
  /\ UNCHANGED <<uiVars, playerPaused, scrubHold, decodeHold, seekPending, discarding, target,
                 decoder, fileVars>>

\* Faulty variant: player_paused is left as it was.
RestoreNothing ==
  /\ demuxer.pc = "restore"
  /\ demuxer' = Looping
  /\ UNCHANGED <<uiVars, playerPaused, scrubHold, decodeHold, seekPending, presenter, decoder,
                 fileVars>>

RestorePaused ==
  /\ demuxer.pc = "restore"
  /\ playerPaused' = FALSE
  /\ demuxer' = Looping
  /\ UNCHANGED <<uiVars, scrubHold, decodeHold, seekPending, presenter, decoder,
                 fileVars>>

\* Faulty variant: the loop is left only when no seek is pending.
EndThreadAfterSeek ==
  /\ demuxer.pc = "loop" /\ fsm = "Stopped"
  /\ seekPending = NoSeek
  /\ demuxer' = [demuxer EXCEPT !.pc = "ended"]
  /\ UNCHANGED <<uiVars, playerPaused, scrubHold, decodeHold, seekPending, presenter,
                 decoder, fileVars>>

EndThread ==
  /\ demuxer.pc = "loop" /\ fsm = "Stopped"
  /\ demuxer' = [demuxer EXCEPT !.pc = "ended"]
  /\ UNCHANGED <<uiVars, playerPaused, scrubHold, decodeHold, seekPending, presenter,
                 decoder, fileVars>>
-----------------------------------------------------------------------------
(* The video decode thread. *)

MayDecode == ~playerPaused /\ ~decodeHold /\ ~scrubHold

DecodeFrame ==
  /\ HasVideo /\ fsm # "Stopped"
  /\ MayDecode
  /\ inHand = None
  /\ place <= LastFrame
  /\ inHand' = place
  /\ place' = place + 1
  /\ pushing' = "test"
  /\ UNCHANGED <<uiVars, playerPaused, scrubHold, decodeHold, seekPending, presenter, demuxer,
                 fileVars>>

(***************************************************************************)
(* pp_playback_push_frame.  A frame before the target of the window is     *)
(* discarded; the first one at or past it restarts the clock and closes    *)
(* the window; without a window the first one starts the clock.            *)
(***************************************************************************)
TestWindow ==
  /\ pushing = "test"
  /\ pushing' = (IF discarding THEN "compare" ELSE "clock")
  /\ UNCHANGED <<presenter, inHand>>

CompareTarget ==
  /\ pushing = "compare"
  /\ IF inHand < target THEN pushing' = "no" /\ inHand' = None
     ELSE pushing' = "restart" /\ UNCHANGED inHand
  /\ UNCHANGED presenter

RestartClock ==
  /\ pushing = "restart"
  /\ clock' = "running"
  /\ pushing' = "close"
  /\ UNCHANGED <<discarding, target, inHand>>

CloseWindow ==
  /\ pushing = "close"
  /\ discarding' = FALSE
  /\ pushing' = "clock"
  /\ UNCHANGED <<target, clock, inHand>>

StartClock ==
  /\ pushing = "clock"
  /\ clock' = (IF clock = "reset" THEN "running" ELSE clock)
  /\ pushing' = "no" /\ inHand' = None
  /\ UNCHANGED <<discarding, target>>

PushFrame ==
  /\ TestWindow \/ CompareTarget \/ RestartClock \/ CloseWindow \/ StartClock
  /\ UNCHANGED <<uiVars, playerPaused, scrubHold, decodeHold, seekPending, demuxer, place,
                 fileVars>>
-----------------------------------------------------------------------------
UiFinishes == Request \/ Notify \/ PlayAfterScrub \/ FinishStop

UiStarts == \/ Pause \/ Resume \/ BeginScrub \/ CancelScrub \/ Stop \/ OpenNext
            \/ \E t \in Targets : ConfirmScrub(t) \/ JumpTo(t) \/ RemoteSeek(t)

SeekingThread == \/ TakeRequest \/ BeginSeek \/ RaiseHold \/ Reposition \/ LowerHold
                 \/ EndSeek \/ LiftPause \/ RestorePaused \/ EndThread

ShowingThread == DecodeFrame \/ PushFrame

PlayNext == UiFinishes \/ UiStarts \/ SeekingThread \/ ShowingThread

\* The threads run; nobody has to press a button.
PlayFairness == WF_seekVars(UiFinishes) /\ WF_seekVars(SeekingThread) /\ WF_seekVars(ShowingThread)

PlaySpec == PlayInit /\ [][PlayNext]_seekVars /\ PlayFairness
-----------------------------------------------------------------------------
(* Properties *)

SeekTypeOK ==
  /\ fsm \in {"Playing", "Paused", "Scrubbing", "Seeking", "Stopped"}
  /\ ui.op \in AnnounceSteps \cup {"idle", "request", "play", "join"}
  /\ clock \in {"reset", "running", "paused"}
  /\ demuxer.pc \in AnnounceSteps \cup
       {"loop", "hold", "seek", "lower", "end", "lift", "restore", "ended"}
  /\ target \in None .. LastFrame /\ demuxer.target \in None .. LastFrame
  /\ place \in 0 .. (LastFrame + 1) /\ inHand \in None .. LastFrame
  /\ pushing \in {"no", "test", "compare", "restart", "close", "clock"}
  /\ pushing = "no" <=> inHand = None
  /\ late \in BOOLEAN

NoSeekAround == ui = UiIdle /\ seekPending = NoSeek /\ demuxer.pc = "loop"

(***************************************************************************)
(* Nothing is left held: once no seek is requested or under way, a state   *)
(* machine in Playing means that player_paused and both holds are down,    *)
(* whatever pauses, scrubs, remote commands and seeks overlapped.          *)
(***************************************************************************)
PlayingRuns == (fsm = "Playing" /\ NoSeekAround) => ~playerPaused /\ ~scrubHold /\ ~decodeHold

(***************************************************************************)
(* The picture is not left frozen: once no seek is requested or under way, *)
(* the clock of a playing file stands still only while a discard window is *)
(* open, whose first frame restarts it. One order is excepted: the         *)
(* announcement on the UI thread runs beside the seek it announces, and    *)
(* when its pause of the clock comes after the seek has lifted it, nothing *)
(* resumes the clock before the next seek or resume. NeverFrozen has no    *)
(* exception, and fails in that order.                                     *)
(***************************************************************************)
NeverFrozen == (fsm = "Playing" /\ NoSeekAround) => (clock = "paused" => discarding)

NotFrozen == NeverFrozen \/ late

(***************************************************************************)
(* What the screen calls paused stands still: a state machine that stays   *)
(* in Paused, with no seek around, goes with a raised player_paused.       *)
(***************************************************************************)
PausedStands == <>[](fsm = "Paused" /\ NoSeekAround) => []<>playerPaused

(***************************************************************************)
(* The picture comes back: when the user leaves a playing file alone, the  *)
(* discard window closes or the file ends.                                 *)
(***************************************************************************)
PictureComesBack ==
  <>[](fsm = "Playing" /\ NoSeekAround) => []<>(~discarding \/ place > LastFrame)

(***************************************************************************)
(* A stop ends, also one that overtakes a seek: the demux thread leaves    *)
(* its loop whatever is requested or under way.                            *)
(***************************************************************************)
StopEnds == ui.op = "join" ~> ui = UiIdle

(***************************************************************************)
(* A seek is carried out in the file it was requested in.                  *)
(***************************************************************************)
SeekStaysInFile ==
  [][(demuxer.pc = "loop" /\ demuxer'.pc = "notify") => seekPending.file = fileNo]_seekVars

(***************************************************************************)
(* The sound comes back: audio output parks for the discard window only as *)
(* long as a seek is discarding video.                                     *)
(***************************************************************************)
SoundComesBack == <>[](fsm = "Playing" /\ NoSeekAround) => <>[]~discarding
=============================================================================
