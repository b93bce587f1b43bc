--------------------------- MODULE Playback_proofs --------------------------
(***************************************************************************)
(* The threads of a session, for files of every length, any number of      *)
(* sessions and rings of every size: the seek handshake of demux and       *)
(* decode thread, the flags of a session's threads, which decoder a thread *)
(* uses, the packets that survive read errors, the count of the sound      *)
(* ring, and the pictures of the seek bar.                                 *)
(***************************************************************************)
EXTENDS SeekPark, SeekSession, SessionThreads, DemuxRecovery, PcmRing, Previews,
        SequenceTheorems, TLAPS
-----------------------------------------------------------------------------
(***************************************************************************)
(* SeekPark. ExclusiveUse is not inductive: that the demux thread reads a  *)
(* true video_decode_parked proves nothing unless what it reads is what    *)
(* the decode thread stored last before it entered the decoder. The        *)
(* invariant says when it is, and that no call starts under the hold.      *)
(***************************************************************************)
\* The hold is up exactly while the seek owns the decoder.
HoldOfSeek == hold <=> spc \in {"settle", "wait", "touch"}

\* A sleep lies between any two stores of the decode thread.
OneStore == vpc \in {"test", "toPark", "unpark", "exited"} => buffered = NoStore

\* On the way into the decoder the last store says "not parked".
SaysBusy ==
  vpc \in {"recheck", "decode", "wedged"} =>
    buffered = "clear" \/ (buffered = NoStore /\ ~parked)

\* The store of a call that was under way when the hold went up drains
\* before the demux thread looks.
OldStoreDrains ==
  /\ (spc = "settle" /\ InDecoder /\ ~undrained) => buffered = NoStore
  /\ (spc = "wait" /\ InDecoder) => buffered = NoStore

\* A seek without a decode thread: audio only.
NoThreadNoCall == (spc # "idle" /\ ~running) => vpc = "exited"

SeekInv == /\ ParkTypeOK
           /\ HoldOfSeek
           /\ OneStore
           /\ SaysBusy
           /\ OldStoreDrains
           /\ NoThreadNoCall
           /\ ExclusiveUse
-----------------------------------------------------------------------------
\* The flags at boot: no thread, no seek, nothing buffered.
LEMMA InitInv == ParkInit => SeekInv
BY DEF ParkInit, SeekInv, ParkTypeOK, HoldOfSeek, OneStore, SaysBusy, OldStoreDrains,
       NoThreadNoCall, ExclusiveUse, InDecoder, NoStore

\* Every step of the decode thread keeps the invariant: it enters the
\* decoder only past a test of the hold that follows its store.
LEMMA DecodeKeepsInv ==
  ASSUME SeekInv, DecodeThread \/ DecodeReturns \/ Wedge
  PROVE  SeekInv'
<1> USE DEF SeekInv, ParkTypeOK, HoldOfSeek, OneStore, SaysBusy, OldStoreDrains,
            NoThreadNoCall, ExclusiveUse, InDecoder, NoStore, decodeFrame, parkFlags
<1>1. CASE ExitThread
  BY <1>1 DEF ExitThread
<1>2. CASE TestHolds
  BY <1>2 DEF TestHolds
<1>3. CASE Park
  BY <1>3 DEF Park, StoreParked
<1>4. CASE Unpark
  BY <1>4 DEF Unpark, StoreParked
<1>5. CASE Recheck
  BY <1>5 DEF Recheck, MustLeave
<1>6. CASE Wake
  BY <1>6 DEF Wake
<1>7. CASE DecodeReturns
  BY <1>7 DEF DecodeReturns
<1>8. CASE Wedge
  BY <1>8 DEF Wedge
<1>q. QED
  BY <1>1, <1>2, <1>3, <1>4, <1>5, <1>6, <1>7, <1>8 DEF DecodeThread

\* Every step of the demux thread keeps it: it reaches the decoder past the
\* wait, and the wait ends with a flag that is up to date.
LEMMA DemuxKeepsInv ==
  ASSUME SeekInv, DemuxThread \/ TakeSeek
  PROVE  SeekInv'
<1> USE DEF SeekInv, ParkTypeOK, HoldOfSeek, OneStore, SaysBusy, OldStoreDrains,
            NoThreadNoCall, ExclusiveUse, InDecoder, NoStore, parkFlags
<1>1. CASE TakeSeek
  BY <1>1 DEF TakeSeek
<1>2. CASE Raise
  BY <1>2 DEF Raise
<1>3. CASE Settle
  BY <1>3 DEF Settle
<1>4. CASE SeeParked
  BY <1>4 DEF SeeParked
<1>5. CASE GiveUp
  BY <1>5 DEF GiveUp
<1>6. CASE Lower
  BY <1>6 DEF Lower
<1>7. CASE Restore
  BY <1>7 DEF Restore
<1>q. QED
  BY <1>1, <1>2, <1>3, <1>4, <1>5, <1>6, <1>7 DEF DemuxThread

\* So do the store buffer and the threads that pause, stop and start.
LEMMA OthersKeepInv ==
  ASSUME SeekInv, Drain \/ Toggle \/ StopVideo \/ StartVideo
  PROVE  SeekInv'
<1> USE DEF SeekInv, ParkTypeOK, HoldOfSeek, OneStore, SaysBusy, OldStoreDrains,
            NoThreadNoCall, ExclusiveUse, InDecoder, NoStore, parkFlags
<1>1. CASE Drain
  BY <1>1 DEF Drain
<1>2. CASE Toggle
  BY <1>2 DEF Toggle
<1>3. CASE StopVideo
  BY <1>3 DEF StopVideo
<1>4. CASE StartVideo
  BY <1>4 DEF StartVideo
<1>q. QED
  BY <1>1, <1>2, <1>3, <1>4

\* The invariant holds in every reachable state of the handshake.
THEOREM SeekInvariant == ParkSpec => []SeekInv
<1>1. SeekInv /\ [ParkNext]_parkVars => SeekInv'
  <2> SUFFICES ASSUME SeekInv, [ParkNext]_parkVars PROVE SeekInv'
    OBVIOUS
  <2>1. CASE UNCHANGED parkVars
    BY <2>1 DEF parkVars, parkFlags, SeekInv, ParkTypeOK, HoldOfSeek, OneStore, SaysBusy,
                OldStoreDrains, NoThreadNoCall, ExclusiveUse, InDecoder
  <2>2. CASE ParkNext
    BY <2>2, DecodeKeepsInv, DemuxKeepsInv, OthersKeepInv DEF ParkNext
  <2>q. QED
    BY <2>1, <2>2
<1>q. QED
  BY InitInv, <1>1, PTL DEF ParkSpec

\* A seek never flushes the decoder under a live call of the decode thread,
\* whatever the order of stores, sleeps, pauses and stops (#94).
THEOREM SeekExclusive == ParkSpec => []ExclusiveUse
<1>1. SeekInv => ExclusiveUse
  BY DEF SeekInv
<1>q. QED
  BY SeekInvariant, <1>1, PTL

\* The flags and program counters keep their types.
THEOREM SeekTypeCorrect == ParkSpec => []ParkTypeOK
<1>1. SeekInv => ParkTypeOK
  BY DEF SeekInv
<1>q. QED
  BY SeekInvariant, <1>1, PTL
-----------------------------------------------------------------------------
(***************************************************************************)
(* SeekSession.  PlayingRuns speaks of the quiet states only; what makes   *)
(* it true is what holds between them: a flag that is up has, at every     *)
(* moment, a thread that will take it down.                                *)
(***************************************************************************)
DemuxerLocals ==
  [pc : AnnounceSteps \cup {"loop", "hold", "seek", "lower", "end", "lift", "restore", "ended"},
   target : Int, ok : BOOLEAN]
UiLocals == [op : AnnounceSteps \cup {"idle", "request", "play", "join"}, target : Int]

\* What the UI thread is in the middle of goes with a state of the machine.
UiFollowsFsm ==
  /\ ui.op = "request" => ui.target \in Nat
  /\ ui.op \in AnnounceSteps \cup {"request"} => fsm \in {"Playing", "Paused", "Seeking"}
  /\ ui.op = "play" => fsm = "Seeking"
  /\ ui.op = "join" => fsm = "Stopped"

\* The scrub hold is up during a scrub, or until the stop that ended it is through.
ScrubHoldHasAnEnd == scrubHold => fsm = "Scrubbing" \/ ui.op = "join"

\* The demux thread lowers the hold it raised.
DecodeHoldHasAnEnd == decodeHold => demuxer.pc \in {"seek", "lower"}

\* A file is closed when its demux thread is gone.
StoppedHasNoThread == fsm = "Stopped" /\ ui.op # "join" => demuxer.pc = "ended"

\* player_paused in Playing is a seek's, which is still to be carried out.
PauseHasAnEnd ==
  fsm = "Playing" /\ playerPaused => seekPending # NoSeek \/ demuxer.pc \notin {"loop", "ended"}

\* The demux thread of a file that is played has not left.
PlayingHasThread == demuxer.pc = "ended" => fsm = "Stopped"

\* A clock that stands still without a window, or with one that is being closed,
\* has a seek before it that lifts the pause; or the pause came too late.
FrozenHasAnEnd ==
  (fsm = "Playing" /\ clock = "paused" /\ (~discarding \/ pushing = "close")) =>
    late \/ seekPending # NoSeek \/ demuxer.pc \notin {"restore", "loop"}

PlayInv == /\ demuxer \in DemuxerLocals
           /\ ui \in UiLocals
           /\ seekPending \in [target : Int, file : Int] /\ fileNo \in Int
           /\ UiFollowsFsm
           /\ ScrubHoldHasAnEnd
           /\ DecodeHoldHasAnEnd
           /\ StoppedHasNoThread
           /\ PauseHasAnEnd
           /\ PlayingHasThread
           /\ FrozenHasAnEnd

(* The records a thread starts from. *)
LEMMA PlayRecords ==
  /\ UiIdle \in UiLocals /\ UiIdle.op = "idle"
  /\ [UiIdle EXCEPT !.op = "join"] \in UiLocals /\ [UiIdle EXCEPT !.op = "join"].op = "join"
  /\ Looping \in DemuxerLocals /\ Looping.pc = "loop"
  /\ [Looping EXCEPT !.pc = "ended"] \in DemuxerLocals
  /\ [Looping EXCEPT !.pc = "ended"].pc = "ended"
  /\ NoSeek \in [target : Int, file : Int] /\ NoSeek.target = 0 - 1
<1>1. None \in Int /\ None = 0 - 1
  BY DEF None
<1>2. UiIdle \in UiLocals /\ UiIdle.op = "idle"
  BY <1>1 DEF UiIdle, UiLocals
<1>3. [UiIdle EXCEPT !.op = "join"] \in UiLocals /\ [UiIdle EXCEPT !.op = "join"].op = "join"
  BY <1>2 DEF UiLocals
<1>4. Looping \in DemuxerLocals /\ Looping.pc = "loop"
  BY <1>1 DEF Looping, DemuxerLocals
<1>5. /\ [Looping EXCEPT !.pc = "ended"] \in DemuxerLocals
      /\ [Looping EXCEPT !.pc = "ended"].pc = "ended"
  BY <1>4 DEF DemuxerLocals
<1>6. NoSeek \in [target : Int, file : Int] /\ NoSeek.target = 0 - 1
  BY <1>1 DEF NoSeek
<1> QED
  BY <1>2, <1>3, <1>4, <1>5, <1>6

(* A request is told from none by its target. *)
LEMMA RequestIsSome ==
  ASSUME NEW t \in Nat, fileNo \in Int
  PROVE  /\ [target |-> InFile(t), file |-> fileNo] \in [target : Int, file : Int]
         /\ [target |-> InFile(t), file |-> fileNo] # NoSeek
<1>1. InFile(t) \in Nat
  BY FramesAssumption DEF InFile
<1> QED
  BY <1>1, PlayRecords

(* Every step of the UI thread keeps it. *)
LEMMA UiKeepsPlaying == ASSUME PlayInv, UiFinishes \/ UiStarts PROVE PlayInv'
<1> USE DEF PlayInv, DemuxerLocals, UiFollowsFsm, ScrubHoldHasAnEnd, DecodeHoldHasAnEnd,
            StoppedHasNoThread, PauseHasAnEnd, PlayingHasThread, FrozenHasAnEnd, PauseClock,
            ResumeClock, AnnounceSteps, uiVars, fileVars, presenter,
            decoder
<1>1. CASE Request
  <2>1. /\ seekPending' \in [target : Int, file : Int] /\ seekPending' # NoSeek
    BY <1>1, RequestIsSome DEF Request
  <2> QED
    BY <1>1, <2>1 DEF Request, UiLocals
<1>2. CASE Notify
  <2>1. PICK next \in AnnounceSteps \cup {"done"} :
          NotifySeekBegin(ui.op, ui.target, next)
          /\ ui' = (IF next # "done" THEN [ui EXCEPT !.op = next]
                 ELSE IF fsm = "Seeking" THEN [ui EXCEPT !.op = "play"] ELSE UiIdle)
    BY <1>2 DEF Notify
  <2>2. /\ ui' \in UiLocals
        /\ ui'.op \in AnnounceSteps \cup {"idle", "play"}
        /\ ui'.op = "play" => fsm = "Seeking"
    BY <1>2, <2>1, PlayRecords DEF Notify, UiLocals
  <2>3. /\ fsm' = fsm /\ playerPaused' = playerPaused /\ scrubHold' = scrubHold
        /\ decodeHold' = decodeHold /\ seekPending' = seekPending /\ demuxer' = demuxer
        /\ fileNo' = fileNo /\ ui.op \in AnnounceSteps /\ pushing' = pushing
    BY <1>2 DEF Notify
  <2>4. FrozenHasAnEnd'
    <3>1. late' = (late \/ (ui.op = "still" /\ SeekOver))
      BY <1>2 DEF Notify
    <3>2. /\ ~discarding' => ~discarding
          /\ clock' = clock \/ ui.op = "still"
      BY <2>1 DEF NotifySeekBegin
    <3>3. CASE ui.op = "still"
      BY <2>3, <3>1, <3>3 DEF SeekOver
    <3>4. CASE ui.op # "still"
      BY <2>3, <3>1, <3>2, <3>4
    <3> QED
      BY <3>3, <3>4
  <2> QED
    BY <2>2, <2>3, <2>4
<1>3. CASE PlayAfterScrub
  BY <1>3, PlayRecords DEF PlayAfterScrub
<1>4. CASE FinishStop
  BY <1>4, PlayRecords DEF FinishStop
<1>5. CASE Pause
  BY <1>5, PlayRecords DEF Pause
<1>6. CASE Resume
  BY <1>6, PlayRecords DEF Resume
<1>7. CASE BeginScrub
  BY <1>7, PlayRecords DEF BeginScrub
<1>8. CASE CancelScrub
  BY <1>8, PlayRecords DEF CancelScrub
<1>9. CASE Stop
  BY <1>9, PlayRecords DEF Stop
<1>10. CASE OpenNext
  BY <1>10, PlayRecords DEF OpenNext
<1>11. ASSUME NEW t \in Targets, ConfirmScrub(t) PROVE PlayInv'
  BY <1>11, FramesAssumption, PlayRecords DEF ConfirmScrub, UiLocals
<1>12. ASSUME NEW t \in Targets, JumpTo(t) PROVE PlayInv'
  BY <1>12, FramesAssumption, PlayRecords DEF JumpTo, UiLocals
<1>13. ASSUME NEW t \in Targets, RemoteSeek(t) PROVE PlayInv'
  <2>1. /\ seekPending' \in [target : Int, file : Int] /\ seekPending' # NoSeek
    BY <1>13, FramesAssumption, RequestIsSome DEF RemoteSeek
  <2> QED
    BY <1>13, <2>1, PlayRecords DEF RemoteSeek
<1> QED
  BY <1>1, <1>2, <1>3, <1>4, <1>5, <1>6, <1>7, <1>8, <1>9, <1>10, <1>11, <1>12, <1>13
     DEF UiFinishes, UiStarts

(* So does every step of the demux thread and of the decode thread. *)
LEMMA ThreadsKeepPlaying == ASSUME PlayInv, SeekingThread \/ ShowingThread PROVE PlayInv'
<1> USE DEF PlayInv, DemuxerLocals, UiFollowsFsm, ScrubHoldHasAnEnd, DecodeHoldHasAnEnd,
            StoppedHasNoThread, PauseHasAnEnd, PlayingHasThread, FrozenHasAnEnd, PauseClock,
            ResumeClock, AnnounceSteps, uiVars, fileVars, presenter,
            decoder
<1>1. CASE TakeRequest
  BY <1>1, PlayRecords DEF TakeRequest
<1>2. CASE BeginSeek
  <2>1. PICK next \in AnnounceSteps \cup {"done"} :
          NotifySeekBegin(demuxer.pc, demuxer.target, next)
          /\ demuxer' = [demuxer EXCEPT !.pc = IF next = "done" THEN "hold" ELSE next]
    BY <1>2 DEF BeginSeek
  <2>2. /\ demuxer' \in DemuxerLocals
        /\ demuxer'.pc \in AnnounceSteps \cup {"hold"} /\ demuxer.pc \in AnnounceSteps
    BY <1>2, <2>1 DEF BeginSeek
  <2>3. UNCHANGED <<uiVars, playerPaused, scrubHold, decodeHold, seekPending, fileVars>>
    BY <1>2 DEF BeginSeek
  <2> QED
    BY <2>2, <2>3
<1>3. CASE RaiseHold
  BY <1>3 DEF RaiseHold
<1>4. CASE Reposition
  BY <1>4 DEF Reposition
<1>5. CASE LowerHold
  BY <1>5 DEF LowerHold
<1>6. CASE EndSeek
  BY <1>6 DEF EndSeek
<1>7. CASE LiftPause
  BY <1>7 DEF LiftPause
<1>8. CASE RestorePaused
  BY <1>8, PlayRecords DEF RestorePaused
<1>9. CASE EndThread
  BY <1>9 DEF EndThread
<1>10. CASE DecodeFrame \/ PushFrame
  <2>1. UNCHANGED <<uiVars, playerPaused, scrubHold, decodeHold, seekPending, demuxer, fileVars>>
    BY <1>10 DEF DecodeFrame, PushFrame
  <2>2. FrozenHasAnEnd'
    <3>1. CASE DecodeFrame
      BY <2>1, <3>1 DEF DecodeFrame
    <3>2. CASE TestWindow
      BY <2>1, <3>2 DEF TestWindow
    <3>3. CASE CompareTarget
      BY <2>1, <3>3 DEF CompareTarget
    <3>4. CASE RestartClock
      BY <2>1, <3>4 DEF RestartClock
    <3>5. CASE CloseWindow
      BY <2>1, <3>5 DEF CloseWindow
    <3>6. CASE StartClock
      BY <2>1, <3>6 DEF StartClock
    <3> QED
      BY <1>10, <3>1, <3>2, <3>3, <3>4, <3>5, <3>6 DEF PushFrame
  <2> QED
    BY <2>1, <2>2
<1> QED
  BY <1>1, <1>2, <1>3, <1>4, <1>5, <1>6, <1>7, <1>8, <1>9, <1>10 DEF SeekingThread, ShowingThread

\* The invariant holds in every reachable state of a session.
THEOREM PlayInvariant == PlaySpec => []PlayInv
<1>1. PlayInit => PlayInv
  BY PlayRecords DEF PlayInit, PlayInv, UiFollowsFsm, ScrubHoldHasAnEnd, DecodeHoldHasAnEnd,
     StoppedHasNoThread, PauseHasAnEnd, PlayingHasThread, FrozenHasAnEnd, AnnounceSteps
<1>2. PlayInv /\ [PlayNext]_seekVars => PlayInv'
  <2> SUFFICES ASSUME PlayInv, [PlayNext]_seekVars PROVE PlayInv'
    OBVIOUS
  <2>1. CASE UNCHANGED seekVars
    BY <2>1 DEF seekVars, uiVars, fileVars, presenter, decoder, PlayInv, DemuxerLocals,
       UiFollowsFsm, ScrubHoldHasAnEnd, DecodeHoldHasAnEnd, StoppedHasNoThread, PauseHasAnEnd,
       PlayingHasThread, FrozenHasAnEnd
  <2>2. CASE PlayNext
    BY <2>2, UiKeepsPlaying, ThreadsKeepPlaying DEF PlayNext
  <2> QED
    BY <2>1, <2>2
<1> QED
  BY <1>1, <1>2, PTL DEF PlaySpec

(***************************************************************************)
(* Nothing is left held: for every file, every number of seeks and every   *)
(* overlap of pauses, scrubs, remote commands and seeks, Playing with no   *)
(* seek around means that player_paused and both holds are down.           *)
(***************************************************************************)
THEOREM PlayingMeansRunning == PlaySpec => []PlayingRuns
<1>1. PlayInv => PlayingRuns
  BY PlayRecords DEF PlayInv, ScrubHoldHasAnEnd, DecodeHoldHasAnEnd, PauseHasAnEnd,
     PlayingRuns, NoSeekAround
<1> QED
  BY PlayInvariant, <1>1, PTL

(***************************************************************************)
(* The picture is not left frozen: for every file, every number of seeks   *)
(* and every order of the unlocked steps in which a seek is announced, a   *)
(* frame pushed and a window closed, the clock of a playing file with no   *)
(* seek around runs or has an open window before it, unless an             *)
(* announcement came after the seek it announces.                          *)
(***************************************************************************)
THEOREM PictureNotFrozen == PlaySpec => []NotFrozen
<1>1. PlayInv => NotFrozen
  BY DEF PlayInv, FrozenHasAnEnd, NotFrozen, NeverFrozen, NoSeekAround
<1> QED
  BY PlayInvariant, <1>1, PTL

-----------------------------------------------------------------------------
(***************************************************************************)
(* SessionThreads. While the hardware answers, a decoder is only ever used *)
(* by the thread of its own file and never freed under it. The invariant   *)
(* says why: a stop that has gone past its wait has seen the thread end,   *)
(* so at any time at most the last file's thread is alive.                 *)
(***************************************************************************)
SessionTypes ==
  /\ now \in 0..MaxSessions
  /\ uiPc # "idle" => now # 0
  /\ uiPc \in {"idle", "playing", "joining", "waiting", "closing", "reset", "rebuild", "stuck"}
  /\ vthread \in [Sessions -> {"none", "top", "call", "stuck", "ended"}]
  /\ decoderOf \in [Sessions -> 0..MaxSessions]

\* No thread of an earlier file is left, and past the wait none of this one.
EarlierAreGone ==
  \A s \in Sessions :
    s # now \/ uiPc \in {"closing", "reset", "rebuild", "idle"} => vthread[s] \in {"none", "ended"}

\* A thread is in the decoder of the file that plays.
InCurrentDecoder == \A s \in Sessions : vthread[s] = "call" => decoderOf[s] = now

\* Decoders of later files are not freed, this file's when its stop is over.
ClosedAreOver == \A d \in closed : d \in 1..now /\ (d = now => uiPc = "idle")

\* Every call is answered, so the watchdog has nothing to say.
AllAnswered == /\ ~hung /\ demux # "stuck" /\ uiPc # "stuck"
               /\ \A s \in Sessions : vthread[s] # "stuck"

OneThread == AllAnswered /\ EarlierAreGone /\ InCurrentDecoder /\ ClosedAreOver

SessionInv == SessionTypes /\ (~silent => OneThread)

\* The initial state satisfies the invariant.
LEMMA SessionStarts == SessionInit => SessionInv
  BY SessionsAssumption
  DEF SessionInit, SessionInv, SessionTypes, OneThread, AllAnswered, EarlierAreGone, InCurrentDecoder,
      ClosedAreOver, Sessions

\* The types are kept by every step.
LEMMA SessionTypesKept == SessionTypes /\ [SessionNext]_sessionVars => SessionTypes'
<1> SUFFICES ASSUME SessionTypes, [SessionNext]_sessionVars PROVE SessionTypes'
  OBVIOUS
<1> USE SessionsAssumption DEF SessionTypes, Sessions
<1>1. CASE StartSession
  BY <1>1 DEF StartSession
<1>2. CASE StopSession \/ StopStep \/ CloseSticks
  BY <1>2 DEF StopSession, StopStep, JoinDemux, JoinThread, LeaveThread, CloseDecoder,
              CloseReturns, CloseSticks
<1>3. ASSUME NEW s \in Sessions, VideoThread(s) \/ Stick(s) \/ Unstick(s)
      PROVE  SessionTypes'
  <2>1. CASE EnterDecoder(s)
    BY <2>1, <1>3 DEF EnterDecoder
  <2>2. CASE LeaveDecoder(s)
    BY <2>2, <1>3 DEF LeaveDecoder
  <2>3. CASE ThreadExits(s)
    BY <2>3, <1>3 DEF ThreadExits
  <2>4. CASE Stick(s)
    BY <2>4, <1>3 DEF Stick
  <2>5. CASE Unstick(s)
    BY <2>5, <1>3 DEF Unstick
  <2>6. QED
    BY <1>3, <2>1, <2>2, <2>3, <2>4, <2>5 DEF VideoThread
<1>4. CASE HoldForSeek \/ FlushSticks \/ FlushThread \/ Watchdog \/ UNCHANGED sessionVars
  BY <1>4 DEF HoldForSeek, FlushSticks, FlushThread, FlushBegin, FlushEnd, DemuxExits, Watchdog,
              sessionVars
<1>5. QED
  BY <1>1, <1>2, <1>3, <1>4 DEF SessionNext

\* What has gone unanswered has: the history variable is never cleared.
LEMMA SilentStays == ASSUME [SessionNext]_sessionVars, silent PROVE silent'
  BY DEF SessionNext, sessionVars, StartSession, StopSession, StopStep, JoinDemux, JoinThread,
         LeaveThread, CloseDecoder, CloseReturns, CloseSticks, HoldForSeek, FlushSticks,
         FlushThread, FlushBegin, FlushEnd, DemuxExits, VideoThread, EnterDecoder, LeaveDecoder, ThreadExits, Stick, Unstick, Watchdog

\* While nothing has, every step keeps the threads in order.
LEMMA OneThreadKept ==
  ASSUME SessionTypes, OneThread, ~silent, ~silent', [SessionNext]_sessionVars
  PROVE  OneThread'
<1> USE SessionsAssumption
    DEF SessionTypes, Sessions, OneThread, AllAnswered, EarlierAreGone, InCurrentDecoder,
        ClosedAreOver
<1>1. CASE StartSession
  <2>1. \A s \in Sessions : vthread'[s] = vthread[s] \/ (s = now' /\ vthread'[s] = "top")
    BY <1>1 DEF StartSession
  <2>2. AllAnswered' /\ EarlierAreGone'
    BY <1>1, <2>1 DEF StartSession
  <2>3. InCurrentDecoder' /\ ClosedAreOver'
    BY <1>1, <2>1 DEF StartSession
  <2>4. QED
    BY <2>2, <2>3
<1>2. CASE StopSession
  BY <1>2 DEF StopSession
<1>3. CASE JoinThread
  BY <1>3 DEF JoinThread
<1>4. CASE LeaveThread
  BY <1>4 DEF LeaveThread
<1>5. CASE CloseDecoder \/ CloseReturns \/ CloseSticks
  BY <1>5 DEF CloseDecoder, CloseReturns, CloseSticks
<1>6. CASE Watchdog
  BY <1>6 DEF Watchdog
<1>7. ASSUME NEW s \in Sessions, EnterDecoder(s)
      PROVE  OneThread'
  BY <1>7 DEF EnterDecoder
<1>8. ASSUME NEW s \in Sessions, LeaveDecoder(s) \/ ThreadExits(s) \/ Stick(s) \/ Unstick(s)
      PROVE  OneThread'
  BY <1>8 DEF LeaveDecoder, ThreadExits, Stick, Unstick
<1>9. CASE HoldForSeek \/ FlushSticks \/ FlushThread
  BY <1>9 DEF HoldForSeek, FlushSticks, FlushThread, FlushBegin, FlushEnd, DemuxExits
<1>10. CASE UNCHANGED sessionVars
  BY <1>10 DEF sessionVars
<1>11. CASE JoinDemux
  BY <1>11 DEF JoinDemux
<1>12. QED
  BY <1>1, <1>2, <1>3, <1>4, <1>5, <1>6, <1>7, <1>8, <1>9, <1>10, <1>11
  DEF SessionNext, StopStep, VideoThread

LEMMA SessionKeeps == SessionInv /\ [SessionNext]_sessionVars => SessionInv'
  BY SessionTypesKept, SilentStays, OneThreadKept DEF SessionInv

LEMMA SessionAlways == SessionSpec => []SessionInv
  BY SessionStarts, SessionKeeps, PTL DEF SessionSpec

\* As long as the hardware answers, no decoder is freed under a thread and no
\* two threads are in one (stopPlayback, PlaybackController.cpp:606-623).
THEOREM OwnDecoderOnly == SessionSpec => []DecoderIsExclusive
<1>1. SessionInv => DecoderIsExclusive
  BY SessionsAssumption
  DEF SessionInv, SessionTypes, OneThread, EarlierAreGone, InCurrentDecoder, ClosedAreOver,
      DecoderIsExclusive, InUse, Sessions
<1>2. QED
  BY <1>1, SessionAlways, PTL
-----------------------------------------------------------------------------
(***************************************************************************)
(* PcmRing. CountBounded is not inductive: a thread between its load and   *)
(* its store carries a count that others have changed since. What bounds   *)
(* it is what the thread had seen before: the decode thread room for a     *)
(* block, the output thread a block to play; and each can be contradicted  *)
(* only by the other's single store, or by a seek.                         *)
(***************************************************************************)
Limit == Blocks - Brim

\* A decode thread that has seen room finds it still there, up to its store.
RoomSeen ==
  /\ pushPc \in {"store", "load"} => pcmCount < Limit
  /\ pushPc = "add" => pcmCount < Limit /\ pushed \in -1..(Limit - 1)

\* An output thread that has seen a block stores nothing below -1.
BlockSeen ==
  /\ playPc \in {"play", "load"} => pcmCount >= 0
  /\ playPc = "subtract" => pcmCount >= 0 /\ played \in 0..Limit

PcmInv ==
  /\ CountBounded
  /\ pushPc \in {"packet", "room", "store", "load", "add"}
  /\ playPc \in {"look", "play", "load", "subtract"}
  /\ owing \in Int
  /\ RoomSeen
  /\ BlockSeen
-----------------------------------------------------------------------------
LEMMA LimitPositive == Limit \in Nat /\ Limit > 0 /\ Blocks \in Nat \ {0}
BY PcmAssumption DEF Limit

\* An index that steps stays in the ring.
LEMMA StepsRound == ASSUME NEW i \in 0..(Blocks - 1) PROVE (i + 1) % Blocks \in 0..(Blocks - 1)
BY LimitPositive

LEMMA PcmInitInv == PcmInit => PcmInv
BY LimitPositive DEF PcmInit, PcmInv, CountBounded, RoomSeen, BlockSeen, Limit

LEMMA PcmStepInv == PcmInv /\ [PcmNext]_pcmVars => PcmInv'
<1> SUFFICES ASSUME PcmInv, [PcmNext]_pcmVars PROVE PcmInv'
  OBVIOUS
<1> USE LimitPositive DEF PcmInv, CountBounded, RoomSeen, BlockSeen, Limit
<1>1. CASE DecodePacket
  BY <1>1 DEF DecodePacket, playVars
<1>2. CASE SeeRoom
  BY <1>2 DEF SeeRoom, playVars
<1>3. CASE PushBlock
  <2>1. writeAt' \in 0..(Blocks - 1)
    BY <1>3, StepsRound DEF PushBlock
  <2> QED BY <1>3, <2>1 DEF PushBlock, playVars
<1>4. CASE PushLoad
  BY <1>4 DEF PushLoad, playVars
<1>5. CASE PushAdd
  BY <1>5 DEF PushAdd, playVars
<1>6. CASE Look
  BY <1>6 DEF Look, pushVars
<1>7. CASE PlayBlock
  <2>1. readAt' \in 0..(Blocks - 1)
    BY <1>7, StepsRound DEF PlayBlock
  <2> QED BY <1>7, <2>1 DEF PlayBlock, pushVars
<1>8. CASE PlayLoad
  BY <1>8 DEF PlayLoad, pushVars
<1>9. CASE PlaySubtract
  BY <1>9 DEF PlaySubtract, pushVars
<1>10. CASE ResetCount
  BY <1>10 DEF ResetCount, pushVars, playVars
<1>11. CASE ResetRead
  BY <1>11 DEF ResetRead, pushVars, playVars
<1>12. CASE ResetWrite
  BY <1>12 DEF ResetWrite, pushVars, playVars
<1>13. CASE UNCHANGED pcmVars
  BY <1>13 DEF pcmVars, pushVars, playVars
<1>q. QED
  BY <1>1, <1>2, <1>3, <1>4, <1>5, <1>6, <1>7, <1>8, <1>9, <1>10, <1>11, <1>12, <1>13
  DEF PcmNext, PushThread, PlayThread

\* The count of decoded blocks never leaves -1 .. Blocks - Brim, whatever
\* updates are lost and whenever a seek resets it (audio_queue_count).
THEOREM CountStaysBounded == PcmSpec => []CountBounded
<1>1. PcmInv => CountBounded
  BY DEF PcmInv
<1>2. QED
  BY PcmInitInv, PcmStepInv, <1>1, PTL DEF PcmSpec
-----------------------------------------------------------------------------
(***************************************************************************)
(* DemuxRecovery.  What a stream's consumer was given is what was read     *)
(* from where reading began up to the farthest packet, because a stretch   *)
(* read again is dropped up to the newest packet of each stream: while the *)
(* reader is behind the farthest packet both streams are catching up, and  *)
(* the last stamps are those of the newest packets.                        *)
(***************************************************************************)
StampsGrow ==
  \A i, j \in DOMAIN Packets :
    i < j /\ Packets[i].s = Packets[j].s /\ Stamped(Packets[i]) /\ Stamped(Packets[j])
      => Packets[i].ts < Packets[j].ts

KeysAreVideo == \A i \in DOMAIN Packets : Packets[i].key => Packets[i].s = "v" /\ Stamped(Packets[i])

\* The stamped packets of a stream from where reading began; the consumers may
\* be owed fewer of them.
Reached(s) == {k \in begun..(frontier - 1) : Packets[k].s = s /\ Stamped(Packets[k])}

\* stamp is the stamp of the newest packet of stream s, if one was read.
Newest(s, stamp) ==
  /\ stamp = NoTs => Reached(s) = {}
  /\ stamp # NoTs => \E k \in Reached(s) : Packets[k].ts = stamp /\ \A l \in Reached(s) : l <= k

RecoveryTypes ==
  /\ Packets \in Seq(FilePackets) /\ StampsGrow /\ KeysAreVideo
  /\ begun \in Nat \ {0} /\ rpos \in Nat /\ frontier \in Nat
  /\ begun <= rpos /\ rpos <= frontier /\ frontier <= Len(Packets) + 1
  /\ owed \in Nat /\ owed <= frontier
  /\ begun # 1 => KeyAt(begun)
  /\ handed \in [StreamIds -> Seq(Nat)]
  /\ \A s \in StreamIds : \A i \in DOMAIN handed[s] :
       handed[s][i] < frontier /\ (s # "t" => handed[s][i] \in begun .. (frontier - 1))

CatchesUp ==
  /\ Newest("v", lastV) /\ Newest("a", lastA)
  /\ catching \subseteq {"v", "a"}
  /\ "v" \in catching => lastV # NoTs
  /\ "a" \in catching => lastA # NoTs
  /\ rpos < frontier => "v" \in catching /\ (lastA = NoTs \/ "a" \in catching)

RecoveryInv == RecoveryTypes /\ CatchesUp /\ PacketsOnce

\* What the failing steps leave of it, whatever they do to the reader.
LEMMA SameFile ==
  ASSUME UNCHANGED <<file, handed, begun, frontier, owed>>
  PROVE  /\ Packets' = Packets /\ PacketsOnce' = PacketsOnce
         /\ StampsGrow' = StampsGrow /\ KeysAreVideo' = KeysAreVideo
         /\ \A s : Reached(s)' = Reached(s)
         /\ \A k : KeyAt(k)' = KeyAt(k)
<1>1. Packets' = Packets
  BY DEF Packets
<1>2. \A s : Reached(s)' = Reached(s) /\ Wanted(s)' = Wanted(s) /\ Given(s)' = Given(s)
  BY <1>1 DEF Reached, Wanted, Given, Stamped
<1>3. PacketsOnce' = PacketsOnce
  BY <1>2 DEF PacketsOnce
<1>4. StampsGrow' = StampsGrow /\ KeysAreVideo' = KeysAreVideo /\ \A k : KeyAt(k)' = KeyAt(k)
  BY <1>1 DEF StampsGrow, KeysAreVideo, KeyAt, Stamped
<1>5. QED
  BY <1>1, <1>2, <1>3, <1>4

\* Reading begins: nothing was given to a consumer, and no stamp is known.
Begins ==
  /\ Packets \in Seq(FilePackets) /\ StampsGrow /\ KeysAreVideo
  /\ begun \in Nat \ {0} /\ rpos = begun /\ frontier = begun /\ owed = begun
  /\ begun <= Len(Packets) + 1 /\ (begun # 1 => KeyAt(begun))
  /\ handed = Empty /\ lastV = NoTs /\ lastA = NoTs /\ catching = {}

LEMMA FreshReader == Begins => RecoveryInv
<1> SUFFICES ASSUME Begins PROVE RecoveryInv
  OBVIOUS
<1> USE DEF Begins
<1>1. \A s : Reached(s) = {} /\ Wanted(s) = {}
  BY DEF Reached, Wanted
<1>2. \A s \in StreamIds : handed[s] = <<>>
  BY DEF Empty
<1>3. \A s \in StreamIds : Given(s) = {}
  BY <1>2 DEF Given
<1>4. PacketsOnce
  BY <1>1, <1>2, <1>3 DEF PacketsOnce, StreamIds
<1>5. RecoveryTypes
  BY <1>2 DEF RecoveryTypes, Empty
<1>6. CatchesUp
  BY <1>1 DEF CatchesUp, Newest
<1>7. QED
  BY <1>4, <1>5, <1>6 DEF RecoveryInv

LEMMA RecoveryStarts == RecoveryInit => RecoveryInv
<1> SUFFICES ASSUME RecoveryInit PROVE RecoveryInv
  OBVIOUS
<1>1. Packets = <<>> /\ Packets \in Seq(FilePackets) /\ Len(Packets) = 0
  BY DEF RecoveryInit, Packets
<1>2. StampsGrow /\ KeysAreVideo
  BY <1>1 DEF StampsGrow, KeysAreVideo
<1>3. QED
  BY <1>1, <1>2, FreshReader DEF RecoveryInit, Begins

LEMMA FileIs ==
  ASSUME file \in Files
  PROVE  Packets \in Seq(FilePackets) /\ StampsGrow /\ KeysAreVideo /\ Len(Packets) \in Nat
<1>1. Packets \in Seq(FilePackets)
  BY FilesAssumption DEF Packets
<1>2. StampsGrow
  BY FilesAssumption DEF Packets, StampsGrow
<1>3. KeysAreVideo
  BY FilesAssumption DEF Packets, KeysAreVideo
<1>4. QED
  BY <1>1, <1>2, <1>3

LEMMA BeginFileKeeps == ASSUME BeginFile PROVE RecoveryInv'
<1>1. (file \in Files)'
  BY DEF BeginFile
<1>2. (Packets \in Seq(FilePackets) /\ StampsGrow /\ KeysAreVideo /\ Len(Packets) \in Nat)'
  BY <1>1, FileIs, PTL
<1>3. Begins'
  BY <1>2 DEF BeginFile, RecoverReset, Empty, Begins
<1>4. QED
  BY <1>3, FreshReader, PTL

LEMMA UserSeekKeeps == ASSUME RecoveryInv, UserSeek PROVE RecoveryInv'
<1>1. /\ file' = file /\ handed' = Empty
      /\ \E k \in 1 .. Len(Packets) : KeyAt(k) /\ rpos' = k /\ begun' = k /\ frontier' = k /\ owed' = k
      /\ lastV' = NoTs /\ lastA' = NoTs /\ catching' = {}
  BY DEF UserSeek, RecoverReset
<1>2. Packets' = Packets
  BY <1>1 DEF Packets
<1>3. StampsGrow' /\ KeysAreVideo' /\ \A k : KeyAt(k)' = KeyAt(k)
  BY <1>2 DEF RecoveryInv, RecoveryTypes, StampsGrow, KeysAreVideo, KeyAt, Stamped
<1>4. Begins'
  BY <1>1, <1>2, <1>3 DEF Begins, RecoveryInv, RecoveryTypes, Empty
<1>5. QED
  BY <1>4, FreshReader, PTL

\* A failing seek gives up what was handed on; the newest stamps stay those of
\* the packets read.
LEMMA UserSeekFailsKeeps == ASSUME RecoveryInv, UserSeekFails PROVE RecoveryInv'
<1>1. /\ handed' = Empty /\ owed' = frontier
      /\ UNCHANGED <<file, rpos, lastV, lastA, catching, begun, frontier>>
  BY DEF UserSeekFails
<1>2. Packets' = Packets
  BY <1>1 DEF Packets
<1>3. \A s \in StreamIds : handed'[s] = <<>>
  BY <1>1 DEF Empty
<1>4. \A s \in StreamIds : Given(s)' = {}
  BY <1>3 DEF Given
<1>5. \A s : Wanted(s)' = {}
  BY <1>1 DEF Wanted, RecoveryInv, RecoveryTypes
<1>6. PacketsOnce'
  BY <1>3, <1>4, <1>5 DEF PacketsOnce, StreamIds
<1>7. RecoveryTypes'
  <2>1. StampsGrow' /\ KeysAreVideo' /\ \A k : KeyAt(k)' = KeyAt(k)
    BY <1>2 DEF RecoveryInv, RecoveryTypes, StampsGrow, KeysAreVideo, KeyAt, Stamped
  <2>2. handed' \in [StreamIds -> Seq(Nat)]
    BY <1>1 DEF Empty
  <2> QED
    BY <1>1, <1>2, <1>3, <2>1, <2>2 DEF RecoveryInv, RecoveryTypes
<1>8. \A s : Reached(s)' = Reached(s)
  BY <1>1, <1>2 DEF Reached, Stamped
<1>9. CatchesUp'
  BY <1>1, <1>2, <1>8 DEF RecoveryInv, CatchesUp, Newest
<1> QED
  BY <1>6, <1>7, <1>9 DEF RecoveryInv

LEMMA StampIs ==
  ASSUME Packets \in Seq(FilePackets), NEW k \in DOMAIN Packets, Stamped(Packets[k])
  PROVE  Packets[k].ts \in Int
<1>1. Packets[k] \in FilePackets
  OBVIOUS
<1>2. Packets[k].ts \in Int \cup {NoTs}
  BY <1>1 DEF FilePackets, Stamps
<1>3. QED
  BY <1>2 DEF Stamped

LEMMA RecoverKeeps == ASSUME RecoveryInv, Recover PROVE RecoveryInv'
<1>1. /\ UNCHANGED <<file, handed, begun, frontier, owed, lastV, lastA>>
      /\ rpos' \in {rpos} \cup LastKey
      /\ catching' = {"v"} \cup (IF lastA = NoTs THEN {} ELSE {"a"})
      /\ lastV # NoTs
  BY DEF Recover, Final, source
<1>2. /\ Packets' = Packets /\ PacketsOnce' = PacketsOnce
      /\ StampsGrow' = StampsGrow /\ KeysAreVideo' = KeysAreVideo
      /\ \A s : Reached(s)' = Reached(s)
      /\ \A k : KeyAt(k)' = KeyAt(k)
  BY <1>1, SameFile
<1>3. PICK n \in Reached("v") : Packets[n].ts = lastV /\ \A l \in Reached("v") : l <= n
  BY <1>1 DEF RecoveryInv, CatchesUp, Newest
<1>4. n \in begun .. (frontier - 1) /\ n \in DOMAIN Packets /\ Packets[n].s = "v" /\ Stamped(Packets[n])
      /\ begun \in Nat \ {0} /\ frontier \in Nat /\ frontier <= Len(Packets) + 1
      /\ Packets \in Seq(FilePackets)
  BY <1>3 DEF Reached, RecoveryInv, RecoveryTypes
<1>5. ASSUME NEW k \in LastKey PROVE k \in begun .. (frontier - 1)
  <2>1. /\ k \in DOMAIN Packets /\ k \in Nat /\ Packets[k].s = "v" /\ Stamped(Packets[k])
        /\ Packets[k].ts <= lastV /\ (\A l \in KeysToLast : l <= k) /\ Packets[k].ts \in Int
    BY <1>4, StampIs DEF LastKey, KeysToLast, KeyAt, RecoveryInv, RecoveryTypes, KeysAreVideo
  <2>2. k <= n
    <3>1. n < k => Packets[n].ts < Packets[k].ts
      BY <1>4, <2>1 DEF RecoveryInv, RecoveryTypes, StampsGrow
    <3>2. Packets[n].ts \in Int
      BY <1>4, StampIs
    <3>3. QED
      BY <1>3, <1>4, <2>1, <3>1, <3>2
  <2>3. begun <= k
    <3>1. CASE begun = 1
      BY <2>1, <3>1, <1>4
    <3>2. CASE begun # 1
      <4>1. KeyAt(begun) /\ begun \in DOMAIN Packets /\ Packets[begun].s = "v" /\ Stamped(Packets[begun])
        BY <3>2 DEF RecoveryInv, RecoveryTypes, KeyAt, KeysAreVideo
      <4>2. begun < n => Packets[begun].ts < Packets[n].ts
        BY <1>4, <4>1 DEF RecoveryInv, RecoveryTypes, StampsGrow
      <4>3. Packets[begun].ts \in Int /\ Packets[n].ts \in Int
        BY <1>4, <4>1, StampIs
      <4>4. Packets[begun].ts <= lastV
        BY <1>3, <1>4, <4>2, <4>3
      <4>5. begun \in KeysToLast
        BY <1>4, <4>1, <4>4 DEF KeysToLast
      <4>6. QED
        BY <2>1, <4>5
    <3>3. QED
      BY <3>1, <3>2
  <2>4. QED
    BY <1>4, <2>1, <2>2, <2>3
<1>6. rpos' \in Nat /\ begun <= rpos' /\ rpos' <= frontier
  BY <1>1, <1>4, <1>5 DEF RecoveryInv, RecoveryTypes
<1>7. RecoveryTypes'
  BY <1>1, <1>2, <1>6 DEF RecoveryInv, RecoveryTypes
<1>8. CatchesUp'
  BY <1>1, <1>2 DEF RecoveryInv, CatchesUp, Newest
<1>9. QED
  BY <1>2, <1>7, <1>8 DEF RecoveryInv

\* Which packets are dropped: the stamped ones of a stretch that is read again.
LEMMA OldOnesAreDropped ==
  ASSUME RecoveryInv, rpos \in DOMAIN Packets, NEW s \in {"v", "a"}, Packets[rpos].s = s,
         Stamped(Packets[rpos])
  PROVE  AlreadyHave(Packets[rpos]) <=> rpos < frontier
<1> DEFINE p == Packets[rpos]
           stamp == IF s = "v" THEN lastV ELSE lastA
<1>1. AlreadyHave(p) <=> s \in catching /\ p.ts <= stamp
  BY DEF AlreadyHave
<1>2. /\ Newest(s, stamp) /\ (s \in catching => stamp # NoTs)
      /\ rpos < frontier => stamp = NoTs \/ s \in catching
  BY DEF RecoveryInv, CatchesUp
<1>3. /\ Packets \in Seq(FilePackets) /\ begun \in Nat \ {0} /\ rpos \in Nat /\ frontier \in Nat
      /\ begun <= rpos /\ rpos <= frontier /\ frontier <= Len(Packets) + 1 /\ StampsGrow
  BY DEF RecoveryInv, RecoveryTypes
<1>4. \A k \in DOMAIN Packets : Stamped(Packets[k]) => Packets[k].ts \in Int
  BY <1>3, StampIs
<1>5. \A k \in Reached(s) : /\ k \in Nat /\ k \in DOMAIN Packets /\ k < frontier
                           /\ Packets[k].s = s /\ Stamped(Packets[k])
  BY <1>3 DEF Reached
<1> HIDE DEF stamp
<1>6. ASSUME rpos < frontier PROVE AlreadyHave(p)
  <2>1. rpos \in Reached(s)
    BY <1>3, <1>6 DEF Reached
  <2>2. stamp # NoTs
    BY <1>2, <2>1 DEF Newest
  <2>3. PICK k \in Reached(s) : Packets[k].ts = stamp /\ \A l \in Reached(s) : l <= k
    BY <1>2, <2>2 DEF Newest
  <2>4. rpos < k => p.ts < Packets[k].ts
    BY <1>3, <1>5 DEF StampsGrow
  <2>5. p.ts \in Int /\ Packets[k].ts \in Int /\ rpos <= k
    BY <1>4, <1>5, <2>1, <2>3
  <2>6. p.ts <= stamp
    BY <1>3, <1>5, <2>3, <2>4, <2>5
  <2>7. QED
    BY <1>1, <1>2, <1>6, <2>2, <2>6
<1>7. ASSUME AlreadyHave(p) PROVE rpos < frontier
  <2>1. PICK k \in Reached(s) : Packets[k].ts = stamp
    BY <1>1, <1>2, <1>7 DEF Newest
  <2>2. k < rpos => Packets[k].ts < p.ts
    BY <1>3, <1>5 DEF StampsGrow
  <2>3. p.ts \in Int /\ Packets[k].ts \in Int /\ k \in Nat /\ k < frontier
    BY <1>4, <1>5
  <2>4. QED
    BY <1>1, <1>3, <1>7, <2>1, <2>2, <2>3
<1>8. QED
  BY <1>6, <1>7

\* Reading on by a packet.
LEMMA AdvanceIs ==
  ASSUME RecoveryInv, Advance, ~AtEof, file' = file, begun' = begun, owed' = owed
  PROVE  /\ rpos \in DOMAIN Packets /\ rpos' = rpos + 1 /\ Packets' = Packets
         /\ frontier' \in Nat /\ frontier <= frontier' /\ rpos' <= frontier'
         /\ frontier' <= Len(Packets) + 1 /\ (rpos' < frontier' => rpos < frontier)
         /\ \A s : Reached(s)' = IF /\ rpos = frontier
                                   /\ Packets[rpos].s = s /\ Stamped(Packets[rpos])
                                THEN Reached(s) \cup {rpos} ELSE Reached(s)
         /\ \A s : Wanted(s)' = IF /\ rpos = frontier
                                  /\ Packets[rpos].s = s /\ Stamped(Packets[rpos])
                               THEN Wanted(s) \cup {rpos} ELSE Wanted(s)
<1>1. /\ Packets \in Seq(FilePackets) /\ begun \in Nat \ {0} /\ rpos \in Nat /\ frontier \in Nat
      /\ begun <= rpos /\ rpos <= frontier /\ frontier <= Len(Packets) + 1
      /\ owed \in Nat /\ owed <= frontier
  BY DEF RecoveryInv, RecoveryTypes
<1>2. rpos \in DOMAIN Packets /\ rpos' = rpos + 1 /\ Packets' = Packets
  BY <1>1 DEF AtEof, Packets, Advance
<1>3. CASE rpos < frontier
  <2>1. frontier' = frontier
    BY <1>3 DEF Advance
  <2>2. \A s : Reached(s)' = Reached(s) /\ Wanted(s)' = Wanted(s)
    BY <1>2, <2>1 DEF Reached, Wanted, Stamped
  <2>3. QED
    BY <1>1, <1>2, <1>3, <2>1, <2>2
<1>4. CASE rpos = frontier
  <2>1. frontier' = frontier + 1
    BY <1>1, <1>4 DEF Advance
  <2>2. /\ begun .. (frontier' - 1) = (begun .. (frontier - 1)) \cup {rpos}
        /\ owed .. (frontier' - 1) = (owed .. (frontier - 1)) \cup {rpos}
    BY <1>1, <1>4, <2>1
  <2>3. ASSUME NEW s
        PROVE  /\ Reached(s)' = IF Packets[rpos].s = s /\ Stamped(Packets[rpos])
                                THEN Reached(s) \cup {rpos} ELSE Reached(s)
               /\ Wanted(s)' = IF Packets[rpos].s = s /\ Stamped(Packets[rpos])
                               THEN Wanted(s) \cup {rpos} ELSE Wanted(s)
    <3>1. Reached(s)' = IF Packets[rpos].s = s /\ Stamped(Packets[rpos])
                        THEN Reached(s) \cup {rpos} ELSE Reached(s)
      BY <1>2, <2>2 DEF Reached, Stamped
    <3>2. Wanted(s)' = IF Packets[rpos].s = s /\ Stamped(Packets[rpos])
                       THEN Wanted(s) \cup {rpos} ELSE Wanted(s)
      BY <1>2, <2>2 DEF Wanted, Stamped
    <3> QED
      BY <3>1, <3>2
  <2>4. QED
    BY <1>1, <1>2, <1>4, <2>1, <2>3
<1>5. QED
  BY <1>1, <1>3, <1>4

LEMMA DropAgainKeeps == ASSUME RecoveryInv, DropAgain PROVE RecoveryInv'
<1> DEFINE p == Packets[rpos]
<1>1. /\ ~AtEof /\ AlreadyHave(p) /\ Advance
      /\ UNCHANGED <<file, handed, begun, owed, lastV, lastA, catching>>
  BY DEF DropAgain, source
<1>2. /\ rpos \in DOMAIN Packets /\ rpos' = rpos + 1 /\ Packets' = Packets
      /\ frontier' \in Nat /\ frontier <= frontier' /\ rpos' <= frontier'
      /\ frontier' <= Len(Packets) + 1 /\ (rpos' < frontier' => rpos < frontier)
  BY <1>1, AdvanceIs
<1>3. \A s \in {"v", "a"} : Reached(s)' = Reached(s) /\ Wanted(s)' = Wanted(s)
  <2> SUFFICES ASSUME NEW s \in {"v", "a"}, rpos = frontier, p.s = s, Stamped(p) PROVE FALSE
    BY <1>1, AdvanceIs
  <2>1. rpos < frontier
    BY <1>1, <1>2, OldOnesAreDropped
  <2>2. QED
    BY <2>1 DEF RecoveryInv, RecoveryTypes
<1>4. \A s : Given(s)' = Given(s)
  BY <1>1, <1>2 DEF Given, Stamped
<1>5. PacketsOnce'
  BY <1>1, <1>3, <1>4 DEF RecoveryInv, PacketsOnce
<1>6. RecoveryTypes'
  <2>1. StampsGrow' /\ KeysAreVideo' /\ \A k : KeyAt(k)' = KeyAt(k)
    BY <1>2 DEF RecoveryInv, RecoveryTypes, StampsGrow, KeysAreVideo, KeyAt, Stamped
  <2>2. \A s \in StreamIds : \A i \in DOMAIN handed[s] :
          handed[s][i] < frontier' /\ (s # "t" => handed[s][i] \in begun .. (frontier' - 1))
    <3> SUFFICES ASSUME NEW s \in StreamIds, NEW i \in DOMAIN handed[s]
                 PROVE  handed[s][i] < frontier' /\ (s # "t" => handed[s][i] \in begun .. (frontier' - 1))
      OBVIOUS
    <3>1. /\ handed[s][i] < frontier /\ (s # "t" => handed[s][i] \in begun .. (frontier - 1))
          /\ handed[s][i] \in Nat /\ frontier \in Nat /\ begun \in Nat
      BY DEF RecoveryInv, RecoveryTypes
    <3>2. QED
      BY <1>2, <3>1
  <2>3. QED
    BY <1>1, <1>2, <2>1, <2>2 DEF RecoveryInv, RecoveryTypes
<1>7. CatchesUp'
  BY <1>1, <1>2, <1>3 DEF RecoveryInv, CatchesUp, Newest
<1>8. QED
  BY <1>5, <1>6, <1>7 DEF RecoveryInv

LEMMA KeepKeeps == ASSUME RecoveryInv, Keep PROVE RecoveryInv'
<1> DEFINE p == Packets[rpos]
<1>1. /\ ~AtEof /\ ~AlreadyHave(p) /\ Advance
      /\ UNCHANGED <<file, begun, owed>>
      /\ catching' = catching \ {p.s}
      /\ lastV' = IF p.s = "v" /\ Stamped(p) THEN p.ts ELSE lastV
      /\ lastA' = IF p.s = "a" /\ Stamped(p) THEN p.ts ELSE lastA
      /\ handed' = [handed EXCEPT ![p.s] = Append(handed[p.s], rpos)]
  BY DEF Keep, source
<1>2. /\ rpos \in DOMAIN Packets /\ rpos' = rpos + 1 /\ Packets' = Packets
      /\ frontier' \in Nat /\ frontier <= frontier' /\ rpos' <= frontier'
      /\ frontier' <= Len(Packets) + 1 /\ (rpos' < frontier' => rpos < frontier)
      /\ \A s : Reached(s)' = IF rpos = frontier /\ p.s = s /\ Stamped(p)
                              THEN Reached(s) \cup {rpos} ELSE Reached(s)
      /\ \A s : Wanted(s)' = IF rpos = frontier /\ p.s = s /\ Stamped(p)
                             THEN Wanted(s) \cup {rpos} ELSE Wanted(s)
  BY <1>1, AdvanceIs
<1>3. /\ Packets \in Seq(FilePackets) /\ begun \in Nat \ {0} /\ rpos \in Nat /\ frontier \in Nat
      /\ begun <= rpos /\ rpos <= frontier /\ handed \in [StreamIds -> Seq(Nat)]
      /\ \A s \in StreamIds : \A i \in DOMAIN handed[s] :
           handed[s][i] < frontier /\ (s # "t" => handed[s][i] \in begun .. (frontier - 1))
  BY DEF RecoveryInv, RecoveryTypes
<1>4. PICK t \in StreamIds : t = p.s
  <2>1. p \in FilePackets
    BY <1>2, <1>3
  <2>2. QED
    BY <2>1 DEF FilePackets
<1>5. /\ p.s \in {"v", "a"} /\ Stamped(p) => rpos = frontier
      /\ rpos < frontier => /\ p.s = "a" /\ ~Stamped(p) /\ "a" \notin catching
                            /\ "v" \in catching /\ lastA = NoTs
  <2>1. p.s \in {"v", "a"} /\ Stamped(p) => rpos = frontier
    BY <1>1, <1>2, <1>3, OldOnesAreDropped
  <2>2. rpos < frontier => "v" \in catching /\ (lastA = NoTs \/ "a" \in catching)
    BY DEF RecoveryInv, CatchesUp
  <2>3. ASSUME rpos < frontier PROVE p.s = "a" /\ ~Stamped(p) /\ "a" \notin catching
    <3>1. p.s # "t"
      BY <1>1, <2>2, <2>3 DEF AlreadyHave
    <3>2. p.s \in {"v", "a"} /\ ~Stamped(p)
      BY <1>3, <1>4, <2>1, <2>3, <3>1 DEF StreamIds
    <3>3. p.s \notin catching
      BY <1>1, <3>2 DEF AlreadyHave
    <3>4. QED
      BY <2>2, <2>3, <3>2, <3>3
  <2>4. QED
    BY <2>1, <2>2, <2>3
<1> DEFINE h == handed[t]
           n == Len(h)
<1>6. /\ h \in Seq(Nat) /\ n \in Nat
      /\ handed' \in [StreamIds -> Seq(Nat)]
      /\ handed'[t] \in Seq(Nat) /\ DOMAIN handed'[t] = 1 .. (n + 1) /\ DOMAIN h = 1 .. n
      /\ \A i \in 1 .. n : handed'[t][i] = h[i]
      /\ handed'[t][n + 1] = rpos
      /\ \A s \in StreamIds : s # t => handed'[s] = handed[s]
  <2>1. h \in Seq(Nat) /\ n \in Nat
    BY <1>3, <1>4
  <2>2. handed'[t] = Append(h, rpos) /\ Append(h, rpos) \in Seq(Nat)
    BY <1>1, <1>3, <1>4, <2>1
  <2>3. handed' \in [StreamIds -> Seq(Nat)] /\ \A s \in StreamIds : s # t => handed'[s] = handed[s]
    BY <1>1, <1>3, <1>4, <2>2
  <2>4. QED
    BY <1>3, <2>1, <2>2, <2>3
<1>7. \A i \in 1 .. n : h[i] \in Nat /\ h[i] < frontier
  <2>1. ASSUME NEW i \in 1 .. n PROVE h[i] \in Nat /\ h[i] < frontier
    <3>1. i \in DOMAIN handed[t]
      BY <1>6
    <3>2. handed[t][i] < frontier
      BY <1>3, <3>1
    <3>3. QED
      BY <1>6, <3>2
  <2>2. QED
    BY <2>1
<1> HIDE DEF h, n
<1>8. \A s \in StreamIds : s # t => Given(s)' = Given(s)
  BY <1>2, <1>6 DEF Given, Stamped
<1>9. Given(t)' = IF Stamped(p) THEN Given(t) \cup {n + 1} ELSE Given(t)
  <2>1. Given(t)' = {i \in 1 .. (n + 1) : Stamped(Packets[handed'[t][i]])}
    BY <1>2, <1>6 DEF Given, Stamped
  <2>2. Given(t) = {i \in 1 .. n : Stamped(Packets[h[i]])}
    BY <1>6 DEF Given, h
  <2>3. 1 .. (n + 1) = (1 .. n) \cup {n + 1}
    BY <1>6
  <2>4. QED
    BY <1>6, <2>1, <2>2, <2>3
<1>10. Given(t) \subseteq 1 .. n
  BY <1>6 DEF Given, h
<1>11. PacketsOnce'
  <2>1. ASSUME NEW s \in {"v", "a"}
        PROVE  /\ {handed'[s][i] : i \in Given(s)'} = Wanted(s)'
               /\ \A i, j \in Given(s)' : i < j => handed'[s][i] < handed'[s][j]
    <3>1. /\ {handed[s][i] : i \in Given(s)} = Wanted(s) /\ s \in StreamIds
          /\ \A i, j \in Given(s) : i < j => handed[s][i] < handed[s][j]
      BY DEF RecoveryInv, PacketsOnce, StreamIds
    <3>2. CASE s # t
      <4>1. Given(s)' = Given(s) /\ handed'[s] = handed[s]
        BY <1>6, <1>8, <3>1, <3>2
      <4>2. Wanted(s)' = Wanted(s)
        BY <1>2, <1>4, <3>2
      <4>3. QED
        BY <3>1, <4>1, <4>2
    <3>3. CASE s = t /\ ~Stamped(p)
      <4>1. Given(s)' = Given(s) /\ Wanted(s)' = Wanted(s)
        BY <1>4, <1>2, <1>9, <3>3
      <4>2. \A i \in Given(s) : handed'[s][i] = handed[s][i]
        BY <1>6, <1>10, <3>3 DEF h
      <4>3. QED
        BY <3>1, <4>1, <4>2
    <3>4. CASE s = t /\ Stamped(p)
      <4>1. Given(s)' = Given(s) \cup {n + 1} /\ Wanted(s)' = Wanted(s) \cup {rpos} /\ rpos = frontier
        BY <1>4, <1>2, <1>5, <1>9, <3>4
      <4>2. /\ handed'[s][n + 1] = rpos
            /\ \A i \in Given(s) : /\ handed'[s][i] = handed[s][i] /\ i \in 1 .. n
                                   /\ handed[s][i] \in Nat /\ handed[s][i] < rpos
        BY <1>6, <1>7, <1>10, <3>4, <4>1 DEF h
      <4>3. {handed'[s][i] : i \in Given(s)'} = {handed[s][i] : i \in Given(s)} \cup {rpos}
        BY <4>1, <4>2
      <4>4. \A i, j \in Given(s)' : i < j => i \in Given(s) /\ (j \in Given(s) \/ j = n + 1)
        BY <1>6, <4>1, <4>2
      <4>5. QED
        BY <3>1, <4>1, <4>2, <4>3, <4>4
    <3>5. QED
      BY <3>2, <3>3, <3>4
  <2>2. ASSUME NEW i \in DOMAIN handed'["t"], NEW j \in DOMAIN handed'["t"], i < j
        PROVE  handed'["t"][i] < handed'["t"][j]
    <3>1. \A k, l \in DOMAIN handed["t"] : k < l => handed["t"][k] < handed["t"][l]
      BY DEF RecoveryInv, PacketsOnce
    <3>2. CASE t # "t"
      BY <1>6, <2>2, <3>1, <3>2 DEF StreamIds
    <3>3. CASE t = "t"
      <4>1. rpos = frontier
        BY <1>4, <1>3, <1>5, <3>3
      <4>2. i \in 1 .. n /\ (j \in 1 .. n \/ j = n + 1)
        BY <1>6, <2>2, <3>3
      <4>3. QED
        BY <1>6, <1>7, <2>2, <3>1, <3>3, <4>1, <4>2 DEF h
    <3>4. QED
      BY <3>2, <3>3
  <2>3. QED
    BY <2>1, <2>2 DEF PacketsOnce
<1>12. RecoveryTypes'
  <2>1. StampsGrow' /\ KeysAreVideo' /\ \A k : KeyAt(k)' = KeyAt(k)
    BY <1>2 DEF RecoveryInv, RecoveryTypes, StampsGrow, KeysAreVideo, KeyAt, Stamped
  <2>2. ASSUME NEW s \in StreamIds, NEW i \in DOMAIN handed'[s]
        PROVE  handed'[s][i] < frontier' /\ (s # "t" => handed'[s][i] \in begun .. (frontier' - 1))
    <3>1. rpos < frontier' /\ rpos \in begun .. (frontier' - 1)
      BY <1>2, <1>3
    <3>2. \A k \in DOMAIN handed[s] :
            handed[s][k] < frontier' /\ (s # "t" => handed[s][k] \in begun .. (frontier' - 1))
      <4> SUFFICES ASSUME NEW k \in DOMAIN handed[s]
                   PROVE  handed[s][k] < frontier' /\ (s # "t" => handed[s][k] \in begun .. (frontier' - 1))
        OBVIOUS
      <4>1. handed[s] \in Seq(Nat) /\ handed[s][k] < frontier /\ (s # "t" => handed[s][k] >= begun)
        BY <1>3
      <4>2. handed[s][k] \in Nat
        BY <4>1
      <4>3. QED
        BY <1>2, <1>3, <4>1, <4>2
    <3>3. CASE s # t
      BY <1>6, <2>2, <3>2, <3>3
    <3>4. CASE s = t
      <4>1. i \in 1 .. n \/ i = n + 1
        BY <1>6, <2>2, <3>4
      <4>2. CASE i \in 1 .. n
        BY <1>6, <3>2, <3>4, <4>2 DEF h
      <4>3. CASE i = n + 1
        BY <1>6, <3>1, <3>4, <4>3
      <4>4. QED
        BY <4>1, <4>2, <4>3
    <3>5. QED
      BY <3>3, <3>4
  <2>3. begun' = begun /\ (begun # 1 => KeyAt(begun)') /\ begun <= rpos' /\ rpos' \in Nat
    BY <1>1, <1>2, <1>3, <2>1 DEF RecoveryInv, RecoveryTypes
  <2>4. owed' \in Nat /\ owed' <= frontier'
    BY <1>1, <1>2, <1>3 DEF RecoveryInv, RecoveryTypes
  <2>5. QED
    BY <1>2, <1>3, <1>6, <2>1, <2>2, <2>3, <2>4 DEF RecoveryTypes
<1>13. CatchesUp'
  <2>1. /\ Newest("v", lastV) /\ Newest("a", lastA) /\ catching \subseteq {"v", "a"}
        /\ ("v" \in catching => lastV # NoTs) /\ ("a" \in catching => lastA # NoTs)
    BY DEF RecoveryInv, CatchesUp
  <2>2. ASSUME NEW s \in {"v", "a"}, t = s, Stamped(p)
        PROVE  p.ts # NoTs /\ \E k \in Reached(s)' : Packets[k].ts = p.ts /\ \A l \in Reached(s)' : l <= k
    <3>1. Reached(s)' = Reached(s) \cup {rpos} /\ rpos = frontier
      BY <1>2, <1>4, <1>5, <2>2
    <3>2. \A l \in Reached(s) : l <= rpos
      BY <1>3, <3>1 DEF Reached
    <3>3. QED
      BY <1>3, <2>2, <3>1, <3>2 DEF Stamped
  <2>3. Newest("v", lastV)'
    <3>1. CASE t = "v" /\ Stamped(p)
      <4>1. lastV' = p.ts
        BY <1>1, <1>4, <3>1
      <4>2. QED
        BY <1>2, <2>2, <3>1, <4>1 DEF Newest
    <3>2. CASE ~(t = "v" /\ Stamped(p))
      <4>1. lastV' = lastV /\ Reached("v")' = Reached("v")
        BY <1>1, <1>2, <1>4, <3>2
      <4>2. QED
        BY <1>2, <2>1, <4>1 DEF Newest
    <3>3. QED
      BY <3>1, <3>2
  <2>4. Newest("a", lastA)'
    <3>1. CASE t = "a" /\ Stamped(p)
      <4>1. lastA' = p.ts
        BY <1>1, <1>4, <3>1
      <4>2. QED
        BY <1>2, <2>2, <3>1, <4>1 DEF Newest
    <3>2. CASE ~(t = "a" /\ Stamped(p))
      <4>1. lastA' = lastA /\ Reached("a")' = Reached("a")
        BY <1>1, <1>2, <1>4, <3>2
      <4>2. QED
        BY <1>2, <2>1, <4>1 DEF Newest
    <3>3. QED
      BY <3>1, <3>2
  <2>5. rpos' < frontier' => "v" \in catching' /\ lastA' = NoTs
    BY <1>4, <1>1, <1>2, <1>5
  <2>6. ("v" \in catching' => lastV' # NoTs) /\ ("a" \in catching' => lastA' # NoTs)
    BY <1>1, <2>1
  <2>7. QED
    BY <1>1, <2>1, <2>3, <2>4, <2>5, <2>6 DEF CatchesUp
<1>14. QED
  BY <1>11, <1>12, <1>13 DEF RecoveryInv

\* Steps that touch neither the reader nor its consumers.
LEMMA RecoveryRests ==
  ASSUME RecoveryInv,
         UNCHANGED <<file, rpos, lastV, lastA, catching, handed, begun, frontier, owed>>
  PROVE  RecoveryInv'
<1>1. /\ Packets' = Packets /\ PacketsOnce' = PacketsOnce
      /\ StampsGrow' = StampsGrow /\ KeysAreVideo' = KeysAreVideo
      /\ \A s : Reached(s)' = Reached(s)
      /\ \A k : KeyAt(k)' = KeyAt(k)
  BY SameFile
<1>2. RecoveryTypes'
  BY <1>1 DEF RecoveryInv, RecoveryTypes
<1>3. CatchesUp'
  BY <1>1 DEF RecoveryInv, CatchesUp, Newest
<1>4. QED
  BY <1>1, <1>2, <1>3 DEF RecoveryInv

LEMMA RecoveryKeeps == RecoveryInv /\ [RecoveryNext]_recoveryVars => RecoveryInv'
<1> SUFFICES ASSUME RecoveryInv, [RecoveryNext]_recoveryVars PROVE RecoveryInv'
  OBVIOUS
<1>1. ASSUME EndFile \/ ReadEnds \/ UNCHANGED recoveryVars PROVE RecoveryInv'
  BY <1>1, RecoveryRests DEF EndFile, ReadEnds, source, recoveryVars
<1>2. QED
  BY <1>1, DropAgainKeeps, KeepKeeps, RecoverKeeps, UserSeekKeeps, UserSeekFailsKeeps,
     BeginFileKeeps
     DEF RecoveryNext, DemuxLoop

\* The demuxer gives a decoder every stamped packet it reads once and in the
\* file's order, and no subtitle twice, however often a read fails and wherever
\* the recovery seek lands: for every file whose streams have growing stamps
\* (demux_recover and demux_already_have of evo_demux.c).
THEOREM PacketsComeOnce == RecoverySpec => []PacketsOnce
<1>1. RecoveryInv => PacketsOnce
  BY DEF RecoveryInv
<1>2. QED
  BY <1>1, RecoveryStarts, RecoveryKeeps, PTL DEF RecoverySpec
-----------------------------------------------------------------------------
(***************************************************************************)
(* Previews.  A request is known to the worker by its serial only: that    *)
(* the serial has not moved has to mean that the request is the one the    *)
(* worker took, and that the cursor is still where it was made, unless the *)
(* cache has answered for a later place.                                   *)
(***************************************************************************)
Pictures == [path : Paths, at : Times]

\* The serial tells requests apart.
SerialNamesRequest ==
  /\ serial \in Nat /\ workSerial \in Nat /\ workSerial <= serial
  /\ thumbPc \in {"pause", "open", "decode", "hung", "publish"} /\ workSerial = serial
       => work = request

\* Nothing is asked for before there is a worker.
NobodyNoRequest == thumbPc = "absent" => request = NoPicture /\ asking = NoPicture

\* The cursor is near the last request, unless the cache answered since.
CursorAtRequest == request # NoPicture /\ last = request => NearTo(request, cursor)

PreviewInv == /\ SerialNamesRequest
              /\ NobodyNoRequest
              /\ CursorAtRequest
              /\ asking \in Pictures \cup {NoPicture}
              /\ request \in Pictures \cup {NoPicture}

(* A place is near itself, and near the places a short move leads to. *)
LEMMA NearPlaces ==
  ASSUME NEW p \in Pictures, NEW q \in Pictures
  PROVE  /\ NearTo(p, p)
         /\ q.path = p.path /\ Distance(q, p) < Coalesced => NearTo(q, p)
<1>1. /\ p.at \in Nat /\ q.at \in Nat /\ Tolerance \in Nat
      /\ Coalesced \in Nat /\ Coalesced <= Tolerance
  BY PreviewsAssumption DEF Pictures
<1> QED
  BY <1>1 DEF NearTo, Distance

(* A call that looks at the cursor's place keeps it. *)
LEMMA AskKeepsPreviews ==
  ASSUME PreviewInv, NEW p \in Pictures, Ask(p)
  PROVE  PreviewInv'
<1> USE DEF PreviewInv, SerialNamesRequest, NobodyNoRequest, CursorAtRequest
<1>1. UNCHANGED <<request, serial>> /\ asking = NoPicture
  BY DEF Ask, Hit
<1>2. CASE Hit(p) /\ UNCHANGED thumbVars
  <2>1. last' = p /\ cursor' = p /\ asking' = NoPicture /\ UNCHANGED thumbVars
    BY <1>2 DEF Hit
  <2>2. CursorAtRequest'
    BY <1>1, <2>1, NearPlaces DEF NearTo, Distance
  <2> QED
    BY <1>1, <2>1, <2>2 DEF thumbVars
<1>3. CASE ~(Hit(p) /\ UNCHANGED thumbVars)
  <2>1. /\ thumbPc' \in AfterStart /\ UNCHANGED <<last, work, workSerial>>
        /\ IF \/ thumbPc' = "absent"
              \/ last # NoPicture /\ last.path = p.path /\ Distance(last, p) < Coalesced
           THEN cursor' = p /\ UNCHANGED asking
           ELSE asking' = p /\ UNCHANGED cursor
    BY <1>3 DEF Ask
  <2>2. /\ thumbPc # "absent" => thumbPc' = thumbPc
        /\ thumbPc = "absent" => thumbPc' \in {"absent", "wait", "gone"}
    BY <2>1 DEF AfterStart
  <2>3. SerialNamesRequest'
    BY <1>1, <2>1, <2>2
  <2>4. NobodyNoRequest'
    BY <1>1, <2>1, <2>2
  <2>5. CursorAtRequest'
    <3>1. CASE UNCHANGED cursor
      BY <1>1, <2>1, <3>1 DEF NearTo, Distance
    <3>2. CASE cursor' = p /\ request # NoPicture /\ last = request
      <4>1. thumbPc' # "absent"
        BY <2>2, <3>2
      <4>2. request \in Pictures
        BY <3>2
      <4>3. CASE last.path = p.path /\ Distance(last, p) < Coalesced
        BY <1>1, <2>1, <3>2, <4>2, <4>3, NearPlaces DEF NearTo, Distance
      <4>4. CASE ~(last.path = p.path /\ Distance(last, p) < Coalesced)
        BY <1>1, <2>1, <3>2, <4>1, <4>4 DEF NearTo, Distance
      <4> QED
        BY <4>3, <4>4
    <3> QED
      BY <1>1, <2>1, <3>1, <3>2 DEF NearTo, Distance
  <2> QED
    BY <1>1, <2>1, <2>3, <2>4, <2>5
<1> QED
  BY <1>2, <1>3

(* So does every other step. *)
LEMMA PreviewsKeep ==
  ASSUME PreviewInv, AskEnds \/ CloseContext \/ ThumbWorker \/ Hang
  PROVE  PreviewInv'
<1> USE DEF PreviewInv, SerialNamesRequest, NobodyNoRequest, CursorAtRequest, askVars,
            pictureVars, thumbVars
<1>1. CASE QueueRequest
  <2>1. asking \in Pictures /\ thumbPc # "absent"
    BY <1>1 DEF QueueRequest
  <2>2. /\ request' = asking /\ serial' = serial + 1 /\ last' = asking /\ cursor' = asking
        /\ asking' = NoPicture /\ UNCHANGED <<thumbPc, work, workSerial>>
    BY <1>1 DEF QueueRequest
  <2>3. NearTo(request', cursor')
    BY <2>1, <2>2, NearPlaces
  <2> QED
    BY <2>1, <2>2, <2>3 DEF NearTo, Distance
<1>2. CASE SecondLook
  <2>1. asking \in Pictures /\ thumbPc # "absent"
    BY <1>2 DEF SecondLook
  <2>2. /\ last' = asking /\ cursor' = asking /\ asking' = NoPicture
        /\ UNCHANGED <<request, serial, thumbPc, work, workSerial>>
    BY <1>2 DEF SecondLook, Hit
  <2>3. CursorAtRequest'
    BY <2>1, <2>2, NearPlaces DEF NearTo, Distance
  <2> QED
    BY <2>1, <2>2, <2>3
<1>3. ASSUME UNCHANGED <<request, serial, last, asking, cursor>>,
             SerialNamesRequest', thumbPc' # "absent"
      PROVE  PreviewInv'
  BY <1>3 DEF NearTo, Distance
<1>4. CASE CloseContext
  BY <1>4 DEF CloseContext, NearTo, Distance
<1>5. CASE TakeLatest
  BY <1>3, <1>5 DEF TakeLatest
<1>6. CASE PauseEnds
  BY <1>3, <1>6 DEF PauseEnds
<1>7. CASE EnsureContext
  BY <1>3, <1>7 DEF EnsureContext
<1>8. CASE Decode
  BY <1>3, <1>8 DEF Decode
<1>9. CASE Publish
  BY <1>3, <1>9 DEF Publish
<1>10. CASE Hang
  BY <1>3, <1>10 DEF Hang
<1> QED
  BY <1>1, <1>2, <1>4, <1>5, <1>6, <1>7, <1>8, <1>9, <1>10 DEF AskEnds, ThumbWorker

(***************************************************************************)
(* A picture that appears is one of the place where the cursor is, unless  *)
(* the cache has answered for a later place than the request that is       *)
(* carried out: for any files, cache and moves of the cursor               *)
(* (prospero_thumbnail_request and _worker).                               *)
(***************************************************************************)
THEOREM PicturesAreOfTheCursor == PreviewSpec => ObsoleteOnlyAfterHit
<1> DEFINE Right == shown' # shown /\ shown' # NoPicture
                      => NearTo(shown', cursor') \/ last # request
<1>1. PreviewInit => PreviewInv
  BY DEF PreviewInit, PreviewInv, SerialNamesRequest, NobodyNoRequest, CursorAtRequest
<1>2. PreviewInv /\ [PreviewNext]_previewVars => PreviewInv'
  <2> SUFFICES ASSUME PreviewInv, [PreviewNext]_previewVars PROVE PreviewInv'
    OBVIOUS
  <2>1. CASE UNCHANGED previewVars
    BY <2>1 DEF previewVars, askVars, pictureVars, thumbVars, PreviewInv, SerialNamesRequest,
       NobodyNoRequest, CursorAtRequest, NearTo, Distance
  <2>2. CASE PreviewNext
    BY <2>2, AskKeepsPreviews, PreviewsKeep DEF PreviewNext, Pictures
  <2> QED
    BY <2>1, <2>2
<1>3. PreviewInv /\ [PreviewNext]_previewVars => Right
  <2> SUFFICES ASSUME PreviewInv, [PreviewNext]_previewVars, shown' # shown, shown' # NoPicture
               PROVE  NearTo(shown', cursor') \/ last # request
    OBVIOUS
  <2>1. ASSUME NEW p, Hit(p) PROVE NearTo(shown', cursor')
    BY <2>1 DEF Hit, Found, Show
  <2>2. CASE Publish
    <3>1. /\ shown' = work /\ workSerial = serial /\ thumbPc = "publish"
          /\ UNCHANGED <<request, cursor, last>>
      BY <2>2 DEF Publish, pictureVars, askVars
    <3>2. shown' = request
      BY <3>1 DEF PreviewInv, SerialNamesRequest
    <3> QED
      BY <3>1, <3>2 DEF PreviewInv, CursorAtRequest
  <2>3. CASE QueueRequest
    BY <2>3 DEF QueueRequest
  <2>4. CASE CloseContext \/ Hang \/ TakeLatest \/ PauseEnds \/ EnsureContext \/ Decode
    BY <2>4 DEF CloseContext, Hang, TakeLatest, PauseEnds, EnsureContext, Decode, pictureVars
  <2>5. ASSUME NEW p, Ask(p) PROVE NearTo(shown', cursor')
    BY <2>1, <2>5 DEF Ask, pictureVars
  <2>6. CASE SecondLook
    BY <2>1, <2>6 DEF SecondLook
  <2>7. CASE UNCHANGED previewVars
    BY <2>7 DEF previewVars, pictureVars
  <2> QED
    BY <2>2, <2>3, <2>4, <2>5, <2>6, <2>7 DEF PreviewNext, AskEnds, ThumbWorker
<1> QED
  BY <1>1, <1>2, <1>3, PTL DEF PreviewSpec, ObsoleteOnlyAfterHit
=============================================================================
