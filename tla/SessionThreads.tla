--------------------------- MODULE SessionThreads ---------------------------
(***************************************************************************)
(* The video decode thread from file to file: the end of                   *)
(* PlaybackController::startPlaybackSource and stopPlayback                *)
(* (core/src/services/PlaybackController.cpp), the thread's loop           *)
(* (media/src/evo_playback.c), a seek's flush (media/src/evo_demux.c) and  *)
(* the watchdog of the hardware decoder (media/src/evo_vdec_native.c).  A  *)
(* stop joins the thread, or leaves it behind when the hardware does not   *)
(* answer; a thread left behind may come back when another file plays.     *)
(*                                                                         *)
(* A session's number names its decoder and its thread.                    *)
(***************************************************************************)
EXTENDS Naturals

CONSTANTS MaxSessions,  \* bound: files played
          Unanswered    \* native calls that may go unanswered: "decode", "flush"

ASSUME SessionsAssumption == MaxSessions \in Nat /\ Unanswered \subseteq {"decode", "flush"}

Sessions == 1..MaxSessions

VARIABLES now,       \* the file that plays or is being stopped; the last one
          uiPc,      \* the UI thread
          videoRuns, \* video_thread_running
          exited,    \* video_thread_exited
          hung,      \* nwd_hung
          watched,   \* nwd_start_ms: whose native call the watchdog times, 0 for none
          onHardware,\* sessions whose decoder is the native one
          demux,     \* the demux thread of the file that plays
          vthread,   \* the video decode threads, by session
          decoderOf, \* the decoder each thread is in, 0 for none
          closed,    \* decoders that have been freed
          silent     \* history: some native call has gone unanswered

sessionVars == <<now, uiPc, videoRuns, exited, hung, watched, onHardware, demux, vthread, decoderOf,
                 closed, silent>>

SessionInit ==
  /\ now = 0
  /\ uiPc = "idle"
  /\ videoRuns = FALSE
  /\ exited = TRUE
  /\ hung = FALSE /\ watched = 0
  /\ onHardware = {}
  /\ demux = "ended"
  /\ vthread = [s \in Sessions |-> "none"]
  /\ decoderOf = [s \in Sessions |-> 0]
  /\ closed = {}
  /\ silent = FALSE

\* The demux thread and the UI thread, to the watchdog.
Demux == MaxSessions + 1
Ui == MaxSessions + 2

\* nwd_enter and nwd_leave: one stamp for all threads.
Enter(caller, d) == watched' = IF d \in onHardware THEN caller ELSE watched
Return(d) == watched' = IF d \in onHardware THEN 0 ELSE watched
-----------------------------------------------------------------------------
(***************************************************************************)
(* The UI thread.                                                          *)
(***************************************************************************)
\* A file with video opens, on the hardware only while it never hung; the
\* result of evo_thread_create is not looked at.
StartSession ==
  /\ uiPc = "idle"
  /\ now < MaxSessions
  /\ now' = now + 1
  /\ onHardware' \in {onHardware} \cup (IF hung THEN {} ELSE {onHardware \cup {now + 1}})
  /\ videoRuns' = TRUE
  /\ exited' = FALSE
  /\ demux' = "loop"
  /\ vthread' \in {vthread, [vthread EXCEPT ![now + 1] = "top"]}
  /\ uiPc' = "playing"
  /\ UNCHANGED <<hung, watched, decoderOf, closed, silent>>

\* demux_thread_running is cleared.
StopSession ==
  /\ uiPc = "playing"
  /\ uiPc' = "joining"
  /\ UNCHANGED <<now, videoRuns, exited, hung, watched, onHardware, demux, vthread, decoderOf,
                 closed, silent>>

\* A bare pthread_join; only then is the video thread told.
JoinDemux ==
  /\ uiPc = "joining"
  /\ demux = "ended"
  /\ videoRuns' = FALSE
  /\ uiPc' = "waiting"
  /\ UNCHANGED <<now, exited, hung, watched, onHardware, demux, vthread, decoderOf, closed,
                 silent>>

\* pthread_join, which waits for the thread itself.
JoinThread ==
  /\ uiPc = "waiting"
  /\ exited
  /\ vthread[now] \in {"ended", "none"}
  /\ uiPc' = "closing"
  /\ UNCHANGED <<now, videoRuns, exited, hung, watched, onHardware, demux, vthread, decoderOf,
                 closed, silent>>

\* Faulty variant: a plain pthread_join, as before #39.
LeaveThreadNever ==
  /\ uiPc = "waiting"
  /\ ~exited
  /\ vthread[now] = "none"
  /\ uiPc' = "closing"
  /\ UNCHANGED <<now, videoRuns, exited, hung, watched, onHardware, demux, vthread, decoderOf,
                 closed, silent>>

\* pthread_detach: the hardware is known to hang, or 25 s are over.  No call
\* that is answered takes that long, and the watchdog is sooner to notice one
\* that is not and that it times: what is left is a thread in a call that is
\* not timed, and one that was never created.
LeaveThread ==
  /\ uiPc = "waiting"
  /\ ~exited
  /\ hung \/ vthread[now] = "none" \/ (vthread[now] = "stuck" /\ watched # now)
  /\ uiPc' = "closing"
  /\ UNCHANGED <<now, videoRuns, exited, hung, watched, onHardware, demux, vthread, decoderOf,
                 closed, silent>>

\* evo_vdec_close: a native decoder is left as it is once the hardware hung.
\* Otherwise it is reset, which is timed, or brought up anew in its boot size,
\* which is not.
CloseDecoder ==
  /\ uiPc = "closing"
  /\ IF now \in onHardware /\ ~hung
     THEN /\ uiPc' \in {"reset", "rebuild"}
          /\ watched' = IF uiPc' = "reset" THEN Ui ELSE watched
          /\ UNCHANGED closed
     ELSE /\ closed' = IF now \in onHardware THEN closed ELSE closed \cup {now}
          /\ uiPc' = "idle"
          /\ UNCHANGED watched
  /\ UNCHANGED <<now, videoRuns, exited, hung, onHardware, demux, vthread, decoderOf, silent>>

CloseReturns ==
  /\ uiPc \in {"reset", "rebuild"}
  /\ closed' = closed \cup {now}
  /\ watched' = IF uiPc = "reset" THEN 0 ELSE watched
  /\ uiPc' = "idle"
  /\ UNCHANGED <<now, videoRuns, exited, hung, onHardware, demux, vthread, decoderOf, silent>>

\* Its native calls may block while another thread's is not answered.
CloseSticks ==
  /\ uiPc \in {"reset", "rebuild"}
  /\ \E s \in Sessions : vthread[s] = "stuck" /\ decoderOf[s] = now
  /\ uiPc' = "stuck"
  /\ UNCHANGED <<now, videoRuns, exited, hung, watched, onHardware, demux, vthread, decoderOf,
                 closed, silent>>
-----------------------------------------------------------------------------
(***************************************************************************)
(* The demux thread: a seek holds the decode thread back and flushes the   *)
(* decoder once it is out of it, or in a call that outlasts the wait.      *)
(* SeekPark has that wait in detail.                                       *)
(***************************************************************************)
Holding == demux \in {"seek", "flush", "stuck"}

HoldForSeek ==
  /\ demux = "loop"
  /\ uiPc = "playing"
  /\ demux' = "seek"
  /\ UNCHANGED <<now, uiPc, videoRuns, exited, hung, watched, onHardware, vthread, decoderOf,
                 closed, silent>>

\* Any thread that is held back says it has parked, one left behind too.
FlushBegin ==
  /\ demux = "seek"
  /\ (\E s \in Sessions : vthread[s] = "top") \/ (\A s \in Sessions : vthread[s] # "call")
  /\ demux' = "flush"
  /\ Enter(Demux, now)
  /\ UNCHANGED <<now, uiPc, videoRuns, exited, hung, onHardware, vthread, decoderOf, closed,
                 silent>>

FlushEnd ==
  /\ demux = "flush"
  /\ demux' = "loop"
  /\ Return(now)
  /\ UNCHANGED <<now, uiPc, videoRuns, exited, hung, onHardware, vthread, decoderOf, closed,
                 silent>>

FlushSticks ==
  /\ "flush" \in Unanswered
  /\ demux = "flush"
  /\ now \in onHardware
  /\ demux' = "stuck"
  /\ silent' = TRUE
  /\ UNCHANGED <<now, uiPc, videoRuns, exited, hung, watched, onHardware, vthread, decoderOf,
                 closed>>

DemuxExits ==
  /\ demux = "loop"
  /\ uiPc = "joining"
  /\ demux' = "ended"
  /\ UNCHANGED <<now, uiPc, videoRuns, exited, hung, watched, onHardware, vthread, decoderOf,
                 closed, silent>>
-----------------------------------------------------------------------------
(***************************************************************************)
(* video_decode_thread_func of session s; g_vdec is read at each frame.    *)
(***************************************************************************)
EnterDecoder(s) ==
  /\ vthread[s] = "top"
  /\ videoRuns
  /\ ~Holding
  /\ vthread' = [vthread EXCEPT ![s] = "call"]
  /\ decoderOf' = [decoderOf EXCEPT ![s] = now]
  /\ Enter(s, now)
  /\ UNCHANGED <<now, uiPc, videoRuns, exited, hung, onHardware, demux, closed, silent>>

LeaveDecoder(s) ==
  /\ vthread[s] = "call"
  /\ vthread' = [vthread EXCEPT ![s] = "top"]
  /\ decoderOf' = [decoderOf EXCEPT ![s] = 0]
  /\ Return(decoderOf[s])
  /\ UNCHANGED <<now, uiPc, videoRuns, exited, hung, onHardware, demux, closed, silent>>

ThreadExits(s) ==
  /\ vthread[s] = "top"
  /\ ~videoRuns
  /\ vthread' = [vthread EXCEPT ![s] = "ended"]
  /\ exited' = TRUE
  /\ UNCHANGED <<now, uiPc, videoRuns, hung, watched, onHardware, demux, decoderOf, closed,
                 silent>>

\* A native call that is not answered, and one that is after all, much later.
Stick(s) ==
  /\ "decode" \in Unanswered
  /\ vthread[s] = "call"
  /\ decoderOf[s] \in onHardware
  /\ vthread' = [vthread EXCEPT ![s] = "stuck"]
  /\ silent' = TRUE
  /\ UNCHANGED <<now, uiPc, videoRuns, exited, hung, watched, onHardware, demux, decoderOf,
                 closed>>

Unstick(s) ==
  /\ vthread[s] = "stuck"
  /\ hung \/ watched # s
  /\ vthread' = [vthread EXCEPT ![s] = "top"]
  /\ decoderOf' = [decoderOf EXCEPT ![s] = 0]
  /\ watched' = 0
  /\ UNCHANGED <<now, uiPc, videoRuns, exited, hung, onHardware, demux, closed, silent>>

\* nwd_thread_main: the 10 or 20 s of the call it times are over.
Watchdog ==
  /\ ~hung
  /\ \/ watched \in Sessions /\ vthread[watched] = "stuck"
     \/ watched = Demux /\ demux = "stuck"
     \/ watched = Ui /\ uiPc = "stuck"
  /\ hung' = TRUE
  /\ UNCHANGED <<now, uiPc, videoRuns, exited, watched, onHardware, demux, vthread, decoderOf,
                 closed, silent>>

StopStep == JoinDemux \/ JoinThread \/ LeaveThread \/ CloseDecoder \/ CloseReturns
FlushThread == FlushBegin \/ FlushEnd \/ DemuxExits
VideoThread(s) == EnterDecoder(s) \/ LeaveDecoder(s) \/ ThreadExits(s)

SessionNext == \/ StartSession \/ StopSession \/ StopStep \/ CloseSticks
               \/ HoldForSeek \/ FlushSticks \/ FlushThread
               \/ \E s \in Sessions : VideoThread(s) \/ Stick(s) \/ Unstick(s)
               \/ Watchdog

SessionFairness == /\ WF_sessionVars(StopStep) /\ WF_sessionVars(Watchdog)
                   /\ WF_sessionVars(FlushThread)
                   /\ \A s \in Sessions : WF_sessionVars(VideoThread(s))

SessionSpec == SessionInit /\ [][SessionNext]_sessionVars /\ SessionFairness
-----------------------------------------------------------------------------
\* One left behind has said for the present thread that it has exited, and
\* the present one does not answer either: it is joined all the same.
Misled == exited /\ \E s \in Sessions : s = now /\ vthread[s] = "stuck"

\* A stop does not wait for ever for its threads: not when a decode call is
\* never answered, timed by the watchdog or not, nor when the thread was never
\* created, nor when one left behind earlier comes back in another file's
\* session.  What may still hold it up is the close, in a native call of its own.
StopReturns == (uiPc = "joining") ~> (uiPc \in {"idle", "stuck"} \/ Misled)

\* "A join here froze the whole app (#39)": a stop waits "a little longer than
\* the longest call it tolerates", then abandons the thread, whatever is not
\* answered.  (Violated by a seek's flush, and by the close of a decoder whose
\* thread was abandoned with the hang not noticed.)
StopNeverFreezes == (uiPc = "joining") ~> (uiPc = "idle" \/ Misled)

InUse(d) == {s \in Sessions : vthread[s] = "call" /\ decoderOf[s] = d}

\* As long as the hardware answers, no decoder is freed under a thread that is
\* in it and two threads are never in one, from file to file.
DecoderIsExclusive ==
  ~silent => \A d \in Sessions :
               /\ \A s, t \in InUse(d) : s = t
               /\ d \in closed => InUse(d) = {}

\* The same when the hardware has hung in an earlier file: a stop leaves
\* behind only a thread that does not answer ("so the UI thread can abandon
\* the stuck thread").
OnlyStuckIsLeft == \A d \in closed : InUse(d) = {}
=============================================================================
