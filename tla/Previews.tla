------------------------------ MODULE Previews ------------------------------
(***************************************************************************)
(* The seek bar's preview pictures: media/src/prospero_thumbnail.c.  The   *)
(* UI thread asks, every frame of a scrub, for the picture at the cursor;  *)
(* one worker decodes the latest request, publishes the picture and keeps  *)
(* it in a cache.  The worker's FFmpeg contexts are kept from one decode   *)
(* to the next, and a stop closes them from the UI thread.                 *)
(*                                                                         *)
(* A picture is named by its file and its time.                            *)
(***************************************************************************)
EXTENDS Naturals, SequencesExt

CONSTANTS Paths, Times,
          CacheSize,  \* PROSPERO_THUMB_CACHE_SIZE
          Tolerance,  \* PROSPERO_THUMB_CACHE_TOLERANCE
          Coalesced,  \* 0.85 s: a move that is shorter is no new request
          NoPicture,
          MaxMoves    \* bound: positions the cursor is moved to

ASSUME PreviewsAssumption ==
  /\ Times \subseteq Nat /\ NoPicture \notin [path : Paths, at : Times]
  /\ CacheSize \in Nat \ {0} /\ Tolerance \in Nat /\ Coalesced \in Nat
  /\ Coalesced <= Tolerance \* 0.85 s and 1.5 s

VARIABLES request, serial, requested, \* _request_path and _time, _request_serial, _request_pending
          last,       \* _last_path, _last_requested_time
          shown,      \* the published picture, or NoPicture: _pixels, _valid
          loading,    \* _loading
          cache,      \* the entries, the least recently used first
          asking,     \* what a call of _request still has to queue
          thumbPc, work, workSerial, \* the worker and its locals
          decoded,
          context,    \* _thumb_open_path
          torn,       \* the contexts were closed while the worker was using them
          cursor,     \* history: where the cursor was at the last call
          moves

askVars == <<request, serial, requested, last, asking, cursor, moves>>
pictureVars == <<shown, loading, cache>>
thumbVars == <<thumbPc, work, workSerial, decoded>>
previewVars == <<askVars, pictureVars, thumbVars, context, torn>>

PreviewInit ==
  /\ request = NoPicture /\ serial = 0 /\ requested = FALSE
  /\ last = NoPicture
  /\ shown = NoPicture /\ loading = FALSE
  /\ cache = <<>>
  /\ asking = NoPicture
  /\ thumbPc = "absent" /\ work = NoPicture /\ workSerial = 0 /\ decoded = FALSE
  /\ context = NoPicture
  /\ torn = FALSE
  /\ cursor = NoPicture /\ moves = 0
-----------------------------------------------------------------------------
(***************************************************************************)
(* The cache.                                                              *)
(***************************************************************************)
Distance(p, q) == IF p.at < q.at THEN q.at - p.at ELSE p.at - q.at
NearTo(p, q) == p.path = q.path /\ Distance(p, q) <= Tolerance

\* _cache_find_locked: the entries that are closest to what is asked for.
Found(p) == {e \in ToSet(cache) : /\ NearTo(e, p)
                                  /\ \A o \in ToSet(cache) :
                                       NearTo(o, p) => Distance(e, p) <= Distance(o, p)}

Touched(e) == Append(Remove(cache, e), e)

\* _cache_store_locked: over a close entry, an empty one, or the oldest.
Stored(p) ==
  LET near == {e \in ToSet(cache) : NearTo(e, p)} IN
  IF near # {} THEN {Append(Remove(cache, e), p) : e \in near}
  ELSE {Append(IF Len(cache) < CacheSize THEN cache ELSE Tail(cache), p)}

\* _begin_transition_locked.
Show(p) == shown' = p /\ loading' = FALSE
-----------------------------------------------------------------------------
(***************************************************************************)
(* prospero_thumbnail_request, on the UI thread: two looks at the cache,   *)
(* each under the mutex, and the worker may publish between them.          *)
(***************************************************************************)
\* The entry that is found is shown at once.
Hit(p) ==
  /\ \E e \in Found(p) : Show(e) /\ cache' = Touched(e)
  /\ last' = p /\ cursor' = p /\ asking' = NoPicture
  /\ UNCHANGED <<request, serial, requested, context, torn>>

\* prospero_thumbnail_start: a worker that cannot be created is tried again
\* next time; one that finds no memory is not.
AfterStart == IF thumbPc = "absent" THEN {"absent", "wait", "gone"} ELSE {thumbPc}

\* The first look; a move that is short is no new request.
Ask(p) ==
  /\ asking = NoPicture
  /\ p # cursor => moves < MaxMoves
  /\ moves' = IF p = cursor THEN moves ELSE moves + 1
  /\ \/ Hit(p) /\ UNCHANGED thumbVars
     \/ /\ Found(p) = {}
        /\ thumbPc' \in AfterStart
        /\ IF \/ thumbPc' = "absent"
              \/ last # NoPicture /\ last.path = p.path /\ Distance(last, p) < Coalesced
           THEN cursor' = p /\ UNCHANGED asking
           ELSE asking' = p /\ UNCHANGED cursor
        /\ UNCHANGED <<request, serial, requested, last, pictureVars, work, workSerial,
                       decoded, context, torn>>

\* The second look, and the request.  One of another file takes the picture away.
QueueRequest ==
  /\ asking # NoPicture
  /\ Found(asking) = {}
  /\ request' = asking /\ requested' = TRUE
  /\ serial' = serial + 1
  /\ loading' = TRUE
  /\ shown' = IF last = NoPicture \/ last.path # asking.path THEN NoPicture ELSE shown
  /\ last' = asking /\ cursor' = asking /\ asking' = NoPicture
  /\ UNCHANGED <<cache, thumbVars, context, torn, moves>>

SecondLook == asking # NoPicture /\ Hit(asking) /\ UNCHANGED <<thumbVars, moves>>

\* prospero_thumbnail_close_context, from stopPlayback, without the mutex.
\* What a decode does whose contexts are gone is undefined: nothing more is
\* said of it.
CloseContext ==
  /\ asking = NoPicture
  /\ context' = NoPicture
  /\ torn' = (thumbPc \in {"open", "decode", "hung"})
  /\ context # NoPicture \/ torn'
  /\ UNCHANGED <<askVars, pictureVars, thumbVars>>
-----------------------------------------------------------------------------
(***************************************************************************)
(* prospero_thumbnail_worker.                                              *)
(***************************************************************************)
\* The latest request; the pause after it waits for a later one.
TakeLatest ==
  /\ thumbPc = "wait"
  /\ requested
  /\ work' = request /\ workSerial' = serial
  /\ requested' = FALSE
  /\ thumbPc' = "pause"
  /\ UNCHANGED <<request, serial, last, asking, cursor, moves, pictureVars, decoded, context, torn>>

\* Faulty variant: a request is marked as taken after the pause.
PauseEndsClearing ==
  /\ thumbPc = "pause"
  /\ requested' = FALSE
  /\ thumbPc' = IF workSerial = serial THEN "open" ELSE "wait"
  /\ loading' = (loading \/ workSerial = serial)
  /\ UNCHANGED <<request, serial, last, asking, cursor, moves, shown, cache, work, workSerial,
                 decoded, context, torn>>

PauseEnds ==
  /\ thumbPc = "pause"
  /\ thumbPc' = IF workSerial = serial THEN "open" ELSE "wait"
  /\ loading' = (loading \/ workSerial = serial)
  /\ UNCHANGED <<askVars, shown, cache, work, workSerial, decoded, context, torn>>

\* _ensure_context: bounded by a deadline.
EnsureContext ==
  /\ thumbPc = "open"
  /\ \/ /\ context' = work.path
        /\ thumbPc' = "decode"
        /\ UNCHANGED decoded
     \/ /\ context # work.path
        /\ context' = NoPicture
        /\ thumbPc' = "publish"
        /\ decoded' = FALSE
  /\ UNCHANGED <<askVars, pictureVars, work, workSerial, torn>>

\* The reads that follow have no deadline.
Hang ==
  /\ thumbPc = "decode"
  /\ thumbPc' = "hung"
  /\ UNCHANGED <<askVars, pictureVars, work, workSerial, decoded, context, torn>>

Decode ==
  /\ thumbPc = "decode"
  /\ decoded' \in BOOLEAN
  /\ thumbPc' = "publish"
  /\ UNCHANGED <<askVars, pictureVars, work, workSerial, context, torn>>

\* Faulty variant: what was decoded is shown, whatever was asked for meanwhile.
PublishAnyway ==
  /\ thumbPc = "publish"
  /\ loading' = FALSE
  /\ IF decoded THEN shown' = work /\ cache' \in Stored(work)
                ELSE UNCHANGED <<shown, cache>>
  /\ thumbPc' = "wait"
  /\ UNCHANGED <<askVars, work, workSerial, decoded, context, torn>>

Publish ==
  /\ thumbPc = "publish"
  /\ IF workSerial # serial THEN UNCHANGED pictureVars
     ELSE /\ loading' = FALSE
          /\ IF decoded THEN shown' = work /\ cache' \in Stored(work)
                        ELSE UNCHANGED <<shown, cache>>
  /\ thumbPc' = "wait"
  /\ UNCHANGED <<askVars, work, workSerial, decoded, context, torn>>

ThumbWorker == TakeLatest \/ PauseEnds \/ EnsureContext \/ Decode \/ Publish
AskEnds == QueueRequest \/ SecondLook

PreviewNext ==
  /\ ~torn
  /\ \/ \E p \in [path : Paths, at : Times] : Ask(p)
     \/ AskEnds
     \/ CloseContext
     \/ ThumbWorker \/ Hang

\* The worker runs, and a call on the UI thread returns.
PreviewFairness == WF_previewVars(~torn /\ ThumbWorker) /\ WF_previewVars(~torn /\ AskEnds)

PreviewSpec == PreviewInit /\ [][PreviewNext]_previewVars /\ PreviewFairness
-----------------------------------------------------------------------------
\* A worker that was never made, or will not come back; or undefined behaviour.
WorkerIsGone == torn \/ thumbPc \in {"absent", "gone", "hung"}

\* A scrub's commit waits up to three seconds for a preview that loads
\* (tickScrubAutoCommit): loading ends, or the worker is lost.  A later request
\* may come before, during and after the pause and the decode, and none of them
\* is forgotten.
LoadingEnds == loading ~> (~loading \/ WorkerIsGone)

\* "Never publish an obsolete frame after the scrubber has moved": a picture that
\* appears, from the cache or from the worker, is one of the place where the cursor
\* is, in the file that is being scrubbed.  One order is excepted: an answer from the
\* cache cancels no request, and the picture of the request before it may come after
\* it.  NothingObsolete has no exception, and fails in that order.
NothingObsolete == [][shown' # shown /\ shown' # NoPicture => NearTo(shown', cursor')]_previewVars

ObsoleteOnlyAfterHit ==
  [][shown' # shown /\ shown' # NoPicture => NearTo(shown', cursor') \/ last # request]_previewVars

\* "Each decode operation opens and closes its own FFmpeg contexts": nobody takes
\* them away while the worker is using them.
ContextsAreItsOwn == ~torn
=============================================================================
