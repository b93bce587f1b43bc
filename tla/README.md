# EVO Player: a TLA+ model of its threads and services

EVO Player (`src/projects/evoplayer`) plays local and streamed video on a console. Its core is
a handful of threads that share queues, flags and clocks, mostly without locks: a demuxer, a video
decoder, an audio decoder, an audio output, the workers of a network read-ahead, and the UI. Around
it are services with a worker or two each: network requests, connects, the self-updater, file
transfers and the log. This directory models both, checks the models with TLC and proves the most
important invariants with TLAPS.

Paths below are relative to `src/projects/evoplayer`. Line numbers of every definition are in
`PROJECT.json` (`map`).

## 1. Inventory

### Components, their state, their operations

| component (code) | state | operations | hard behaviour | what makes it correct |
|---|---|---|---|---|
| packet data ring (`media/src/evo_packet_queue.c` 20-179) | `head`, `tail`, `used`, a header per region | alloc, release, grow | regions freed out of order, wrap and pads | regions never overlap, a live packet is never disturbed, an unused ring is empty again |
| packet queue (same file) | slots, `read`, `write`, `count`, totals | push (with clone), pop, clear | clear frees packets while a decoder frees one; two mutexes | bounded FIFO; totals exact; one owner per region |
| demux thread (`media/src/evo_demux.c`) | packet in hand, prebuffer hold and deadline, seek request, recovery state | read, wait for room, push, seek, recover | waits in a cycle with both decoders and audio output; seeks during waits; reads that fail | never stuck, holds end, seeks are taken, nothing is queued twice or left out |
| video decode thread (`media/src/evo_playback.c`) | pending packet, pacing, `video_decode_parked` | park, decode, pace, present | a flush by the seek during a decoder call; a decoder that stops answering | the seek has the decoder to itself; no decoder is freed in use |
| audio decode and output (`media/src/evo_audio_out.c`) | PCM ring, clocks, discard gate | decode, mix, throttle, play | unlocked ring counter; throttle waits for video, video waits for audio | no permanent wait, sound comes back after a seek |
| presenter and clock (`pp/src/pp_playback.c`, `pp_clock.c`) | discard window, clock state | push frame, notify seek, pause, resume | window opened and closed by three threads | the window closes; first frame shown is the target |
| playback controller (`core/src/services/PlaybackController.cpp`) | playback state machine, threads | open, pause, scrub, seek, stop | state machine on the UI thread, flags shared with two others; a thread that does not come back | a playing state machine means a running picture; stop ends |
| native decoder's watchdog (`media/src/evo_vdec_native.c`) | `nwd_hung`, one start stamp | begin, end, expire | two threads use one stamp; a call that is never answered | the app does not freeze |
| parallel read-ahead (`media/src/evo_parallel_io.c`) | slots, window base, workers | claim, fetch, read, seek, abort, close | workers write outside the mutex, sleep without a timeout | delivers the file's bytes, one writer per slot, no lost wake-up, close joins all workers |
| timed connect (`addons/src/evo_net.c`, `media/src/evo_smb_io.c`) | a job per connect, the list of bad addresses | start, wait 3 s, take or abandon | thread and caller race for the job at the timeout | a job and its socket are freed once; each address is tried |
| network requests (`addons/src/evo_net.c`) | pending and completed arrays | enqueue, worker, poll, shutdown | two kinds of sleepers on one condition, a copy called back outside the lock | each request is called back once or refused; shutdown ends |
| self-updater (`addons/src/evo_updater.c`) | state, staging file, installed image | check, download, cancel, verify, apply | detached threads, cancel at any point, restart between two steps | only a verified, newer image is installed |
| file transfer (`core/src/services/FileTransferService.cpp`) | one job, the file system | copy, move, delete, cancel | failures and cancels between copying and removing | nothing is lost, no partial file is left |
| log (`src/evo_boot_log.c`, `evo_prev_run.c`) | memory buffers, queue, file, rotated file, last run's part | emit, drain, rotate, save, crash | draining threads, rotation, crash and restart | order, no silent loss, the last run's part is kept |
| seek-bar previews (`media/src/prospero_thumbnail.c`) | latest request and its serial, picture shown, cache, decoder contexts | request, decode, publish, close | latest request wins; cache hits, late pictures and a stop during a decode | loading ends; the picture belongs to the cursor; nobody closes a decoder in use |
| stream and SMB input, subtitles, passthrough, GPU, storage, metadata, screens, UI kit, add-on providers | see `PROJECT.json` | | mostly one thread | |

### How they interact

```
 UI thread ── state machine ── player_paused, pb_scrub_hold, seek request ──┐
     │ announces the seek                                                   v
 presenter/clock <── frames ── video decode <── video queue <── demux thread <── read-ahead <── workers
     │ discard window          parks on hold                     │  clears, flushes, recovers
     v                                                           v
 audio output <── PCM ring <── audio decode <── audio queue ─────┘

 frame loop ── enqueue/poll ── request workers ── connect jobs ── threads of one connect() each
 UI thread ── start/cancel ── updater thread, transfer worker ── files
 UI thread ── request, close ── preview worker ── cache, picture
 every thread ── lines ── log queue ── writer, flushers ── log files
```

Calls go from the UI to the controller and the services; everything else is shared state. The
packet queues, the read-ahead and the services have mutexes; pauses, holds, the park flag, the discard
window, the clocks, the PCM count and the exited flag are plain volatile variables.

## 2. Modules

Each specification module stands for one component; `MC*` modules give TLC its constants;
`*_proofs` modules hold theorems: `PacketRing_proofs`, `PacketQueue_proofs`, `ParallelIo_proofs`,
`ReadAhead_proofs` and `FileTransfer_proofs` for the module of that name, `Playback_proofs` for `SeekPark`,
`SeekSession`, `SessionThreads`, `PcmRing`, `DemuxRecovery` and `Previews`, `NetService_proofs` for `NetConnect` and
`NetRequests`, `Durable_proofs` for `Updater` and `BootLog`. No module uses a RECURSIVE operator.

| module | models | state and actions against the code |
|---|---|---|
| `PacketRing` | data ring | Offsets are units of `RING_ALIGN` bytes. `RingAlloc` is `ring_alloc` (three exclusive places: `CarveEmpty`, `CarveAtHead`, `CarveAfterPad`), `RingRelease` marks a region, `RetireTail`/`RetireStop` are the turns and the end of `ring_release`'s loop under the mutex `mu`, `RingGrow` is `packet_queue_use_ring` on an idle ring. `hdr` is what the store holds, stale headers included; `regions` is what the code implies. |
| `PacketFifo` | the abstract bounded FIFO the header promises | |
| `PacketQueue` | the queue over the ring (`INSTANCE PacketRing`) | `CloneInRing`, `CloneByReference`, `GiveRegionBack`: the copy made before the lock. `Enqueue`, `RefusePush`, `Pop`: critical sections. `ClearBegin/Slot/Skip/End`: the clear, slot by slot, since it takes the ring's mutex inside. `FreeHeld`: the decoder frees. `ImplementsFifo` is the refinement of `PacketFifo`. |
| `SeekPark` | hold/parked handshake | Program counters of both threads, one action per test, store and call; a one-place store buffer for the decode thread's last store to `video_decode_parked`, because the flags are plain volatile ints. |
| `SeekSession` | seek and pause across UI, demux and decode threads | UI steps `Request`, `Notify`, `PlayAfterScrub` are separate because the demux thread runs between them. An announcement (`NotifySeekBegin`, made by both the UI and the demux thread) is four unlocked steps, `AnnounceSteps`: the test for a window that is already open, the window, the target, the clock. `PushFrame` on the decode thread is `pp_playback_push_frame` in five: `TestWindow`, `CompareTarget`, `RestartClock`, `CloseWindow`, `StartClock`. The rest of `prospero_process_seek_request` is a step per flag. The history variable `late` marks an announcement whose pause of the clock came after its seek was over. A behaviour starts before the first file. |
| `ReadAhead` | flow of packets | `ReadPacket` includes `prebuffer_check` and `rebuffer_check` as the code does for every packet; `Push`, `ReleaseInWait`, `DropForSeek` are the ways out of `demux_wait_for_room`; `ShowFrame`, `DecodeAudio`, `Play` the consumers; `PictureStandsStill` is the 125-poll escape of the audio throttle; `DeadlinePasses` the hold's deadline. |
| `ParallelIo` | parallel read-ahead | Workers as records (`fetch`), slots, window `base`; `Claim` (under the mutex), `StartFetch` or `LeaveOnStop` (the test of `stop` after it, which can leave a claimed slot behind), `Connect`, `ReadUnit`, `PublishChunk`, and the reader's `ReaderLooks` shared by the first look and each poll; `Abort`, `Close`, `Free`, which joins by position (`Joined`). Any subset of the workers' threads may have been created. A unit of data is named by its place in the file, so a wrong byte is seen. |
| `DemuxRecovery` | read errors | A file is a sequence of packets, with and without stamps. `DropAgain` and `Keep` are `demux_recover_already_have` and the marks set for a packet that is passed on; `ReadEnds` and `Recover` the failing read, with its tests for the true end; `UserSeek` and `BeginFile` reset, `UserSeekFails` clears the queues and resets nothing. |
| `PcmRing` | the ring of decoded sound | `PushLoad`/`PushAdd` and `PlayLoad`/`PlaySubtract` are the two halves of `count++` and `count--`; `ResetCount`, `ResetRead`, `ResetWrite` the seek's three stores, at any point of the others. |
| `SessionThreads` | video thread from file to file | `StartSession`, `StopSession`, then `JoinDemux`, `JoinThread` or `LeaveThread`, `CloseDecoder`, `CloseReturns` or `CloseSticks`: the steps of `stopPlayback`, in its order, up to the native calls of the close, one of them timed ("reset") and one not ("rebuild"). `Stick` and `FlushSticks` are native calls that go unanswered, `Unstick` an answer that comes late, in another file's session. `Watchdog` sees only the call stamped last. |
| `NetRequests` | request queue | Arrays under `g_queue_mutex`, its holder kept across steps where the code keeps it; `FallAsleep` and the broadcast's `Woken`; `Poll` copies and `CallBack` runs outside the lock; `ShutdownFlag`, `ShutdownWakes`, `ShutdownFrees`. Threads whose creation failed are absent. |
| `NetConnect` | bounded connects | `evo_net_connect_list`'s two passes (`PassOver`, `NextPass`), `StartJob`, the race of `TakeResult`/`TimeOut` with `ConnectReturns`, `Publish`, `FreeOrphan`; jobs are memory that can be allocated again. |
| `Updater` | self-updater | Worker steps `OpenStage`, `Stream`, `Verify`, `Discard`, `ThreadEnds`; UI's `Check`, `Download`, `CancelDownload`, `Apply`; `Restart` at any point keeps only the two files. |
| `FileTransfer` | copy, move, delete | A place is a name in a folder, data is named by where it first lay. Worker steps `Rename`, `Scan`, `OpenFile` (with the choice of a free name), `OpenFails` (which unlinks that name), `FileCopied`, `GiveUpFile`, `RemoveOne`; the file system after every step is what a power cut leaves. |
| `Previews` | seek-bar previews | `Ask` is the first look at the cache and the tests that follow, `SecondLook` and `QueueRequest` the locked part; `TakeLatest`, `PauseEnds`, `EnsureContext`, `Decode`, `Publish` the worker; `CloseContext` what a stop does. A picture is a file and a time. Once the contexts are closed under the worker (`torn`) nothing more is said: the code's behaviour is undefined. |
| `BootLog` | log | Buffers before the file is open, queue, `DrainTake`/`DrainWrite` under `g_io_lock`, `RotateCopy`/`RotateFresh`, `SavePrev`, `Crash` (the handler's own write, with or without an open log) and `Rerun`. The ghosts `own` and `lastRun` follow the lines a run itself puts into the log, apart from how `LastSession` finds them. |

Composition: `PacketQueue` composes ring and queue. `SeekPark` is the detail of the step that
`SeekSession` takes when it waits for the frame in hand, and `SeekSession` the detail of
`ReadAhead`'s `TakeSeek`. `DemuxRecovery` is the detail of the reading that `ReadAhead` takes to
succeed. `SessionThreads` keeps of `SeekPark` its outcome (the flush begins when the thread is out of the
decoder, or stuck in it) and adds what a session's end does. `NetConnect` is what a worker of `NetRequests` does
while it holds a request.

`MCSafety` and `MCThreads` are not compositions. Each gathers parts that share no state; a behaviour
picks one part at its start and leaves the variables of the others as they start, so that the run checks each
part alone under one configuration. A part that is not picked has the initial state its properties allow,
and its fairness asks nothing of it: in that state each of its fair actions is disabled (`part # "park"`
starts without a pause or hold for this reason). Properties and constants are those of the parts.

Definitions whose comment says "Faulty variant" are not part of any specification. Each changes one definition
the way a plausible bug would; put in its place, the property named for it in `PROJECT.json`
(`mutants`) is violated. They document which code each property depends on.

## 3. Runs

| run | part and bounds | checks |
|---|---|---|
| `queue` (`MCPacketQueue`) | 2 slots, ring of 7 units, packets of 3 and 4, decoder holds 2, durations below, in and above the clamp | `RegionsOwned`, `TotalsExact`, `ImplementsFifo` |
| `pio_reader` | 1 worker, 5 chunks, window 4, 1 network failure | `ReadyIsKept`, `ReadReturns`, `CloseEnds` |
| `play` (`MCSeekSession`) | file of 5 frames, keyframe up to 1 before a target, 2 seeks, 2 files; any number of pauses and scrubs | `PlayingRuns`, `NotFrozen`, `StopEnds`, `PictureComesBack` |
| `ahead` | file of 7 units, caps 3 and 2, audio up to 5 ahead, 1 seek, any number of pauses and scrubs | `QueuesBounded`, `PlaysToTheEnd`, `HoldEnds`, `SeekTaken` |
| `threads` (`MCThreads`) | park: no bound, any number of seeks, pauses, stops | `ExclusiveUse`, `SeekEnds`, `PictureResumes` |
| | recovery: 2 files of 7 and 9 packets, 2 tries, 2 files or seeks, failing seeks among them; failures without a bound | `PacketsOnce`, `EndIsReached` |
| | session: 3 files, any decode call may go unanswered | `StopReturns` |
| | requests: 2 page and 1 image request, a worker of each kind or only one, arrays of 2, 2 inits | `RequestOwned`, `RequestAnswered`, `ShutdownEnds` |
| | preview: 2 files of 3 pictures, a cache of 2, 3 moves of the cursor | `LoadingEnds`, `ObsoleteOnlyAfterHit` |
| `safety` (`MCSafety`) | pio: 2 workers, 3 chunks of 2 units (last one short), window 2, 1 network failure | `DeliversTheFile`, `OneWriterPerSlot` |
| | ring: store of 11 units, growth to 13, packets of 3, 4 and 5 units | `RegionsDisjoint`, `NothingLeaks`, `LivePacketsUndisturbed` |
| | pcm: 5 blocks, packets of up to 2 blocks; no bound on packets or resets | `CountBounded` |
| | transfer: 2 folders, 3 names, 3 files, 7 jobs, 2 jobs after each other | `TransferLosesNothing`, `CompletedIsThere`, `NoPartialLeft` |
| | updater: 3 releases, 2 restarts | `InstalledIsVerified`, `NeverDowngrades` |
| | connect: 2 callers, 2 jobs, 2 addresses, a list of 1 bad address; callers and jobs symmetric | `JobHasOneOwner`, `EveryAddressTried` |
| | log: 3 runs of a line and a header, a memory buffer and a queue of 1, rotation at 2 lines, writer and one flusher | `LogInOrder`, `LastRunKept` |
| `seek_file`, `pio_join`, `move_loss`, `stop_hung`, `stop_flush`, `preview_close` | see section 5; `pio_join` has 2 workers, any of them created | disagreements between code and comments |

Why the bounds are enough. Ring: with three packet sizes on 11 units, pads of every width from 1 to
4 arise and packets are freed in every order; growth happens once, as it does per stream. Queue: two
slots give empty, partly full, full and wrapped; a ring of 7 units takes two packets and refuses the third, so
both ways of cloning and the refused push occur. The `pio` part needs two workers and chunks longer
than one read (a retry in the middle of a chunk, a slot reused while its old fetch runs);
`pio_reader` needs a window whose half differs from its whole, since the window moves once the
reader is past its middle, and one worker is the hardest case for a lost wake-up. `play` lets
two seeks overlap each other, a stop and the next file, and both announcements of each overlap the push of a frame. `ahead`: both overshoot limits (6 and
4) are reached, and audio lies as far ahead as the design can bear (see section 5). Recovery: the two
files have sound before the first key packet, packets without stamps, subtitles, and an unknown length; a
failure can follow every packet, also one that comes while the demuxer is catching up. Session: three files are
what it takes for a thread left behind in the first to return in a later one. Requests: the
arrays fill up, and the image worker exists or not. Transfer: two jobs let a job find the leftovers and new
names of another; three names leave a free one or none. Connect: two callers on one list of one place push
each other's marks out. Log: a line and a
header overflow buffer and queue and rotate; three runs are what it takes to save a run that crashed before its log
was open together with the run before it (`BootLog.cfg` checks runs of two lines, by hand: 5.5 million states). Previews: three pictures are near to each other or not, and more than the
cache holds; three moves let a request overtake two others.

Type invariants are conjuncts of the proved invariants where a proofs module has them. `TypeOK` of
`PacketQueue`, `ParallelIo` and `SeekSession` holds in every state of their runs, but is not listed as a
property of one.

Deadlock checking is off where the system may stop: a session that is stopped after its last file
(`threads`, `play`, `seek_file`), a reader that is closed (`pio_reader`), parts that have done all the bounds allow (`safety`,
`threads` and the runs of section 5). The other runs check it.

## 4. Fairness

Weak fairness on the steps of each thread that can run: threads are preemptively scheduled and no
lock is held across a wait. Never assumed: that a user does anything, that a read, a seek or a close
is called, that the 30 s read deadline expires (`ReadExpires`), that a wedged decoder returns
(`SeekPark` has no fairness on `DecodeReturns` in `wedged`, `SessionThreads` none on `Unstick`; a close that has
stuck is for ever). Assumed
besides: a store leaves the store buffer (`Drain`), a decoder call that is not wedged returns, and a clock
reaches a deadline (`DeadlinePasses`, and `Watchdog`, a thread that polls a clock); a stalled audio throttle
counts its polls (`PictureStandsStill`, a step of the output thread). In `ParallelIo` the network fails at most
`MaxFailures` times, then stays up: the liveness properties promise nothing of a network that never returns.
In `DemuxRecovery` it may fail for ever: the ten tries are what ends. In `NetRequests` a request that is
carried out ends, since every socket operation has a timeout, and the frame loop polls once a frame. The preview's
worker may hang in a read (`Hang`), which has no deadline; `LoadingEnds` says so. The parts of
`safety` are checked for safety only and need none.

## 5. Where code and comments disagree

Six are runs, which TLC ends with a counterexample:

* `seek_file` - a seek requested just before a stop stays pending and is carried out in the next file.
* `pio_join` - the read-ahead counts the workers it could create but joins them by position: if a thread other than
  the last cannot be created, the close joins an unset handle and frees the slots under a live worker.
* `move_loss` - a folder that is cut and pasted where it lies finds its own name taken, so its files
  are copied beside themselves under free names, into the folder the move then removes.
* `stop_hung` - once the hardware has hung, the mark stays for the rest of the process, and each later stop
  abandons a thread that does answer, and frees the software decoder it may be in.
* `stop_flush` - a seek's flush that the hardware does not answer holds the demux thread, and the
  stop joins that thread before it looks at the watchdog: the UI freezes, which the stop was rewritten to avoid.
* `preview_close` - a stop frees the preview's decoder on the UI thread, without the mutex, while
  the worker may be using it.

Six more are configurations to be run by hand, `tlc -config <file> <module>`. Where a passing run checks the same
promise with an exception, the exception is exactly this case, and the configuration checks it without:

| configuration, module | property | what TLC shows |
|---|---|---|
| `MCSeekSessionFrozen.cfg`, `MCSeekSession` | `NeverFrozen`; `NotFrozen` in `play` excepts `late` | The UI thread requests a seek and announces it afterwards. When the demux thread's seek fails (`pp_playback.c:591`, `evo_demux.c:453`), or the first frame arrives (`pp_playback.c:324-327`), between the two unlocked halves of that announcement (`:567`, `:572`), the window is closed first and the clock paused last: every frame is thrown away (`:334`), with the state machine in Playing, until the user presses something. `evo_demux.c:451` names what has to be prevented: it "leaves the clock paused, which drops every frame -> frozen picture". |
| `MCSeekSessionPaused.cfg`, `MCSeekSession` | `PausedStands` | Every caller asks a seek to end with playback on (`PlaybackController.cpp:1937`, `evo_usb_remote.c:220`), so one made while Paused starts the film under a state machine, and a badge (`PlayerScreen.cpp:655`), that say Paused. |
| `MCSeekSessionSound.cfg`, `MCSeekSession` | `SoundComesBack` | A seek in a file without video opens a discard window nothing closes, and audio output stays parked on it (`evo_audio_out.c:197`, held "while a seek is still discarding video", :184). |
| `SessionThreadsClose.cfg`, `SessionThreads` | `StopNeverFreezes`, as in `stop_flush` | The end of a seek's flush clears the only stamp (`evo_vdec_native.c:478`), so the decode call that hangs beside it is not noticed. The stop then leaves the thread on its own limit (`PlaybackController.cpp:614-622`), and goes into native calls on the UI thread to close the decoder (`evo_vdec_native.c:2110-2135`), which its comment says "would block the caller the same way" (:2098). |
| `BootLogAlone.cfg`, `BootLog` | `LastRunAlone`; `LastRunKept` in `safety` excepts `early` | A run that crashes before its log is open writes lines without a header (`main.cpp:57-64`); the next run takes them for the end of the run before and saves both as "the last run on its own" (`evo_boot_log.c:562`). |
| `MCPreviewsStale.cfg`, `MCPreviews` | `NothingObsolete`; `ObsoleteOnlyAfterHit` in `threads` excepts it | A cursor position answered from the cache leaves the serial of the request before it (`prospero_thumbnail.c:1032-1043`); the worker's picture of the old place then replaces the right one, against "Never publish an obsolete frame after the scrubber has moved" (:934). The next request puts it right. |

Seen while reading, not runs:

* Playback. Direct memory allocated but not mapped is not released
  (`evo_parallel_io.c:399`). The demuxer overshoots a full queue only up to twice the cap; while sound waits
  for the first picture it has no escape, so a file whose audio lies further ahead than
  `2 * ACap + PcmHigh + 1` packets stops for good (`ahead` plays everything with one packet less). A frame in the
  decoder's hand when a backward seek is announced lies past the target and closes the discard window early.
* Recovery. A user's seek that fails has cleared the queues: the film jumps ahead by what they held. After a new failure a subtitle is dropped until both streams have caught up; if the sound has
  ended they never have, and all later subtitles are lost. A true end more than 3 s before
  the stated duration costs ten recoveries. The model takes a failed recovery seek to leave the reader where
  it was.
* Sound. Lost updates leave the PCM count off by a block or two: it stays in bounds, but a
  stale block can be heard or one skipped.
* Sessions. The exited flag is shared by all video threads; one left behind can set it for its successor, which
  is then joined although it may be stuck (`Misled` in `StopReturns`). A thread left behind can also run the later
  session's loop. Thread
  creation results are not looked at; a video thread that could not be created costs the stop 25 s.
* Network. An address marked bad in the first pass and unmarked before the second is never tried in that call
  (`lifted` in `EveryAddressTried`).
* Files. A move removes what its scan passed over (an entry that could not be read, `$RECYCLE.BIN`).
  A copy that cannot open its destination unlinks that name; when no free name was left, it is an existing file
  (`GivenUp`, which `TransferLosesNothing` exempts for the failed open as for the copy that succeeds).
  `renameItem` (`FileTransferService.cpp:243`) renames over an existing file without looking.
* Log. Two threads that open it at once would lose a `FILE` and overwrite the last run's part (the model has
  one opener). Failed writes of a rotation are not noticed, and a fresh file that cannot be opened leaves
  a closed handle. Lines a drainer has copied are lost in a crash, and the handler's lines can overtake them.
* Comments. `evo_audio_out.c:492` says a packet without PTS clears the discard gate, the code below drops it;
  `evo_demux.c:572` gives `PACKET_QUEUE_SIZE` as 512, `evo_packet_queue.h:31` as 65536.

## 6. Proofs

Every invariant and every safety property of steps that a passing run checks, and the refinement of `PacketFifo`,
is also a theorem, for all values of the constants. Hardly any of them is inductive as it stands. What each proof adds, and why:

**Packet ring** (`PacketRing_proofs`; all store sizes, growth sizes and packet sizes):
`RingTypeCorrect`, `RingDisjoint`, `RingLeaksNothing`, `RingUndisturbed`. An allocation is safe only because
`head` is where the last region ends and `used` counts exactly the room between `tail` and `head`. The
invariant `RingInv` therefore says that the regions tile the used part of the store: from `tail`, each
region's end is the next region's start, wrapping once at `size`, up to `head`. One lemma per operation
shows that it keeps the tiling (`AppendRegion` serves the three places of an allocation); the properties
follow from the tiling. Three more lemmas are what the queue needs: an allocation adds one live region
(`AllocOwns`), a release takes one away (`ReleaseOwns`) and the loop under `mu` none (`LoopOwns`).

**Packet queue** (`PacketQueue_proofs`; all numbers of slots, ring sizes, packets and durations).

* `RegionsHaveOwners`: each live region belongs to one packet. `QueueInv` instantiates the ring's
  invariant and adds that the slots from `read` on, `count` of them, are full and the others empty
  (`SlotsInOrder`; during a clear, that the slots before its index are empty), and that a region is live
  exactly if it has an owner, and has one only (`OwnersAreRight`): the clone being pushed, a slot, or a
  packet in the decoder's hand.
* `QueueIsFifo`: `QueueSpec => ImplementsFifo`, the refinement of `PacketFifo`. Packet `k` of the FIFO is
  the one in the slot whose turn is `k - 1`; then `Enqueue` appends to `Contents`, `Pop` takes
  its head away, `ClearBegin` empties it (a queue that is being cleared is already empty for whoever looks,
  since the mutex is held), and every other step is a stutter.
* `TotalsAreSums`: the totals of bytes and durations are the sums over the queued packets. `TotalsInv` counts an
  empty slot as no bytes and its old duration not at all, so an enqueue adds one slot to both sums, a pop takes
  one away, and the zero that a pop of the last packet writes is the sum over nothing. `TotalsExact` writes the sum as a fold,
  in the order in which `CHOOSE` takes the members. A group of lemmas says what such a fold is: the table of sums of all
  subsets exists (`SumsExist`), any member may be taken off first (`SumsSplit`), and only the members' values
  count (`SumsAgree`). They are proved by induction on the size of the subset, which goes by its smallest
  counterexample (`LeastNumber`, `SubsetInduction`), since the library's induction theorems cannot be instantiated by
  the provers at hand.

**Read-ahead over the network** (`ParallelIo_proofs`; all sizes of files, chunks and windows, any number of
workers): `SlotsHaveOneWriter`, `ReaderGetsTheFile`, `ReadyStays`, whichever of the workers' threads could be created. Workers write outside
the mutex, so that the delivered bytes are right depends on who owns a slot, and who owns it on what
`claim` looks at. `PioInv` adds that a slot in use is that of the chunk it names, that a fetch
has put the units it counts where they belong (`FetchedSoFar`), that a ready slot holds all of its chunk, and that an
open connection stands where its worker believes it does. The step that needs all of it is a read into a slot
while other chunks are claimed, published and served. After a close that
missed a worker (`pio_join`) the code's behaviour is undefined; the model lets no worker step any more.

**Seek handshake** (`Playback_proofs`): `SeekExclusive` - a seek that has not given up is alone in the
decoder, whatever pauses, holds, delayed stores and wedged calls came before. The invariant `SeekInv` relates the flag
the demux thread sees, the store the decode thread has not drained and both program counters. The
decisive part: between the 5 ms sleep and the end of the flush the decode thread can enter the
decoder only through a recheck of the hold, and a set flag means that it has parked since.

**Seek and pause** (`Playback_proofs`): `PlayingMeansRunning` and `PictureNotFrozen`, for announcements and pushes in whatever order their
steps come. The property speaks of quiet states only, so nothing of it survives a single step. `PlayInv` says what
holds between them: a flag that is up has somebody who will take it down - the scrub hold a scrub or the stop that
ended it, the decode hold the demux thread in the middle of its seek, `player_paused` in Playing a seek that is
pending or under way. `PictureNotFrozen` is the same for the clock: a clock that stands in Playing without a window, or
while the decode thread is closing it, has a seek before it that is still to lift the pause (`FrozenHasAnEnd`). The one
pause that has none is the late one of an announcement whose seek is over, which `NotFrozen` excepts.

**Recovery** (`Playback_proofs`): `PacketsComeOnce` for all files and all patterns of failures. The code keeps no
list of what it queued, only a stamp per stream. `RecoveryInv` says that this is enough: each stamp is that of the
newest packet read of its stream (`Newest`), and while the reader is behind the farthest packet every stream
that has a stamp is catching up (`CatchesUp`). Since stamps of a stream grow (`FilesAssumption`),
dropping up to the stamp drops exactly what was read before. What was read (`Reached`) and what the consumers still
have to be given (`owed`) part when a user's seek fails: the queues are cleared, the stamps are not.

**PCM ring** (`Playback_proofs`): `CountStaysBounded` for all ring sizes and limits. A bound on the count alone is not
inductive, since a thread stores what it loaded earlier. `PcmInv` also bounds what each thread has in hand: a
push that saw room has loaded a count below `Blocks - Brim`, a play that saw a block subtracts from one
that is at least zero, whichever stores came in between.

**Sessions** (`Playback_proofs`): `OwnDecoderOnly` for any number of files. `SessionInv` says that, until a native call
goes unanswered (`silent`), the threads of earlier files have ended, the thread of the present file is in
its own decoder, and a closed decoder belongs to a file that is over. No run checks this one: the proof holds for
every number of files, and what matters after a hang is `stop_hung`'s. Its converse is what `stop_hung` shows: after a
hang the first of these is lost.

**Previews** (`Playback_proofs`; any files, cache and moves): `PicturesAreOfTheCursor`. The worker knows a request by its
serial only. `PreviewInv` says what the serial stands for: while it has not moved, the request is the one the worker
took, and the cursor is near the last request unless the cache has answered since. That a move too short for a request
stays near it rests on 0.85 s being less than the cache's 1.5 s (`PreviewsAssumption`).

**Flow of packets** (`ReadAhead_proofs`): `QueuesStayBounded` and `FlowTypeCorrect` for all caps, marks, files and
seeks. The invariant adds that a packet in hand is one the file has.

**Connects** (`NetService_proofs`; any callers, jobs and address lists).

* `JobsAreFreedOnce`: `ConnInv` adds that each waiting caller has a job and that a job's `done` and `orphan`
  flags say truly where its thread is and who has left it (`FlagsAreTrue`); both sides of the race read the
  other's flag under the lock before they free.
* `NoAddressIsSkipped`: the list of marks is shared, and any other call may change it between two looks of this
  one. `SweepInv` therefore speaks of each address behind the cursor: it was tried, or is still marked, or lost its
  mark during the call. `MarksKept` is what each change of the list owes to the other calls.

**Requests** (`NetService_proofs`; any requests, workers and array sizes): `RequestsHaveOneOwner`. The property counts owners of
every request that was allocated, one each, so that neither a second owner nor a lost request goes unseen;
`OwnedInv` has no counts: no array holds a request twice, the places exclude each other, two workers do not
have one request in hand, and a request is in a place or has been freed. The counts follow. That a new start of the
service empties both arrays loses nothing rests on `StoppedInv` (`NetStops`): a service that is down has nothing in
them, and no worker.

**Updater** (`Durable_proofs`): `OnlyVerifiedIsInstalled` and `UpdatesGoForward` for any releases. `UpdaterInv` adds that a
release on offer or in the making is newer than the program, that the busy flag stands for the one
thread that runs, and that nothing but an applied update makes image and running program differ; it is
what keeps a check from replacing the offer while its image is staged.

**Log** (`Durable_proofs`; any lines, runs, drainers and capacities).

* `PreviousRunIsKept`: the saved file is what the last run itself put into the log, which the code has to find by
  its header. `KeptInv` therefore says of the run's own lines and of the last run's that they begin with the only
  header among them and end the log, or have none and are the whole of it (`Found`), unless a crash handler wrote
  them before the log was open, and that a run whose log is not open has no lines there otherwise
  (`EarlyIsACrash`). `FoundIsLast` shows that such a part is what `LastSession` takes.
* `LogKeepsOrder`: `OrderInv` follows a line through the four places it can be in (buffer, queue, a drainer's hand,
  file). Each place is in order and wholly before the next, a drainer past its start has `g_io_lock`, only a
  holder has lines in hand, and during a rotation that was copied the file is part of the older one.

**File transfers** (`FileTransfer_proofs`): `NothingIsLost`, `SuccessIsDelivery`, `NoBrokenCopies` for any folders, files and jobs. The
invariant `TransferInv` accounts for each file of the job in hand: it is still to do, or it has landed at a place
the job will not remove (`Stays`); while a move removes, whatever is left to remove has landed. The theorems
assume `FoldersMoveElsewhere`: no folder is moved to where it lies. Without it they are false, which is
the run `move_loss`.

Other assumptions are the `ASSUME`s of the modules; TLC evaluates them in the runs: a store
holds at least one unit and payloads have at least one byte; a queue has a slot, and the tags that tell its packets apart
are numbers from 1; file, chunk, window and worker counts are natural numbers, and a window has two slots (it moves
by half of itself); caps are at least two and the rebuffer's low mark lies below its targets, as in `Bridge.cpp`; model
values differ from the data they stand beside; the PCM limits leave room (`Low < Blocks - Brim`, ten and two
of the code's ring); a file is a sequence of packets whose stamps grow within a stream, and key packets are
stamped video packets; the thread that opens the log is not its writer. The assumption on stamps is one on the
container: while it catches up, the code takes a packet whose stamp does not grow for one it has queued.

Only model-checked:

* All liveness (`SeekEnds`, `PlaysToTheEnd`, `ReadReturns`, `ShutdownEnds` and the like): fairness is out of
  the prover's reach here.
* The counterexamples of section 5, which need no proof.

## 7. Not modelled

* Bytes of packets and pictures, decoding, formats, logging, statistics.
* Real time. A wait with a limit may end at any moment while it lasts (a safe abstraction
  for safety); which of two limits is shorter is used only in `SeekPark`, where a decoder call that
  returns at all returns before the seek gives up.
* `SeekPark`: no store buffer for the demux thread (its hold is read by a thread that also tests
  it before every decoder call, and the sleep follows the store), no abandoned decode threads (they are in
  `SessionThreads`).
* `SeekSession`: the picture held while a seek runs (its snapshot is taken under a lock), a seek refused without an
  open file, a file's opening up to its threads, track switches, resume positions, end-of-file actions.
* `ReadAhead`: files without video, byte caps (they act like packet caps), read errors and recovery,
  a failing seek, the frame being paced during a seek, off-screen parking. The audio and video clocks
  are places in the file.
* `ParallelIo`: the size probe and allocation of `evo_pio_open`, the counters for the dashboard.
* `SessionThreads`: the audio threads, which are joined bare and use no hardware decoder.
* `PcmRing`: the contents of the blocks, so the drift above is not a property.
* `NetRequests`, `NetConnect`: HTTP, TLS and connection reuse. `Updater`: the notification flag.
* `FileTransfer`: folders inside folders, the clipboard, `renameItem`, `createDirectory`, progress figures. The
  FTP daemon and the plain copy loop are one way to copy.
* `BootLog`: repeat suppression, the live tail, the log server, the crash note's quarantine file, and the sizes at which
  the saved part is cut (its newest 1.5 MB, a header looked for in the last 8 MB).
* `Previews`: the cross-fade, drawing, and what a picture shows (that of a big source may be seconds early).
* Components listed as `not_modelled` in `PROJECT.json`, each with its reason.

Most of the implementation is of that last kind, and the map's share of it stays small for that reason.
Generated data (the bundle of `ui_rml` is the largest file by far), vendored libraries (`stb_image`,
cJSON, qrcodegen), drawing code and screens, the GPU runtime, container and web-API parsers, subtitles and
cover art have no state that two actors share and no protocol beyond one call after another; a
transition system of them would repeat the code. What they share with other threads goes through the
modules here: requests through `NetRequests`, playback commands through `SeekSession`, transfers through
`FileTransfer`.

## 8. Plan

Done, in the order of how much depends on them:

1. `PacketRing`, `PacketQueue`, `PacketFifo`: everything else moves packets through them.
2. `SeekPark`, `SeekSession`: the seek is where the program has crashed and frozen most.
3. `ParallelIo`: network input.
4. `ReadAhead`: flow control between the threads.
5. `DemuxRecovery`: read errors, the seek back, which packets are dropped as already queued.
6. `PcmRing`: the unlocked count under lost updates and resets.
7. `SessionThreads`: an abandoned video thread, the watchdog, and the next session.
8. `NetConnect`, `NetRequests`: the job two threads may free, and the request queue.
9. `FileTransfer`, `Updater`, `BootLog`: what must survive a failure, a cancel or a restart.
10. `Previews`: a worker whose latest request wins.

Left for whoever goes on: track switches in `SeekSession`; folders inside folders in `FileTransfer`. Specifications worth stating: `ParallelIo`
against a file reader that delivers a unit at a place or fails, `NetRequests` against "each request ends
once"; the invariants for both are proved. Proofs worth adding: type correctness of `Previews`,
and that its contexts are never closed in use once the close takes the mutex.
