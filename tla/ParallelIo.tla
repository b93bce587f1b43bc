----------------------------- MODULE ParallelIo -----------------------------
(***************************************************************************)
(* The parallel read-ahead of media/src/evo_parallel_io.c: workers fetch   *)
(* the chunks of a file, each over its own connection, into a window of    *)
(* slots that FFmpeg's thread reads from.  One mutex guards the slots; the *)
(* workers sleep on its condition variable until they are woken, the       *)
(* reader polls it every 100 ms.                                           *)
(*                                                                         *)
(* File and slots are counted in units: a unit is what one avio_read or    *)
(* one pio_read moves, and a unit of data is named by its place in the     *)
(* file, so that a wrong one is seen.                                      *)
(***************************************************************************)
EXTENDS Integers, FiniteSets

CONSTANTS Size,        \* p->size: units of the file
          Chunk,       \* PIO_CHUNK: units of a chunk
          Window,      \* PIO_WINDOW: slots
          NWorkers,    \* PIO_WORKERS
          Attempts,    \* fetch attempts on one chunk: 3
          CreatedSets, \* sets of workers whose threads could be created
          MaxFailures  \* bound: network failures before the network recovers

ASSUME SizeAssumption == Size \in Nat \ {0} /\ Chunk \in Nat \ {0}
ASSUME WindowAssumption == Window \in Nat /\ Window >= 2
ASSUME AttemptsAssumption == Attempts \in Nat \ {0} /\ NWorkers \in Nat

VARIABLES slot,      \* p->slot
          base,      \* p->base: first chunk of the window
          pos,       \* p->pos: where the reader is
          rpc,       \* the reader: outside pio_read, or waiting in it
          intact,    \* history: every unit delivered was the one at its place
          fetch,     \* locals of each worker
          closing,   \* evo_pio_close: "open", "joining" or "freed"
          aborted, stop,
          failures   \* network failures so far

readerVars == <<pos, rpc, intact>>
lifeVars == <<closing, aborted, stop>>
pioVars == <<slot, base, readerVars, fetch, lifeVars, failures>>

Workers == 1 .. NWorkers
Slots == 0 .. (Window - 1)
NChunks == (Size + Chunk - 1) \div Chunk
Chunks == 0 .. (NChunks - 1)
None == 0 - 1

\* Chunk k starts at k * Chunk; the last one may be short.
Want(k) == IF Size - k * Chunk < Chunk THEN Size - k * Chunk ELSE Chunk
SlotOf(k) == k % Window

Stale == [j \in 0 .. (Chunk - 1) |-> None]
EmptySlot == [index |-> None, state |-> "free", data |-> Stale]
IdleWorker == [pc |-> "loop", idx |-> None, got |-> 0, attempt |-> 0, conn |-> None, at |-> None]

PioInit ==
  /\ slot = [i \in Slots |-> EmptySlot]
  /\ base = 0
  /\ pos = 0
  /\ rpc = "outside"
  /\ intact = TRUE
  /\ \E created \in CreatedSets :
       fetch = [w \in Workers |-> IF w \in created THEN IdleWorker
                                ELSE [IdleWorker EXCEPT !.pc = "none"]]
  /\ closing = "open"
  /\ aborted = FALSE
  /\ stop = FALSE
  /\ failures = 0

\* pthread_cond_broadcast: every worker asleep looks for work again.
Woken(f) == [w \in Workers |-> IF f[w].pc = "asleep" THEN [f[w] EXCEPT !.pc = "loop"]
                                                     ELSE f[w]]
-----------------------------------------------------------------------------
(***************************************************************************)
(* The worker thread.  claim takes the chunk nearest the window's start    *)
(* that nobody holds, in a slot no stale fetch still writes to.            *)
(***************************************************************************)
\* Faulty variant: a stale fetch into the slot is not waited for.
ClaimableOverStale(k) ==
  slot[SlotOf(k)].index # k \/ slot[SlotOf(k)].state = "free"

Claimable(k) ==
  LET s == slot[SlotOf(k)] IN
    IF s.index = k THEN s.state = "free" ELSE s.state # "fetching"

\* Faulty variant: the window is one chunk too long.
InWindowByOne(k) == k \in Chunks /\ k \in base .. (base + Window)

InWindow(k) == k \in Chunks /\ k \in base .. (base + Window - 1)

Claim(w) ==
  /\ fetch[w].pc = "loop"
  /\ ~stop
  /\ \E k \in {c \in Chunks : InWindow(c) /\ Claimable(c)} :
       /\ \A c \in Chunks : InWindow(c) /\ Claimable(c) => k <= c
       /\ slot' = [slot EXCEPT ![SlotOf(k)] =
                     [index |-> k, state |-> "fetching", data |-> Stale]]
       /\ fetch' = [fetch EXCEPT ![w] =
                      [@ EXCEPT !.pc = "claimed", !.idx = k, !.got = 0, !.attempt = 0]]
  /\ UNCHANGED <<base, readerVars, lifeVars, failures>>

WaitForWork(w) ==
  /\ fetch[w].pc = "loop"
  /\ ~stop
  /\ \A c \in Chunks : InWindow(c) => ~Claimable(c)
  /\ fetch' = [fetch EXCEPT ![w].pc = "asleep"]
  /\ UNCHANGED <<slot, base, readerVars, lifeVars, failures>>

\* stop is tested once more, outside the mutex: a claim may be left as it stands.
StartFetch(w) ==
  /\ fetch[w].pc = "claimed"
  /\ ~stop
  /\ fetch' = [fetch EXCEPT ![w].pc = "fetch"]
  /\ UNCHANGED <<slot, base, readerVars, lifeVars, failures>>

LeaveOnStop(w) ==
  /\ fetch[w].pc \in {"loop", "claimed"}
  /\ stop
  /\ fetch' = [fetch EXCEPT ![w].pc = "ended", ![w].conn = None]
  /\ UNCHANGED <<slot, base, readerVars, lifeVars, failures>>

\* The file offset the fetch of w needs next.
NextOffset(w) == fetch[w].idx * Chunk + fetch[w].got

Fetching(w) ==
  /\ fetch[w].pc = "fetch"
  /\ fetch[w].got < Want(fetch[w].idx)
  /\ fetch[w].attempt < Attempts
  /\ ~stop

\* Reads and connects fail when the network does, and once the interrupt
\* callback says so.
NetworkFails == \/ aborted /\ UNCHANGED failures
                \/ failures < MaxFailures /\ failures' = failures + 1

TakesUnit(f) == [f EXCEPT !.got = @ + 1, !.conn = @ + 1, !.at = @ + 1]

LosesConnection(f) == [f EXCEPT !.conn = None, !.at = None, !.attempt = @ + 1]

\* Faulty variant: an open connection is used wherever it stands.
NeedsConnectNever(w) == fetch[w].conn = None

NeedsConnect(w) == fetch[w].conn = None \/ fetch[w].at # NextOffset(w)

Connect(w) ==
  /\ Fetching(w)
  /\ NeedsConnect(w)
  /\ \/ /\ ~aborted
        /\ fetch' = [fetch EXCEPT ![w].conn = NextOffset(w), ![w].at = NextOffset(w)]
        /\ UNCHANGED failures
     \/ /\ NetworkFails
        /\ fetch' = [fetch EXCEPT ![w] = LosesConnection(@)]
  /\ UNCHANGED <<slot, base, readerVars, lifeVars>>

\* avio_read straight into the slot, outside the mutex.
ReadUnit(w) ==
  /\ Fetching(w)
  /\ ~NeedsConnect(w)
  /\ \/ /\ ~aborted
        /\ slot' = [slot EXCEPT ![SlotOf(fetch[w].idx)].data[fetch[w].got] = fetch[w].conn]
        /\ fetch' = [fetch EXCEPT ![w] = TakesUnit(@)]
        /\ UNCHANGED failures
     \/ /\ NetworkFails
        /\ fetch' = [fetch EXCEPT ![w] = LosesConnection(@)]
        /\ UNCHANGED slot
  /\ UNCHANGED <<base, readerVars, lifeVars>>

\* The worker looks for another chunk; its connection outlives a whole one only.
EndsFetch(f, whole) == [f EXCEPT !.pc = "loop", !.idx = None, !.got = 0, !.attempt = 0,
                                 !.conn = IF whole THEN @ ELSE None,
                                 !.at = IF whole THEN @ ELSE None]

PublishChunk(w) ==
  /\ fetch[w].pc = "fetch"
  /\ ~Fetching(w)
  /\ LET k == fetch[w].idx
         i == SlotOf(k)
         whole == fetch[w].got = Want(k)
     IN  /\ slot' = (IF slot[i].index = k /\ slot[i].state = "fetching"
                     THEN [slot EXCEPT ![i].state = IF whole THEN "ready" ELSE "failed"]
                     ELSE slot)
         /\ fetch' = Woken([fetch EXCEPT ![w] = EndsFetch(@, whole)])
  /\ UNCHANGED <<base, readerVars, lifeVars, failures>>
-----------------------------------------------------------------------------
(***************************************************************************)
(* pio_read and pio_seek, on the thread that reads the file.  pio_read     *)
(* holds the mutex from its entry to its return, but for its waits.        *)
(***************************************************************************)
ReaderChunk == pos \div Chunk
Holds(state) ==
  slot[SlotOf(ReaderChunk)].index = ReaderChunk /\ slot[SlotOf(ReaderChunk)].state = state

\* The reader has left the first half of the window: a new one starts here.
Moved == ReaderChunk < base \/ ReaderChunk >= base + (Window \div 2)

\* A unit is copied; the slot of a chunk read to its end is given up.
Serve(b, f) ==
  /\ Holds("ready") /\ ~aborted
  /\ rpc' = "outside"
  /\ intact' = (intact /\ slot[SlotOf(ReaderChunk)].data[pos % Chunk] = pos)
  /\ pos' = pos + 1
  /\ IF (pos + 1) \div Chunk # ReaderChunk
     THEN /\ slot' = [slot EXCEPT ![SlotOf(ReaderChunk)] = EmptySlot]
          /\ base' = (pos + 1) \div Chunk
          /\ fetch' = Woken(f)
     ELSE base' = b /\ fetch' = f /\ UNCHANGED slot

\* Not there: a failed chunk is handed back to the workers.
Wait(b, f) ==
  /\ ~Holds("ready") /\ ~aborted
  /\ rpc' = "waiting"
  /\ base' = b
  /\ slot' = (IF Holds("failed") THEN [slot EXCEPT ![SlotOf(ReaderChunk)].state = "free"] ELSE slot)
  /\ fetch' = (IF Holds("failed") THEN Woken(f) ELSE f)
  /\ UNCHANGED <<pos, intact>>

\* AVERROR_EXIT.
LeaveAborted(b, f) ==
  /\ aborted
  /\ rpc' = "outside"
  /\ base' = b /\ fetch' = f
  /\ UNCHANGED <<slot, pos, intact>>

ReaderLooks(b, f) ==
  /\ Serve(b, f) \/ Wait(b, f) \/ LeaveAborted(b, f)
  /\ UNCHANGED <<lifeVars, failures>>

\* Faulty variant: the window moves without a broadcast.
ReadBeginUnsignalled ==
  /\ closing = "open"
  /\ rpc = "outside"
  /\ pos < Size
  /\ IF Moved THEN ReaderLooks(ReaderChunk, fetch) ELSE ReaderLooks(base, fetch)

ReadBegin ==
  /\ closing = "open"
  /\ rpc = "outside"
  /\ pos < Size
  /\ IF Moved THEN ReaderLooks(ReaderChunk, Woken(fetch)) ELSE ReaderLooks(base, fetch)

ReadPolls ==
  /\ rpc = "waiting"
  /\ ReaderLooks(base, fetch)

\* AVERROR(EIO), 30 s after the read began.
ReadExpires ==
  /\ rpc = "waiting"
  /\ ~Holds("ready")
  /\ rpc' = "outside"
  /\ UNCHANGED <<slot, base, pos, intact, fetch, lifeVars, failures>>

Seek(to) ==
  /\ closing = "open"
  /\ rpc = "outside"
  /\ pos' = to
  /\ UNCHANGED <<slot, base, rpc, intact, fetch, lifeVars, failures>>
-----------------------------------------------------------------------------
(***************************************************************************)
(* evo_pio_abort, and evo_pio_close once nothing reads through it.  The    *)
(* workers stand in an array; evo_pio_open counts the threads it could     *)
(* create, and evo_pio_close joins that many from the array's start.       *)
(***************************************************************************)
Abort ==
  /\ closing = "open"
  /\ ~aborted
  /\ aborted' = TRUE
  /\ fetch' = Woken(fetch)
  /\ UNCHANGED <<slot, base, readerVars, closing, stop, failures>>

\* Faulty variant: stop is set without a broadcast.
CloseUnsignalled ==
  /\ closing = "open"
  /\ rpc = "outside"
  /\ closing' = "joining"
  /\ stop' = TRUE
  /\ UNCHANGED <<slot, base, readerVars, fetch, aborted, failures>>

Close ==
  /\ closing = "open"
  /\ rpc = "outside"
  /\ closing' = "joining"
  /\ stop' = TRUE
  /\ fetch' = Woken(fetch)
  /\ UNCHANGED <<slot, base, readerVars, aborted, failures>>

Created == {w \in Workers : fetch[w].pc # "none"}

\* pthread_join on a handle that was never set returns at once.
Joined == \A w \in 1 .. Cardinality(Created) : fetch[w].pc \in {"none", "ended"}

Free ==
  /\ closing = "joining"
  /\ Joined
  /\ closing' = "freed"
  /\ UNCHANGED <<slot, base, readerVars, fetch, aborted, stop, failures>>
-----------------------------------------------------------------------------
\* What a worker does with a reader that has been freed is undefined: nothing
\* more is said of it.
WorkerStep(w) ==
  /\ closing # "freed"
  /\ \/ Claim(w) \/ WaitForWork(w) \/ StartFetch(w) \/ LeaveOnStop(w)
     \/ Connect(w) \/ ReadUnit(w) \/ PublishChunk(w)

PioNext == \/ \E w \in Workers : WorkerStep(w)
           \/ ReadBegin \/ ReadPolls \/ ReadExpires
           \/ \E to \in 0 .. Size : Seek(to)
           \/ Abort \/ Close \/ Free

\* Every thread that can take a step takes it; nobody has to read, seek or
\* close, and no deadline has to expire.
PioFairness == /\ \A w \in Workers : WF_pioVars(WorkerStep(w))
               /\ WF_pioVars(ReadPolls)
               /\ WF_pioVars(Free)

PioSpec == PioInit /\ [][PioNext]_pioVars /\ PioFairness
-----------------------------------------------------------------------------
(* Properties *)

PioTypeOK ==
  /\ \A i \in Slots : /\ slot[i].index \in Chunks \cup {None}
                      /\ slot[i].state \in {"free", "fetching", "ready", "failed"}
  /\ base \in 0 .. NChunks
  /\ pos \in 0 .. Size
  /\ rpc \in {"outside", "waiting"}
  /\ \A w \in Workers :
       /\ fetch[w].pc \in {"none", "loop", "asleep", "claimed", "fetch", "ended"}
       /\ fetch[w].idx \in Chunks \cup {None}
       /\ fetch[w].got \in 0 .. Chunk
       /\ fetch[w].attempt \in 0 .. Attempts
  /\ closing \in {"open", "joining", "freed"}

(***************************************************************************)
(* The reader gets the file: the unit delivered at a place is the file's   *)
(* unit at that place, whatever seeks, stale fetches, reconnects and       *)
(* retries came between.                                                   *)
(***************************************************************************)
DeliversTheFile == intact

(***************************************************************************)
(* Workers write outside the mutex, so a slot being fetched never belongs  *)
(* to two, and belongs to one until the workers are told to stop; and a    *)
(* worker still owns the slot it writes to.                                *)
(***************************************************************************)
Owner(i, w) == fetch[w].pc \in {"claimed", "fetch"} /\ SlotOf(fetch[w].idx) = i

OneWriterPerSlot == \A i \in Slots :
  /\ \A w \in Workers : Owner(i, w) =>
       slot[i].state = "fetching" /\ slot[i].index = fetch[w].idx
  /\ \A v, w \in Workers : Owner(i, v) /\ Owner(i, w) => v = w
  /\ slot[i].state = "fetching" => stop \/ \E w \in Workers : Owner(i, w)

(***************************************************************************)
(* Nothing is fetched twice for nothing: a chunk that is ready and still   *)
(* inside the window stays ready until the reader has read its end.        *)
(***************************************************************************)
ReadyIsKept ==
  [][\A i \in Slots :
       (slot[i].state = "ready" /\ slot[i].index \in base' .. (base' + Window - 1))
         => slot'[i].state = "ready" /\ slot'[i].index = slot[i].index]_pioVars

(***************************************************************************)
(* No wake-up is lost: once the network has recovered a read returns by    *)
(* itself, without the 30 s deadline and although workers only look for    *)
(* work when they are woken.                                               *)
(***************************************************************************)
ReadReturns == rpc = "waiting" ~> rpc = "outside"

(***************************************************************************)
(* Closing ends, however busy the workers are.                             *)
(***************************************************************************)
CloseEnds == closing = "joining" ~> closing = "freed"

(***************************************************************************)
(* A worker holds evo_pio_close until it returns: none still runs, with a  *)
(* pointer to the reader, when the reader is freed.  (Violated: the        *)
(* threads are counted wherever they stand and joined from the start.)     *)
(***************************************************************************)
NoWorkerOutlives == closing = "freed" => \A w \in Created : fetch[w].pc = "ended"
=============================================================================
