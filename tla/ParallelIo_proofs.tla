------------------------- MODULE ParallelIo_proofs -------------------------
(***************************************************************************)
(* The read-ahead delivers the file, for every size of file and chunk and  *)
(* every number of slots and workers.  OneWriterPerSlot is what makes it   *)
(* so: a worker writes outside the mutex, and what it has written below    *)
(* got is right only because nobody else writes there.                     *)
(***************************************************************************)
EXTENDS ParallelIo, TLAPS, FiniteSetTheorems

SlotFields == [index : Chunks \cup {None}, state : {"free", "fetching", "ready", "failed"},
               data : [0 .. (Chunk - 1) -> Int]]
WorkerLocals == [pc : {"none", "loop", "asleep", "claimed", "fetch", "ended"}, idx : Chunks \cup {None},
                 got : 0 .. Chunk, attempt : 0 .. Attempts, conn : Int, at : Int]

(* The types, with the fields of every slot and worker. *)
PioTypes ==
  /\ slot \in [Slots -> SlotFields]
  /\ base \in 0 .. NChunks
  /\ pos \in 0 .. Size
  /\ rpc \in {"outside", "waiting"}
  /\ fetch \in [Workers -> WorkerLocals]
  /\ closing \in {"open", "joining", "freed"}

\* A reader that waits is inside the file: pio_read returned at its end.
WaitsInFile == rpc = "waiting" => pos < Size

\* A slot in use is the slot of the chunk it names.
SlotsAreNamed == \A i \in Slots :
  slot[i].state # "free" => slot[i].index \in Chunks /\ SlotOf(slot[i].index) = i

\* A worker with a chunk; f are its locals.
Busy(f) == f.pc \in {"claimed", "fetch"}

\* The units below got are those of the chunk; so are all of a ready slot's.
SlotHolds(i, k, n) == \A j \in 0 .. (n - 1) : slot[i].data[j] = k * Chunk + j

ReadyHoldsItsChunk == \A i \in Slots :
  slot[i].state = "ready" => SlotHolds(i, slot[i].index, Want(slot[i].index))

FetchedSoFar == \A w \in Workers : Busy(fetch[w]) =>
  /\ fetch[w].idx \in Chunks /\ fetch[w].got <= Want(fetch[w].idx)
  /\ SlotHolds(SlotOf(fetch[w].idx), fetch[w].idx, fetch[w].got)

\* An open connection stands where its worker believes it does.
ConnectionsStandWhereTheySay == \A w \in Workers :
  fetch[w].conn # None => fetch[w].at = fetch[w].conn

PioInv == /\ PioTypes
          /\ WaitsInFile
          /\ SlotsAreNamed
          /\ ReadyHoldsItsChunk
          /\ FetchedSoFar
          /\ ConnectionsStandWhereTheySay
          /\ OneWriterPerSlot
          /\ DeliversTheFile
-----------------------------------------------------------------------------
(* Division, and the multiples of d. *)
LEMMA DivMod ==
  ASSUME NEW k \in Int, NEW d \in Nat \ {0}
  PROVE  /\ k \div d \in Int /\ k % d \in 0 .. (d - 1)
         /\ k = (k \div d) * d + (k % d)
OBVIOUS

LEMMA Multiples ==
  ASSUME NEW a \in Int, NEW b \in Int, NEW d \in Nat \ {0}, a < b
  PROVE  a * d + d <= b * d
OBVIOUS

(* Every chunk has a slot, and within a window no two share one. *)
LEMMA SlotOfChunk == \A k \in Int : SlotOf(k) \in Slots
BY WindowAssumption, DivMod DEF SlotOf, Slots

LEMMA SlotsOfAWindow ==
  ASSUME NEW b \in Int, NEW k \in b .. (b + Window - 1), NEW c \in b .. (b + Window - 1),
         SlotOf(k) = SlotOf(c)
  PROVE  k = c
<1>1. Window \in Nat \ {0}
  BY WindowAssumption
<1> DEFINE q == k \div Window
           p == c \div Window
<1>2. q \in Int /\ p \in Int /\ k - q * Window = c - p * Window
      /\ k \in Int /\ c \in Int /\ q * Window \in Int /\ p * Window \in Int
  BY <1>1, DivMod DEF SlotOf
<1> HIDE DEF q, p
<1>3. ~(q < p)
  BY <1>2, <1>1, Multiples
<1>4. ~(p < q)
  BY <1>2, <1>1, Multiples
<1> QED
  BY <1>2, <1>3, <1>4

(* A chunk of the file has at least one unit and at most Chunk. *)
LEMMA ChunkSize ==
  /\ NChunks \in Nat
  /\ \A k \in Chunks : k \in Nat /\ k * Chunk \in Nat /\ Want(k) \in 1 .. Chunk
<1>1. Chunk \in Nat \ {0} /\ Size \in Nat \ {0}
  BY SizeAssumption
<1>2. NChunks \in Int /\ NChunks * Chunk \in Int /\ NChunks * Chunk <= Size + Chunk - 1
      /\ Size + Chunk - 1 < NChunks * Chunk + Chunk
  <2>1. Size + Chunk - 1 \in Int
    BY <1>1
  <2> QED
    BY <1>1, <2>1, DivMod DEF NChunks
<1>3. NChunks >= 1
  <2>1. SUFFICES ASSUME NChunks < 1 PROVE FALSE
    BY <1>2
  <2>2. NChunks * Chunk + Chunk <= 1 * Chunk
    BY <2>1, <1>1, <1>2, Multiples
  <2> QED
    BY <2>2, <1>1, <1>2
<1>4. ASSUME NEW k \in Chunks
      PROVE  k \in Nat /\ k * Chunk \in Nat /\ Want(k) \in 1 .. Chunk
  <2>1. k \in Nat /\ k < NChunks /\ k * Chunk \in Nat
    BY <1>2, <1>1 DEF Chunks
  <2>2. k * Chunk + Chunk <= NChunks * Chunk
    BY <2>1, <1>1, <1>2, Multiples
  <2> QED
    BY <2>1, <2>2, <1>1, <1>2 DEF Want
<1> QED
  BY <1>2, <1>3, <1>4

(* Where the reader stands in its chunk, and which chunk comes next. *)
LEMMA ReaderPlace ==
  ASSUME NEW p \in 0 .. (Size - 1)
  PROVE  /\ p \div Chunk \in Chunks
         /\ p % Chunk \in 0 .. (Want(p \div Chunk) - 1)
         /\ (p \div Chunk) * Chunk + (p % Chunk) = p
         /\ (p + 1) \div Chunk \in 0 .. NChunks
         /\ p \div Chunk <= (p + 1) \div Chunk
<1>1. Chunk \in Nat \ {0} /\ Size \in Nat \ {0} /\ p \in Nat /\ p < Size
  BY SizeAssumption
<1> DEFINE q == p \div Chunk
           n == (p + 1) \div Chunk
<1>2. /\ NChunks \in Int /\ NChunks * Chunk \in Int
      /\ Size + Chunk - 1 < NChunks * Chunk + Chunk
  <2>1. Size + Chunk - 1 \in Int
    BY <1>1
  <2> QED
    BY <1>1, <2>1, DivMod DEF NChunks
<1>3. /\ q \in Int /\ q * Chunk \in Int /\ p % Chunk \in 0 .. (Chunk - 1)
      /\ p = q * Chunk + (p % Chunk)
  BY <1>1, DivMod
<1>4. /\ n \in Int /\ n * Chunk \in Int
      /\ n * Chunk <= p + 1 /\ p + 1 < n * Chunk + Chunk
  <2>1. p + 1 \in Int
    BY <1>1
  <2> QED
    BY <1>1, <2>1, DivMod
<1> HIDE DEF q, n
<1>5. q >= 0
  <2>1. SUFFICES ASSUME q < 0 PROVE FALSE
    BY <1>3
  <2>2. q * Chunk + Chunk <= 0 * Chunk
    BY <2>1, <1>1, <1>3, Multiples
  <2> QED
    BY <2>2, <1>1, <1>3
<1>6. q < NChunks
  <2>1. SUFFICES ASSUME NChunks < q + 1 PROVE FALSE
    BY <1>2, <1>3
  <2>2. NChunks * Chunk <= q * Chunk
    BY <2>1, <1>1, <1>2, <1>3, Multiples
  <2> QED
    BY <2>2, <1>1, <1>2, <1>3
<1>7. q <= n
  <2>1. SUFFICES ASSUME n < q PROVE FALSE
    BY <1>3, <1>4
  <2>2. n * Chunk + Chunk <= q * Chunk
    BY <2>1, <1>1, <1>3, <1>4, Multiples
  <2> QED
    BY <2>2, <1>1, <1>3, <1>4
<1>8. n <= NChunks
  <2>1. SUFFICES ASSUME NChunks < n PROVE FALSE
    BY <1>2, <1>4
  <2>2. NChunks * Chunk + Chunk <= n * Chunk
    BY <2>1, <1>1, <1>2, <1>4, Multiples
  <2> QED
    BY <2>2, <1>1, <1>2, <1>4
<1>9. q \in Chunks
  BY <1>3, <1>5, <1>6, <1>2 DEF Chunks
<1>10. p % Chunk \in 0 .. (Want(q) - 1)
  BY <1>3, <1>1 DEF Want
<1> QED
  BY <1>3, <1>4, <1>5, <1>7, <1>8, <1>9, <1>10, <1>2 DEF q, n
-----------------------------------------------------------------------------
(* A broadcast changes nothing but where the sleepers are. *)
LEMMA WokenWorkers ==
  ASSUME NEW f \in [Workers -> WorkerLocals]
  PROVE  /\ Woken(f) \in [Workers -> WorkerLocals]
         /\ \A w \in Workers :
              Woken(f)[w] = [f[w] EXCEPT !.pc = IF @ = "asleep" THEN "loop" ELSE @]
BY DEF Woken, WorkerLocals

(* f and g hold the same chunk, fetched as far. *)
SameWork(f, g) == /\ Busy(g) <=> Busy(f)
                  /\ g.idx = f.idx /\ g.got = f.got
                  /\ g.conn # None => g.at = g.conn

LEMMA WokenWork ==
  ASSUME NEW f \in [Workers -> WorkerLocals],
         \A w \in Workers : f[w].conn # None => f[w].at = f[w].conn
  PROVE  /\ Woken(f) \in [Workers -> WorkerLocals]
         /\ \A w \in Workers : SameWork(f[w], Woken(f)[w])
<1>1. SUFFICES ASSUME NEW w \in Workers PROVE SameWork(f[w], Woken(f)[w])
  BY WokenWorkers
<1>2. f[w] \in WorkerLocals /\ Woken(f)[w] = [f[w] EXCEPT !.pc = IF @ = "asleep" THEN "loop" ELSE @]
  BY WokenWorkers
<1>3. /\ Busy(Woken(f)[w]) <=> Busy(f[w])
      /\ Woken(f)[w].idx = f[w].idx /\ Woken(f)[w].got = f[w].got
      /\ Woken(f)[w].conn = f[w].conn /\ Woken(f)[w].at = f[w].at
  BY <1>2 DEF WorkerLocals, Busy
<1> QED
  BY <1>3 DEF SameWork

(* The first state. *)
LEMMA PioStarts == PioInit => PioInv
<1> SUFFICES ASSUME PioInit PROVE PioInv
  OBVIOUS
<1>1. EmptySlot \in SlotFields /\ EmptySlot.state = "free"
  BY DEF EmptySlot, SlotFields, Stale, None
<1>2. \A w \in Workers : fetch[w] \in WorkerLocals /\ ~Busy(fetch[w]) /\ fetch[w].conn = None
  BY AttemptsAssumption, SizeAssumption DEF PioInit, IdleWorker, WorkerLocals, None, Busy
<1>3. fetch \in [Workers -> WorkerLocals]
  BY <1>2 DEF PioInit
<1>4. slot \in [Slots -> SlotFields] /\ \A i \in Slots : slot[i].state = "free"
  BY <1>1 DEF PioInit
<1>5. PioTypes /\ WaitsInFile /\ DeliversTheFile
  BY <1>3, <1>4, ChunkSize, SizeAssumption DEF PioInit, PioTypes, WaitsInFile, DeliversTheFile
<1> QED
  BY <1>2, <1>4, <1>5 DEF PioInv, SlotsAreNamed, ReadyHoldsItsChunk, FetchedSoFar,
     ConnectionsStandWhereTheySay, OneWriterPerSlot, Owner, Busy

(* A step that leaves the slots alone, and what each worker holds. *)
LEMMA SlotsUntouched ==
  ASSUME PioInv, slot' = slot, intact', stop => stop',
         base' \in 0 .. NChunks, pos' \in 0 .. Size, rpc' \in {"outside", "waiting"},
         closing' \in {"open", "joining", "freed"}, rpc' = "waiting" => pos' < Size,
         fetch' \in [Workers -> WorkerLocals], \A w \in Workers : SameWork(fetch[w], fetch'[w])
  PROVE  PioInv'
<1>1. PioTypes' /\ WaitsInFile' /\ DeliversTheFile'
  BY DEF PioInv, PioTypes, WaitsInFile, DeliversTheFile
<1>2. SlotsAreNamed' /\ ReadyHoldsItsChunk'
  BY DEF PioInv, SlotsAreNamed, ReadyHoldsItsChunk, SlotHolds
<1>3. FetchedSoFar' /\ ConnectionsStandWhereTheySay'
  BY DEF PioInv, FetchedSoFar, ConnectionsStandWhereTheySay, SlotHolds, SameWork
<1>4. OneWriterPerSlot'
  BY DEF PioInv, OneWriterPerSlot, Owner, SameWork, Busy
<1> QED
  BY <1>1, <1>2, <1>3, <1>4 DEF PioInv

(* The worker's steps that touch no slot. *)
LEMMA WorkerWaits ==
  ASSUME PioInv, NEW w \in Workers, WaitForWork(w) \/ StartFetch(w) \/ Connect(w)
  PROVE  PioInv'
<1> USE DEF PioInv, PioTypes
<1>1. ConnectionsStandWhereTheySay
  OBVIOUS
<1>2. /\ slot' = slot /\ intact' /\ base' = base /\ pos' = pos
      /\ rpc' = rpc /\ closing' = closing /\ stop' = stop
  BY DEF DeliversTheFile, WaitForWork, StartFetch, Connect, readerVars, lifeVars
<1>3. fetch[w] \in WorkerLocals
  OBVIOUS
<1>4. /\ fetch' = [fetch EXCEPT ![w] = fetch'[w]]
      /\ fetch'[w] \in WorkerLocals /\ SameWork(fetch[w], fetch'[w])
  <2>1. CASE WaitForWork(w)
    BY <1>1, <1>3, <2>1 DEF WaitForWork, SameWork, ConnectionsStandWhereTheySay, WorkerLocals, Busy
  <2>2. CASE StartFetch(w)
    BY <1>1, <1>3, <2>2 DEF StartFetch, SameWork, ConnectionsStandWhereTheySay, WorkerLocals, Busy
  <2>3. CASE Connect(w)
    <3>1. Fetching(w) /\ fetch[w].pc = "fetch" /\ fetch[w].idx \in Chunks /\ NextOffset(w) \in Int
      BY <2>3, <1>3, ChunkSize DEF Connect, Fetching, FetchedSoFar, NextOffset, WorkerLocals, Busy
    <3>2. CASE fetch' = [fetch EXCEPT ![w].conn = NextOffset(w), ![w].at = NextOffset(w)]
      BY <3>1, <3>2, <1>3 DEF SameWork, WorkerLocals, Busy
    <3>3. CASE fetch' = [fetch EXCEPT ![w] = LosesConnection(@)]
      <4>1. fetch[w].attempt + 1 \in 0 .. Attempts /\ None \in Int
        BY <1>3, <3>1, AttemptsAssumption DEF WorkerLocals, Fetching, None
      <4>2. fetch'[w] = LosesConnection(fetch[w]) /\ fetch' = [fetch EXCEPT ![w] = fetch'[w]]
        BY <3>3
      <4> QED
        BY <3>1, <4>1, <4>2, <1>3 DEF SameWork, WorkerLocals, LosesConnection, Busy
    <3> QED
      BY <2>3, <3>2, <3>3 DEF Connect
  <2> QED
    BY <2>1, <2>2, <2>3
<1>5. /\ fetch' \in [Workers -> WorkerLocals]
      /\ \A v \in Workers : SameWork(fetch[v], fetch'[v])
  BY <1>1, <1>4 DEF SameWork, ConnectionsStandWhereTheySay
<1> QED
  BY <1>2, <1>5, SlotsUntouched DEF WaitsInFile

(* A worker that leaves its claim as it stands does so once stop is set. *)
LEMMA LeaveKeeps == ASSUME PioInv, NEW w \in Workers, LeaveOnStop(w) PROVE PioInv'
<1>1. /\ slot' = slot /\ intact' /\ base' = base /\ pos' = pos
      /\ rpc' = rpc /\ closing' = closing /\ stop'
  BY DEF LeaveOnStop, readerVars, lifeVars, PioInv, DeliversTheFile
<1>2. fetch' = [fetch EXCEPT ![w] = [@ EXCEPT !.pc = "ended", !.conn = None]]
  BY DEF LeaveOnStop
<1>3. fetch \in [Workers -> WorkerLocals] /\ fetch[w] \in WorkerLocals /\ None \in Int
  BY DEF PioInv, PioTypes, None
<1>4. /\ fetch' \in [Workers -> WorkerLocals]
      /\ ~Busy(fetch'[w]) /\ fetch'[w].conn = None
      /\ \A v \in Workers : v # w => fetch'[v] = fetch[v]
  BY <1>2, <1>3 DEF WorkerLocals, Busy
<1>5. PioTypes' /\ WaitsInFile' /\ DeliversTheFile' /\ SlotsAreNamed' /\ ReadyHoldsItsChunk'
  BY <1>1, <1>4 DEF PioInv, PioTypes, WaitsInFile, DeliversTheFile, SlotsAreNamed,
     ReadyHoldsItsChunk, SlotHolds
<1>6. FetchedSoFar' /\ ConnectionsStandWhereTheySay'
  BY <1>1, <1>4 DEF PioInv, FetchedSoFar, ConnectionsStandWhereTheySay, SlotHolds
<1>7. OneWriterPerSlot'
  BY <1>1, <1>4 DEF PioInv, OneWriterPerSlot, Owner, Busy
<1> QED
  BY <1>5, <1>6, <1>7 DEF PioInv

(* Abort, close, and the reader's steps that touch no slot. *)
LEMMA OthersWait ==
  ASSUME PioInv,
         \/ ReadExpires \/ Abort \/ Close \/ Free
         \/ \E to \in 0 .. Size : Seek(to)
  PROVE  PioInv'
<1>1. /\ \A w \in Workers : SameWork(fetch[w], fetch[w])
      /\ \A w \in Workers : fetch[w].conn # None => fetch[w].at = fetch[w].conn
  BY DEF PioInv, SameWork, ConnectionsStandWhereTheySay
<1>2. /\ fetch' \in [Workers -> WorkerLocals]
      /\ \A w \in Workers : SameWork(fetch[w], fetch'[w])
  <2>1. fetch' = fetch \/ fetch' = Woken(fetch)
    BY DEF ReadExpires, Abort, Close, Free, Seek
  <2> QED
    BY <1>1, <2>1, WokenWork DEF PioInv, PioTypes
<1>3. /\ slot' = slot /\ intact' = intact /\ base' = base
      /\ pos' \in 0 .. Size /\ rpc' \in {"outside", "waiting"} /\ (rpc' = "waiting" => pos' < Size)
  BY DEF ReadExpires, Abort, Close, Free, Seek, readerVars, PioInv, PioTypes, WaitsInFile
<1>4. closing' \in {"open", "joining", "freed"} /\ (stop => stop')
  BY DEF ReadExpires, Abort, Close, Free, Seek, lifeVars, PioInv, PioTypes
<1> QED
  BY <1>2, <1>3, <1>4, SlotsUntouched DEF PioInv, PioTypes, DeliversTheFile

(* No worker holds a chunk whose slot is not being fetched into. *)
LEMMA NobodyWrites ==
  ASSUME PioInv, NEW i \in Slots, slot[i].state # "fetching",
         NEW v \in Workers, Busy(fetch[v])
  PROVE  SlotOf(fetch[v].idx) \in Slots /\ SlotOf(fetch[v].idx) # i
<1>1. fetch[v].idx \in Int
  BY ChunkSize DEF PioInv, FetchedSoFar
<1> QED
  BY <1>1, SlotOfChunk DEF PioInv, OneWriterPerSlot, Owner, Busy

(* A slot nobody writes to is given up. *)
LEMMA SlotGivenUp ==
  ASSUME PioInv, NEW i \in Slots, NEW s \in SlotFields, s.state = "free",
         slot[i].state # "fetching", slot' = [slot EXCEPT ![i] = s], intact', stop => stop',
         base' \in 0 .. NChunks, pos' \in 0 .. Size, rpc' \in {"outside", "waiting"},
         closing' \in {"open", "joining", "freed"}, rpc' = "waiting" => pos' < Size,
         fetch' \in [Workers -> WorkerLocals], \A w \in Workers : SameWork(fetch[w], fetch'[w])
  PROVE  PioInv'
<1>1. /\ slot \in [Slots -> SlotFields] /\ slot' \in [Slots -> SlotFields] /\ slot'[i].state = "free"
      /\ \A j \in Slots : j # i => slot'[j] = slot[j]
  BY DEF PioInv, PioTypes
<1>2. \A v \in Workers : Busy(fetch[v]) =>
        slot'[SlotOf(fetch[v].idx)] = slot[SlotOf(fetch[v].idx)]
  BY <1>1, NobodyWrites
<1>3. PioTypes' /\ WaitsInFile' /\ DeliversTheFile'
  BY <1>1 DEF PioInv, PioTypes, WaitsInFile, DeliversTheFile
<1>4. SlotsAreNamed' /\ ReadyHoldsItsChunk'
  BY <1>1 DEF PioInv, SlotsAreNamed, ReadyHoldsItsChunk, SlotHolds
<1>5. FetchedSoFar' /\ ConnectionsStandWhereTheySay'
  BY <1>2 DEF PioInv, FetchedSoFar, ConnectionsStandWhereTheySay, SlotHolds, SameWork
<1>6. OneWriterPerSlot'
  BY <1>1, <1>2 DEF PioInv, OneWriterPerSlot, Owner, SameWork, Busy
<1> QED
  BY <1>3, <1>4, <1>5, <1>6 DEF PioInv

(* The reader's look takes the right unit, and gives up only what is ready. *)
LEMMA LookKeeps ==
  ASSUME PioInv, pos < Size, NEW b \in 0 .. NChunks, NEW f \in [Workers -> WorkerLocals],
         f = fetch \/ f = Woken(fetch), ReaderLooks(b, f)
  PROVE  PioInv'
<1>1. pos \in 0 .. (Size - 1) /\ pos + 1 \in 0 .. Size
  BY SizeAssumption DEF PioInv, PioTypes
<1>2. /\ ReaderChunk \in Chunks /\ pos % Chunk \in 0 .. (Want(ReaderChunk) - 1)
      /\ ReaderChunk * Chunk + (pos % Chunk) = pos /\ (pos + 1) \div Chunk \in 0 .. NChunks
  BY <1>1, ReaderPlace DEF ReaderChunk
<1> DEFINE i == SlotOf(ReaderChunk)
<1>3. i \in Slots
  BY <1>2, ChunkSize, SlotOfChunk
<1>4. slot[i] \in SlotFields /\ slot \in [Slots -> SlotFields]
  BY <1>3 DEF PioInv, PioTypes
<1>5. /\ f \in [Workers -> WorkerLocals] /\ \A w \in Workers : SameWork(fetch[w], f[w])
      /\ Woken(f) \in [Workers -> WorkerLocals] /\ \A w \in Workers : SameWork(fetch[w], Woken(f)[w])
  <2>1. /\ fetch \in [Workers -> WorkerLocals]
        /\ \A w \in Workers : fetch[w].conn # None => fetch[w].at = fetch[w].conn
    BY DEF PioInv, PioTypes, ConnectionsStandWhereTheySay
  <2>2. \A w \in Workers : SameWork(fetch[w], f[w])
    BY <2>1, WokenWork DEF SameWork
  <2>3. \A w \in Workers : f[w].conn # None => f[w].at = f[w].conn
    BY <2>2 DEF SameWork
  <2>4. /\ Woken(f) \in [Workers -> WorkerLocals]
        /\ \A w \in Workers : SameWork(f[w], Woken(f)[w])
    BY <2>3, WokenWork
  <2> QED
    BY <2>2, <2>4 DEF SameWork
<1>6. closing' = closing /\ stop' = stop /\ closing \in {"open", "joining", "freed"} /\ pos \in 0 .. Size /\ intact
  BY DEF ReaderLooks, lifeVars, PioInv, PioTypes, DeliversTheFile
<1>7. CASE Serve(b, f)
  <2>1. slot[i].state = "ready" /\ slot[i].index = ReaderChunk
    BY <1>7 DEF Serve, Holds
  <2>2. slot[i].data[pos % Chunk] = pos
    BY <2>1, <1>2, <1>3 DEF PioInv, ReadyHoldsItsChunk, SlotHolds
  <2>3. intact' /\ pos' = pos + 1 /\ rpc' = "outside"
    BY <1>6, <1>7, <2>2 DEF Serve
  <2>4. CASE (pos + 1) \div Chunk # ReaderChunk
    <3>1. EmptySlot \in SlotFields /\ EmptySlot.state = "free"
      BY DEF EmptySlot, SlotFields, Stale, None
    <3>2. slot' = [slot EXCEPT ![i] = EmptySlot] /\ base' = (pos + 1) \div Chunk /\ fetch' = Woken(f)
      BY <1>7, <2>4 DEF Serve
    <3> QED
      BY <1>1, <1>2, <1>3, <1>5, <1>6, <2>1, <2>3, <3>1, <3>2, SlotGivenUp
  <2>5. CASE (pos + 1) \div Chunk = ReaderChunk
    <3>1. slot' = slot /\ base' = b /\ fetch' = f
      BY <1>7, <2>5 DEF Serve
    <3> QED
      BY <1>1, <1>5, <1>6, <2>3, <3>1, SlotsUntouched
  <2> QED
    BY <2>4, <2>5
<1>8. CASE Wait(b, f)
  <2>1. base' = b /\ rpc' = "waiting" /\ pos' = pos /\ intact'
    BY <1>6, <1>8 DEF Wait
  <2>2. CASE Holds("failed")
    <3> DEFINE s == [slot[i] EXCEPT !.state = "free"]
    <3>1. slot' = [slot EXCEPT ![i] = s] /\ fetch' = Woken(f) /\ slot[i].state # "fetching"
      BY <1>8, <2>2, <1>3, <1>4 DEF Wait, Holds
    <3>2. s \in SlotFields /\ s.state = "free"
      BY <1>4 DEF SlotFields
    <3> HIDE DEF s
    <3> QED
      BY <1>3, <1>5, <1>6, <2>1, <3>1, <3>2, SlotGivenUp
  <2>3. CASE ~Holds("failed")
    <3>1. slot' = slot /\ fetch' = f
      BY <1>8, <2>3 DEF Wait
    <3> QED
      BY <1>5, <1>6, <2>1, <3>1, SlotsUntouched
  <2> QED
    BY <2>2, <2>3
<1>9. CASE LeaveAborted(b, f)
  <2>1. slot' = slot /\ base' = b /\ fetch' = f /\ rpc' = "outside" /\ pos' = pos /\ intact'
    BY <1>6, <1>9 DEF LeaveAborted
  <2> QED
    BY <1>5, <1>6, <2>1, SlotsUntouched
<1> QED
  BY <1>7, <1>8, <1>9 DEF ReaderLooks

LEMMA ReaderKeeps == ASSUME PioInv, ReadBegin \/ ReadPolls PROVE PioInv'
<1>1. /\ fetch \in [Workers -> WorkerLocals] /\ Woken(fetch) \in [Workers -> WorkerLocals]
      /\ base \in 0 .. NChunks
  BY WokenWorkers DEF PioInv, PioTypes
<1>2. pos < Size
  BY DEF PioInv, ReadBegin, ReadPolls, WaitsInFile
<1>3. ReaderChunk \in 0 .. NChunks
  <2>1. pos \in 0 .. (Size - 1)
    BY <1>2, SizeAssumption DEF PioInv, PioTypes
  <2>2. ReaderChunk \in Chunks
    BY <2>1, ReaderPlace DEF ReaderChunk
  <2> QED
    BY <2>2, ChunkSize DEF Chunks
<1>4. \/ ReaderLooks(ReaderChunk, Woken(fetch))
      \/ ReaderLooks(base, fetch)
  BY DEF ReadBegin, ReadPolls
<1> QED
  BY <1>1, <1>2, <1>3, <1>4, LookKeeps

(* A claim takes a slot nobody writes to. *)
LEMMA ClaimKeeps == ASSUME PioInv, NEW w \in Workers, Claim(w) PROVE PioInv'
<1>1. PICK k \in Chunks :
        /\ InWindow(k) /\ Claimable(k)
        /\ slot' = [slot EXCEPT ![SlotOf(k)] = [index |-> k, state |-> "fetching", data |-> Stale]]
        /\ fetch' = [fetch EXCEPT ![w] =
                       [@ EXCEPT !.pc = "claimed", !.idx = k, !.got = 0, !.attempt = 0]]
  BY DEF Claim
<1> DEFINE i == SlotOf(k)
           s == [index |-> k, state |-> "fetching", data |-> Stale]
<1>2. i \in Slots /\ k \in Nat /\ Want(k) \in 1 .. Chunk
  BY <1>1, ChunkSize, SlotOfChunk
<1>3. slot[i].state # "fetching"
  BY <1>1 DEF Claimable
<1>4. s \in SlotFields /\ s.index = k /\ s.state = "fetching"
  BY <1>1 DEF SlotFields, Stale, None
<1>5. slot \in [Slots -> SlotFields] /\ slot' = [slot EXCEPT ![i] = s]
  BY <1>1 DEF PioInv, PioTypes
<1> HIDE DEF s
<1>6. /\ slot' \in [Slots -> SlotFields]
      /\ slot'[i].index = k /\ slot'[i].state = "fetching"
      /\ \A j \in Slots : j # i => slot'[j] = slot[j]
  BY <1>2, <1>4, <1>5
<1>7. /\ fetch' \in [Workers -> WorkerLocals]
      /\ Busy(fetch'[w]) /\ fetch'[w].idx = k /\ fetch'[w].got = 0
      /\ fetch'[w].conn = fetch[w].conn /\ fetch'[w].at = fetch[w].at
      /\ \A v \in Workers : v # w => fetch'[v] = fetch[v]
  <2>1. fetch \in [Workers -> WorkerLocals] /\ fetch[w] \in WorkerLocals
    BY DEF PioInv, PioTypes
  <2>2. 0 \in 0 .. Chunk /\ 0 \in 0 .. Attempts
    BY SizeAssumption, AttemptsAssumption
  <2> QED
    BY <1>1, <2>1, <2>2 DEF WorkerLocals, Busy
<1>8. /\ base' = base /\ pos' = pos /\ rpc' = rpc /\ intact' = intact /\ closing' = closing /\ stop' = stop
      /\ stop' = stop /\ ~Busy(fetch[w])
  BY DEF Claim, readerVars, lifeVars, Busy
<1>9. \A v \in Workers : Busy(fetch[v]) =>
        /\ SlotOf(fetch[v].idx) # i /\ v # w
        /\ slot'[SlotOf(fetch[v].idx)] = slot[SlotOf(fetch[v].idx)]
  BY <1>2, <1>3, <1>6, <1>8, NobodyWrites
<1>10. PioTypes' /\ WaitsInFile' /\ DeliversTheFile'
  BY <1>6, <1>7, <1>8 DEF PioInv, PioTypes, WaitsInFile, DeliversTheFile
<1>11. SlotsAreNamed' /\ ReadyHoldsItsChunk'
  BY <1>1, <1>6 DEF PioInv, SlotsAreNamed, ReadyHoldsItsChunk, SlotHolds
<1>12. FetchedSoFar'
  <2>1. ASSUME NEW v \in Workers, Busy(fetch'[v])
        PROVE  /\ fetch'[v].idx \in Chunks /\ fetch'[v].got <= Want(fetch'[v].idx)
               /\ \A j \in 0 .. (fetch'[v].got - 1) :
                    slot'[SlotOf(fetch'[v].idx)].data[j] = fetch'[v].idx * Chunk + j
    <3>1. CASE v = w
      BY <1>1, <1>2, <1>7, <3>1 DEF SlotHolds
    <3>2. CASE v # w
      BY <1>7, <1>9, <2>1, <3>2 DEF PioInv, FetchedSoFar, SlotHolds
    <3> QED
      BY <3>1, <3>2
  <2> QED
    BY <2>1 DEF FetchedSoFar, SlotHolds
<1>13. ConnectionsStandWhereTheySay'
  BY <1>7 DEF PioInv, ConnectionsStandWhereTheySay
<1>14. OneWriterPerSlot'
  <2>1. \A v \in Workers : Owner(i, v)' <=> v = w
    BY <1>2, <1>7, <1>9 DEF Owner, Busy
  <2>2. \A j \in Slots : j # i => \A v \in Workers : Owner(j, v)' => v # w /\ Owner(j, v)
    BY <1>7, <1>9 DEF Owner, Busy
  <2>3. \A j \in Slots : j # i => \A v \in Workers : Owner(j, v) => v # w /\ Owner(j, v)'
    BY <1>7, <1>8, <1>9 DEF Owner, Busy
  <2>4. ASSUME NEW j \in Slots
        PROVE  /\ \A v \in Workers : Owner(j, v)' =>
                    slot'[j].state = "fetching" /\ slot'[j].index = fetch'[v].idx
               /\ \A u, v \in Workers : Owner(j, u)' /\ Owner(j, v)' => u = v
               /\ slot'[j].state = "fetching" => stop' \/ \E v \in Workers : Owner(j, v)'
    <3>1. CASE j = i
      BY <1>6, <1>7, <2>1, <3>1
    <3>2. CASE j # i
      BY <1>6, <1>7, <1>8, <2>2, <2>3, <3>2 DEF PioInv, OneWriterPerSlot
    <3> QED
      BY <3>1, <3>2
  <2> QED
    BY <2>4 DEF OneWriterPerSlot
<1> QED
  BY <1>10, <1>11, <1>12, <1>13, <1>14 DEF PioInv

(* The worker that holds a chunk is the only one that writes its slot. *)
LEMMA OnlyWriter ==
  ASSUME PioInv, NEW w \in Workers, Busy(fetch[w])
  PROVE  /\ fetch[w].idx \in Chunks /\ SlotOf(fetch[w].idx) \in Slots
         /\ slot[SlotOf(fetch[w].idx)].state = "fetching"
         /\ slot[SlotOf(fetch[w].idx)].index = fetch[w].idx
         /\ \A v \in Workers : v # w /\ Busy(fetch[v]) =>
              SlotOf(fetch[v].idx) \in Slots /\ SlotOf(fetch[v].idx) # SlotOf(fetch[w].idx)
<1>1. \A v \in Workers : Busy(fetch[v]) => fetch[v].idx \in Chunks /\ SlotOf(fetch[v].idx) \in Slots
  BY ChunkSize, SlotOfChunk DEF PioInv, FetchedSoFar
<1> QED
  BY <1>1 DEF PioInv, OneWriterPerSlot, Owner, Busy

(* A unit read goes where it belongs, and into nobody else's slot. *)
LEMMA ReadUnitKeeps == ASSUME PioInv, NEW w \in Workers, ReadUnit(w) PROVE PioInv'
<1> DEFINE k == fetch[w].idx
           i == SlotOf(k)
           n == fetch[w].got
<1>1. fetch[w].pc = "fetch" /\ n < Want(k) /\ fetch[w].attempt < Attempts
      /\ fetch[w].conn # None /\ fetch[w].at = k * Chunk + n
  BY DEF ReadUnit, Fetching, NeedsConnect, NextOffset
<1>2. fetch \in [Workers -> WorkerLocals] /\ fetch[w] \in WorkerLocals /\ slot \in [Slots -> SlotFields]
  BY DEF PioInv, PioTypes
<1>3. /\ k \in Chunks /\ i \in Slots /\ slot[i].state = "fetching" /\ slot[i].index = k
      /\ \A v \in Workers : v # w /\ Busy(fetch[v]) =>
           SlotOf(fetch[v].idx) \in Slots /\ SlotOf(fetch[v].idx) # i
  BY <1>1, OnlyWriter DEF Busy
<1>4. Want(k) \in 1 .. Chunk /\ k * Chunk \in Nat /\ n \in Nat /\ n + 1 \in 0 .. Chunk
  BY <1>1, <1>2, <1>3, ChunkSize, SizeAssumption DEF WorkerLocals
<1>5. /\ base' = base /\ pos' = pos /\ rpc' = rpc /\ intact' = intact /\ closing' = closing /\ stop' = stop
  BY DEF ReadUnit, readerVars, lifeVars
<1>6. CASE slot' = slot /\ fetch' = [fetch EXCEPT ![w] = LosesConnection(@)]
  <2>1. fetch[w].attempt + 1 \in 0 .. Attempts /\ None \in Int
    BY <1>1, <1>2, AttemptsAssumption DEF WorkerLocals, None
  <2>2. /\ fetch' \in [Workers -> WorkerLocals] /\ SameWork(fetch[w], fetch'[w])
        /\ \A v \in Workers : v # w => fetch'[v] = fetch[v]
    BY <1>2, <1>6, <2>1 DEF SameWork, WorkerLocals, LosesConnection, Busy
  <2>3. \A v \in Workers : SameWork(fetch[v], fetch'[v])
    BY <2>2 DEF SameWork, PioInv, ConnectionsStandWhereTheySay
  <2> QED
    BY <1>5, <1>6, <2>2, <2>3, SlotsUntouched DEF PioInv, PioTypes, WaitsInFile, DeliversTheFile
<1>7. CASE /\ slot' = [slot EXCEPT ![i].data[n] = fetch[w].conn]
           /\ fetch' = [fetch EXCEPT ![w] = TakesUnit(@)]
  <2>1. fetch[w].conn = k * Chunk + n /\ k * Chunk + n \in Int /\ k * Chunk + n + 1 \in Int
    BY <1>1, <1>4 DEF PioInv, ConnectionsStandWhereTheySay
  <2>2. /\ fetch' \in [Workers -> WorkerLocals]
        /\ Busy(fetch'[w]) /\ fetch'[w].idx = k /\ fetch'[w].got = n + 1
        /\ fetch'[w].at = fetch'[w].conn
        /\ \A v \in Workers : v # w => fetch'[v] = fetch[v]
    <3>1. TakesUnit(fetch[w]) = [fetch[w] EXCEPT !.got = n + 1, !.conn = k * Chunk + n + 1,
                                                 !.at = k * Chunk + n + 1]
      BY <1>1, <1>2, <2>1 DEF TakesUnit, WorkerLocals
    <3>2. fetch' = [fetch EXCEPT ![w] = TakesUnit(fetch[w])]
      BY <1>7
    <3> QED
      BY <1>1, <1>2, <1>4, <2>1, <3>1, <3>2 DEF WorkerLocals, Busy
  <2>3. slot[i] \in SlotFields /\ n \in 0 .. (Chunk - 1)
    BY <1>1, <1>2, <1>3, <1>4, SizeAssumption
  <2> DEFINE d == [slot[i].data EXCEPT ![n] = k * Chunk + n]
  <2>4. /\ slot' = [slot EXCEPT ![i] = [slot[i] EXCEPT !.data = d]]
        /\ d \in [0 .. (Chunk - 1) -> Int]
        /\ d[n] = k * Chunk + n /\ \A j \in 0 .. (Chunk - 1) : j # n => d[j] = slot[i].data[j]
    BY <1>2, <1>3, <1>7, <2>1, <2>3 DEF SlotFields
  <2> HIDE DEF d
  <2>5. /\ slot' \in [Slots -> SlotFields]
        /\ slot'[i].index = k /\ slot'[i].state = "fetching" /\ slot'[i].data = d
        /\ \A j \in Slots : j # i => slot'[j] = slot[j]
    BY <1>2, <1>3, <2>3, <2>4 DEF SlotFields
  <2>6. PioTypes' /\ WaitsInFile' /\ DeliversTheFile'
    BY <1>5, <2>2, <2>5 DEF PioInv, PioTypes, WaitsInFile, DeliversTheFile
  <2>7. SlotsAreNamed' /\ ReadyHoldsItsChunk'
    BY <1>3, <2>5 DEF PioInv, SlotsAreNamed, ReadyHoldsItsChunk, SlotHolds
  <2>8. SlotHolds(i, k, n)
    BY <1>1 DEF PioInv, FetchedSoFar, Busy
  <2>9. \A j \in 0 .. ((n + 1) - 1) : slot'[i].data[j] = k * Chunk + j
    <3>1. SUFFICES ASSUME NEW j \in 0 .. ((n + 1) - 1) PROVE slot'[i].data[j] = k * Chunk + j
      OBVIOUS
    <3>2. CASE j = n
      BY <2>4, <2>5, <3>2
    <3>3. CASE j # n
      <4>1. j \in 0 .. (n - 1) /\ j \in 0 .. (Chunk - 1)
        BY <1>4, <2>3, <3>1, <3>3, SizeAssumption
      <4> QED
        BY <2>4, <2>5, <2>8, <3>3, <4>1 DEF SlotHolds
    <3> QED
      BY <3>2, <3>3
  <2>10. FetchedSoFar'
    <3>1. ASSUME NEW v \in Workers, Busy(fetch'[v])
          PROVE  /\ fetch'[v].idx \in Chunks /\ fetch'[v].got <= Want(fetch'[v].idx)
                 /\ \A j \in 0 .. (fetch'[v].got - 1) :
                      slot'[SlotOf(fetch'[v].idx)].data[j] = fetch'[v].idx * Chunk + j
      <4>1. CASE v = w
        BY <1>1, <1>3, <1>4, <2>2, <2>9, <4>1
      <4>2. CASE v # w
        BY <1>3, <2>2, <2>5, <3>1, <4>2 DEF PioInv, FetchedSoFar, SlotHolds
      <4> QED
        BY <4>1, <4>2
    <3> QED
      BY <3>1 DEF FetchedSoFar, SlotHolds
  <2>11. ConnectionsStandWhereTheySay'
    BY <2>2 DEF PioInv, ConnectionsStandWhereTheySay
  <2>12. OneWriterPerSlot'
    <3>1. \A j \in Slots : slot'[j].state = slot[j].state /\ slot'[j].index = slot[j].index
      BY <1>3, <2>5
    <3>2. \A v \in Workers, j \in Slots :
            (Owner(j, v)' <=> Owner(j, v)) /\ fetch'[v].idx = fetch[v].idx
      BY <1>1, <2>2 DEF Owner, Busy
    <3> QED
      BY <1>5, <3>1, <3>2 DEF PioInv, OneWriterPerSlot
  <2> QED
    BY <2>6, <2>7, <2>10, <2>11, <2>12 DEF PioInv
<1> QED
  BY <1>6, <1>7 DEF ReadUnit

(* What a worker keeps of a chunk it is done with. *)
LEMMA ChunkLeft ==
  ASSUME NEW f \in WorkerLocals, NEW whole \in BOOLEAN
  PROVE  /\ EndsFetch(f, whole) \in WorkerLocals /\ EndsFetch(f, whole).pc = "loop"
         /\ (f.conn # None => f.at = f.conn) =>
              (EndsFetch(f, whole).conn # None => EndsFetch(f, whole).at = EndsFetch(f, whole).conn)
<1>1. 0 \in 0 .. Chunk /\ 0 \in 0 .. Attempts /\ None \in Int
  BY SizeAssumption, AttemptsAssumption DEF None
<1>2. f.conn \in Int /\ f.at \in Int
  BY DEF WorkerLocals
<1> QED
  BY <1>1, <1>2 DEF WorkerLocals, EndsFetch

(* A finished chunk is complete, or its slot says that it failed. *)
LEMMA PublishKeeps == ASSUME PioInv, NEW w \in Workers, PublishChunk(w) PROVE PioInv'
<1> DEFINE k == fetch[w].idx
           i == SlotOf(k)
           whole == fetch[w].got = Want(k)
           st == IF whole THEN "ready" ELSE "failed"
           g == [fetch EXCEPT ![w] = EndsFetch(@, whole)]
<1>1. fetch[w].pc = "fetch"
  BY DEF PublishChunk
<1>2. fetch \in [Workers -> WorkerLocals] /\ fetch[w] \in WorkerLocals /\ slot \in [Slots -> SlotFields]
  BY DEF PioInv, PioTypes
<1>3. /\ k \in Chunks /\ i \in Slots /\ slot[i].state = "fetching" /\ slot[i].index = k
      /\ \A v \in Workers : v # w /\ Busy(fetch[v]) =>
           SlotOf(fetch[v].idx) \in Slots /\ SlotOf(fetch[v].idx) # i
  BY <1>1, OnlyWriter DEF Busy
<1>4. slot' = [slot EXCEPT ![i].state = st] /\ fetch' = Woken(g)
  BY <1>3 DEF PublishChunk
<1>5. /\ base' = base /\ pos' = pos /\ rpc' = rpc /\ intact' = intact /\ closing' = closing /\ stop' = stop
  BY DEF PublishChunk, readerVars, lifeVars
<1>6. /\ slot' \in [Slots -> SlotFields]
      /\ slot'[i].index = k /\ slot'[i].state = st /\ slot'[i].data = slot[i].data
      /\ \A j \in Slots : j # i => slot'[j] = slot[j]
  <2>1. slot[i] \in SlotFields /\ slot' = [slot EXCEPT ![i] = [slot[i] EXCEPT !.state = st]]
    BY <1>2, <1>3, <1>4
  <2> QED
    BY <1>2, <1>3, <2>1 DEF SlotFields
<1>7. /\ g \in [Workers -> WorkerLocals]
      /\ ~Busy(g[w]) /\ (g[w].conn # None => g[w].at = g[w].conn)
      /\ \A v \in Workers : v # w => g[v] = fetch[v]
  <2>1. fetch[w].conn # None => fetch[w].at = fetch[w].conn
    BY DEF PioInv, ConnectionsStandWhereTheySay
  <2> QED
    BY <1>2, <2>1, ChunkLeft DEF Busy
<1> HIDE DEF g
<1>8. /\ fetch' \in [Workers -> WorkerLocals]
      /\ \A v \in Workers : SameWork(g[v], fetch'[v])
  <2>1. \A v \in Workers : g[v].conn # None => g[v].at = g[v].conn
    BY <1>7 DEF PioInv, ConnectionsStandWhereTheySay
  <2> QED
    BY <1>4, <1>7, <2>1, WokenWork
<1>9. /\ ~Busy(fetch'[w])
      /\ \A v \in Workers : v # w =>
           /\ Busy(fetch'[v]) <=> Busy(fetch[v])
           /\ fetch'[v].idx = fetch[v].idx /\ fetch'[v].got = fetch[v].got
      /\ \A v \in Workers : fetch'[v].conn # None => fetch'[v].at = fetch'[v].conn
  BY <1>7, <1>8 DEF SameWork
<1>10. \A v \in Workers : Busy(fetch'[v]) =>
         /\ v # w /\ Busy(fetch[v]) /\ SlotOf(fetch[v].idx) # i
         /\ slot'[SlotOf(fetch[v].idx)] = slot[SlotOf(fetch[v].idx)]
  BY <1>3, <1>6, <1>9
<1>11. PioTypes' /\ WaitsInFile' /\ DeliversTheFile'
  BY <1>5, <1>6, <1>8 DEF PioInv, PioTypes, WaitsInFile, DeliversTheFile
<1>12. SlotsAreNamed'
  BY <1>3, <1>6 DEF PioInv, SlotsAreNamed
<1>13. ReadyHoldsItsChunk'
  <2>1. ASSUME NEW j \in Slots, slot'[j].state = "ready"
        PROVE  \A u \in 0 .. (Want(slot'[j].index) - 1) : slot'[j].data[u] = slot'[j].index * Chunk + u
    <3>1. CASE j = i
      <4>1. whole
        BY <1>6, <2>1, <3>1
      <4>2. SlotHolds(i, k, fetch[w].got)
        BY <1>1 DEF PioInv, FetchedSoFar, Busy
      <4> QED
        BY <1>6, <3>1, <4>1, <4>2 DEF SlotHolds
    <3>2. CASE j # i
      BY <1>6, <2>1, <3>2 DEF PioInv, ReadyHoldsItsChunk, SlotHolds
    <3> QED
      BY <3>1, <3>2
  <2> QED
    BY <2>1 DEF ReadyHoldsItsChunk, SlotHolds
<1>14. FetchedSoFar' /\ ConnectionsStandWhereTheySay'
  BY <1>9, <1>10 DEF PioInv, FetchedSoFar, ConnectionsStandWhereTheySay, SlotHolds
<1>15. OneWriterPerSlot'
  <2>1. \A j \in Slots : j = i => \A v \in Workers : ~Owner(j, v)'
    BY <1>3, <1>9, <1>10 DEF Owner, Busy
  <2>2. \A j \in Slots : j # i => \A v \in Workers : Owner(j, v)' <=> Owner(j, v)
    BY <1>9 DEF Owner, Busy
  <2>3. ASSUME NEW j \in Slots
        PROVE  /\ \A v \in Workers : Owner(j, v)' =>
                    slot'[j].state = "fetching" /\ slot'[j].index = fetch'[v].idx
               /\ \A u, v \in Workers : Owner(j, u)' /\ Owner(j, v)' => u = v
               /\ slot'[j].state = "fetching" => stop' \/ \E v \in Workers : Owner(j, v)'
    <3>1. CASE j = i
      BY <1>6, <2>1, <3>1
    <3>2. CASE j # i
      <4>1. \A v \in Workers : Owner(j, v)' => fetch'[v].idx = fetch[v].idx
        BY <1>9 DEF Owner, Busy
      <4> QED
        BY <1>5, <1>6, <2>2, <3>2, <4>1 DEF PioInv, OneWriterPerSlot
    <3> QED
      BY <3>1, <3>2
  <2> QED
    BY <2>3 DEF OneWriterPerSlot
<1> QED
  BY <1>11, <1>12, <1>13, <1>14, <1>15 DEF PioInv

LEMMA PioKeeps == PioInv /\ [PioNext]_pioVars => PioInv'
<1> SUFFICES ASSUME PioInv, [PioNext]_pioVars PROVE PioInv'
  OBVIOUS
<1>1. ASSUME NEW w \in Workers, WorkerStep(w) PROVE PioInv'
  BY <1>1, ClaimKeeps, WorkerWaits, LeaveKeeps, ReadUnitKeeps, PublishKeeps DEF WorkerStep
<1>2. CASE UNCHANGED pioVars
  <2>1. \A w \in Workers : SameWork(fetch[w], fetch'[w])
    BY <1>2 DEF SameWork, PioInv, ConnectionsStandWhereTheySay, pioVars
  <2> QED
    BY <1>2, <2>1, SlotsUntouched DEF pioVars, readerVars, lifeVars, PioInv, PioTypes,
       WaitsInFile, DeliversTheFile
<1> QED
  BY <1>1, <1>2, ReaderKeeps, OthersWait DEF PioNext
-----------------------------------------------------------------------------
(* The inductive invariant holds in every state. *)
THEOREM PioInvariant == PioSpec => []PioInv
BY PioStarts, PioKeeps, PTL DEF PioSpec

(***************************************************************************)
(* Whatever the reader, the network and the workers do, a slot being       *)
(* fetched has one writer, and a worker that fetches owns its slot.        *)
(***************************************************************************)
THEOREM SlotsHaveOneWriter == PioSpec => []OneWriterPerSlot
<1>1. PioInv => OneWriterPerSlot
  BY DEF PioInv
<1> QED
  BY <1>1, PioInvariant, PTL

(***************************************************************************)
(* Every unit the reader is given is the file's unit at that place, for    *)
(* every file, window and number of workers, and any failures and seeks.   *)
(***************************************************************************)
THEOREM ReaderGetsTheFile == PioSpec => []DeliversTheFile
<1>1. PioInv => DeliversTheFile
  BY DEF PioInv
<1> QED
  BY <1>1, PioInvariant, PTL
-----------------------------------------------------------------------------
(***************************************************************************)
(* A chunk inside the window is not fetched again once it is ready: two    *)
(* chunks of one window never share a slot, and the reader gives up a slot *)
(* only when the window has moved past its chunk.                          *)
(***************************************************************************)
THEOREM ReadyStays == PioSpec => ReadyIsKept
<1> DEFINE Kept(i) ==
      (slot[i].state = "ready" /\ slot[i].index \in base' .. (base' + Window - 1))
        => slot'[i].state = "ready" /\ slot'[i].index = slot[i].index
<1>1. ASSUME PioInv, [PioNext]_pioVars, NEW i \in Slots PROVE Kept(i)
  <2> SUFFICES ASSUME slot[i].state = "ready", slot[i].index \in base' .. (base' + Window - 1)
               PROVE  slot'[i].state = "ready" /\ slot'[i].index = slot[i].index
    OBVIOUS
  <2>1. /\ slot \in [Slots -> SlotFields] /\ slot[i].index \in Chunks /\ slot[i].index \in Nat
        /\ SlotOf(slot[i].index) = i /\ base \in Nat
    BY <1>1, ChunkSize DEF PioInv, PioTypes, SlotsAreNamed
  <2>2. ASSUME slot' = slot PROVE slot'[i].state = "ready" /\ slot'[i].index = slot[i].index
    BY <2>2
  <2>3. ASSUME NEW w \in Workers, Claim(w)
        PROVE  slot'[i].state = "ready" /\ slot'[i].index = slot[i].index
    <3>1. PICK k \in Chunks :
            /\ InWindow(k) /\ Claimable(k)
            /\ slot' = [slot EXCEPT ![SlotOf(k)] = [index |-> k, state |-> "fetching", data |-> Stale]]
      BY <2>3 DEF Claim
    <3>2. k \in base .. (base + Window - 1) /\ base' = base
      BY <2>3, <3>1 DEF InWindow, Claim
    <3>3. SlotOf(k) # i
      <4>1. SUFFICES ASSUME SlotOf(k) = i PROVE FALSE
        OBVIOUS
      <4>2. k = slot[i].index
        BY <2>1, <3>2, <4>1, SlotsOfAWindow
      <4> QED
        BY <3>1, <4>1, <4>2 DEF Claimable
    <3> QED
      BY <2>1, <3>1, <3>3
  <2>4. ASSUME NEW w \in Workers, ReadUnit(w)
        PROVE  slot'[i].state = "ready" /\ slot'[i].index = slot[i].index
    <3>1. CASE slot' = slot
      BY <2>2, <3>1
    <3>2. CASE slot' = [slot EXCEPT ![SlotOf(fetch[w].idx)].data[fetch[w].got] = fetch[w].conn]
      <4>1. Busy(fetch[w])
        BY <2>4 DEF ReadUnit, Fetching, Busy
      <4>2. SlotOf(fetch[w].idx) # i
        BY <1>1, <4>1, OnlyWriter
      <4> QED
        BY <2>1, <3>2, <4>2
    <3> QED
      BY <2>4, <3>1, <3>2 DEF ReadUnit
  <2>5. ASSUME NEW w \in Workers, PublishChunk(w)
        PROVE  slot'[i].state = "ready" /\ slot'[i].index = slot[i].index
    <3>1. Busy(fetch[w])
      BY <2>5 DEF PublishChunk, Busy
    <3>2. SlotOf(fetch[w].idx) # i
      BY <1>1, <3>1, OnlyWriter
    <3>3. slot'[i] = slot[i]
      BY <2>1, <2>5, <3>2 DEF PublishChunk
    <3> QED
      BY <3>3
  <2>6. ASSUME NEW b, NEW f, ReaderLooks(b, f), pos < Size
        PROVE  slot'[i].state = "ready" /\ slot'[i].index = slot[i].index
    <3>1. pos \in 0 .. (Size - 1)
      BY <1>1, <2>6, SizeAssumption DEF PioInv, PioTypes
    <3>2. /\ ReaderChunk \in Chunks /\ ReaderChunk \in Nat /\ (pos + 1) \div Chunk \in Nat
          /\ ReaderChunk <= (pos + 1) \div Chunk
      BY <3>1, ReaderPlace, ChunkSize DEF ReaderChunk
    <3>3. CASE slot' = slot
      BY <2>2, <3>3
    <3>4. CASE /\ Holds("ready") /\ (pos + 1) \div Chunk # ReaderChunk
               /\ slot' = [slot EXCEPT ![SlotOf(ReaderChunk)] = EmptySlot]
               /\ base' = (pos + 1) \div Chunk
      <4>1. SlotOf(ReaderChunk) # i
        BY <3>2, <3>4 DEF Holds
      <4> QED
        BY <2>1, <3>4, <4>1
    <3>5. CASE /\ Holds("failed")
               /\ slot' = [slot EXCEPT ![SlotOf(ReaderChunk)].state = "free"]
      <4>1. SlotOf(ReaderChunk) # i
        BY <3>5 DEF Holds
      <4> QED
        BY <2>1, <3>5, <4>1
    <3> QED
      BY <2>6, <3>3, <3>4, <3>5 DEF ReaderLooks, Serve, Wait, LeaveAborted
  <2>7. CASE ReadBegin \/ ReadPolls
    <3>1. pos < Size
      BY <1>1, <2>7 DEF ReadBegin, ReadPolls, PioInv, WaitsInFile
    <3> QED
      BY <2>6, <2>7, <3>1 DEF ReadBegin, ReadPolls
  <2>8. ASSUME NEW w \in Workers, WorkerStep(w)
        PROVE  slot'[i].state = "ready" /\ slot'[i].index = slot[i].index
    <3>1. CASE WaitForWork(w) \/ StartFetch(w) \/ LeaveOnStop(w) \/ Connect(w)
      BY <2>2, <3>1 DEF WaitForWork, StartFetch, LeaveOnStop, Connect
    <3> QED
      BY <2>3, <2>4, <2>5, <2>8, <3>1 DEF WorkerStep
  <2>9. CASE \/ ReadExpires \/ Abort \/ Close \/ Free \/ UNCHANGED pioVars
             \/ \E to \in 0 .. Size : Seek(to)
    BY <2>2, <2>9 DEF ReadExpires, Abort, Close, Free, Seek, pioVars
  <2> QED
    BY <1>1, <2>7, <2>8, <2>9 DEF PioNext
<1>2. PioInv /\ [PioNext]_pioVars =>
        [\A i \in Slots : Kept(i)]_pioVars
  BY <1>1
<1> QED
  BY <1>2, PioInvariant, PTL DEF PioSpec, ReadyIsKept
=============================================================================
