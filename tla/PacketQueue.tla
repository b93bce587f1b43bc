----------------------------- MODULE PacketQueue -----------------------------
(***************************************************************************)
(* The packet queue of media/src/evo_packet_queue.c with its data ring.    *)
(* The demux thread pushes: it copies the packet (ring region, or a plain  *)
(* reference to the demuxer's buffer) before it takes the queue's mutex.   *)
(* One decode thread pops and frees packets.  The demux thread also clears *)
(* the queue when it serves a seek.                                        *)
(*                                                                         *)
(* Two mutexes are involved: the queue's and the ring's.  Critical         *)
(* sections of the queue are single steps, except packet_queue_clear,      *)
(* which frees slot by slot and takes the ring's mutex inside.             *)
(***************************************************************************)
EXTENDS Integers, FiniteSets, Sequences, FiniteSetsExt

CONSTANTS InitSize, PayloadSizes,  \* see PacketRing
          QueueSize,               \* PACKET_QUEUE_SIZE
          Durations,               \* dur_us values a caller may pass
          DurMax,                  \* INT32_MAX, scaled down
          MaxHeld,                 \* packets a decoder holds at a time
          Ids                      \* tags that tell packets apart

ASSUME RingAssumption == InitSize \in Nat \ {0} /\ PayloadSizes \subseteq Nat \ {0}
ASSUME IdsAssumption == Ids # {} /\ IsFiniteSet(Ids) /\ Ids = 1 .. Cardinality(Ids)
ASSUME QueueSizeAssumption == QueueSize \in Nat \ {0}
ASSUME DurationAssumption == Durations \subseteq Int /\ DurMax \in Nat

VARIABLES size, head, tail, used, hdr, mu, regions,   \* the ring
          packets,     \* q->packets: NULL or a packet, by slot
          durUs,       \* q->dur_us, by slot
          read, write, count,
          totalDurUs, totalBytes,
          clearing,    \* next slot of packet_queue_clear's loop, or NotClearing
          pushing,     \* the demux thread's clone between copy and lock
          held,        \* packets popped and not freed yet
          nextId       \* tag of the next packet read from the file

ringVars == <<size, head, tail, used, hdr, mu, regions>>
queueVars == <<packets, durUs, read, write, count, totalDurUs, totalBytes, clearing>>
packetVars == <<ringVars, queueVars, pushing, held, nextId>>

Ring == INSTANCE PacketRing WITH GrowSizes <- {}

NULL == [id |-> 0, size |-> 0, off |-> 0]
NotClearing == QueueSize
QueueSlots == 0 .. (QueueSize - 1)

\* The packet's data is not in the ring.
Heap == 0 - 1

\* Tag of a region carved for a packet the allocator then refused.
NoShell == 0 - 1

QueueInit ==
  /\ Ring!RingInit
  /\ packets = [i \in QueueSlots |-> NULL]
  /\ durUs = [i \in QueueSlots |-> 0]
  /\ read = 0 /\ write = 0 /\ count = 0
  /\ totalDurUs = 0 /\ totalBytes = 0
  /\ clearing = NotClearing
  /\ pushing = NULL
  /\ held = {}
  /\ nextId = 1

QueueFree == clearing = NotClearing

\* Faulty variant: durations are not clamped from above.
ClampBelow(d) == IF d < 0 THEN 0 ELSE d

Clamp(d) == IF d < 0 THEN 0 ELSE IF d > DurMax THEN DurMax ELSE d

\* The cast to int32_t, for a DurMax that stands for INT32_MAX.
ToInt32(d) == ((d + DurMax + 1) % (2 * (DurMax + 1))) - (DurMax + 1)

\* av_packet_free: a packet in the ring gives its region back.
FreePacket(p) == IF p.off = Heap THEN UNCHANGED ringVars ELSE Ring!RingRelease(p.off)
-----------------------------------------------------------------------------
(***************************************************************************)
(* packet_queue_push_timed, the part outside the lock.  The data goes to   *)
(* the ring when there is room, and to a reference of the demuxer's buffer *)
(* otherwise.  When the allocator refuses the packet around a region that  *)
(* was carved, ring_clone gives the region back and the reference is used. *)
(* The demux thread runs push and clear alike, so never both at once.      *)
(***************************************************************************)
Demuxing == pushing = NULL /\ QueueFree

Clone(i, n, o) == [id |-> i, size |-> n, off |-> o]

CloneInRing(n) ==
  /\ Demuxing
  /\ Ring!RingAlloc(n)
  /\ \E i \in {nextId, NoShell} : pushing' = Clone(i, n, Ring!AllocOffset(Ring!Need(n)))
  /\ UNCHANGED <<queueVars, held, nextId>>

CloneByReference(n) ==
  /\ Demuxing
  /\ mu = "free" /\ ~Ring!HasRoom(n)
  /\ pushing' = Clone(nextId, n, Heap)
  /\ UNCHANGED <<ringVars, queueVars, held, nextId>>

GiveRegionBack ==
  /\ pushing.id = NoShell
  /\ Ring!RingRelease(pushing.off)
  /\ pushing' = Clone(nextId, pushing.size, Heap)
  /\ UNCHANGED <<queueVars, held, nextId>>

Cloned == pushing.id \in Ids
NextTag == (nextId % Cardinality(Ids)) + 1

\* Faulty variants of Enqueue and RefusePush: a full queue takes another packet,
\* a refused packet keeps its region.
EnqueueUnchecked(d) ==
  /\ Cloned
  /\ packets' = [packets EXCEPT ![write] = pushing]
  /\ durUs' = [durUs EXCEPT ![write] = ToInt32(Clamp(d))]
  /\ write' = (write + 1) % QueueSize
  /\ count' = count + 1
  /\ totalDurUs' = totalDurUs + Clamp(d)
  /\ totalBytes' = totalBytes + pushing.size
  /\ pushing' = NULL
  /\ nextId' = NextTag
  /\ UNCHANGED <<ringVars, read, clearing, held>>

RefusePushLeaks ==
  /\ Cloned
  /\ count >= QueueSize
  /\ pushing' = NULL
  /\ nextId' = NextTag
  /\ UNCHANGED <<ringVars, queueVars, held>>

(***************************************************************************)
(* The part under the lock: the clone is queued with its clamped duration, *)
(* or freed after the unlock when every slot is taken.                     *)
(***************************************************************************)
Enqueue(d) ==
  /\ Cloned
  /\ count < QueueSize
  /\ packets' = [packets EXCEPT ![write] = pushing]
  /\ durUs' = [durUs EXCEPT ![write] = ToInt32(Clamp(d))]
  /\ write' = (write + 1) % QueueSize
  /\ count' = count + 1
  /\ totalDurUs' = totalDurUs + Clamp(d)
  /\ totalBytes' = totalBytes + pushing.size
  /\ pushing' = NULL
  /\ nextId' = NextTag
  /\ UNCHANGED <<ringVars, read, clearing, held>>

RefusePush ==
  /\ Cloned
  /\ count >= QueueSize
  /\ FreePacket(pushing)
  /\ pushing' = NULL
  /\ nextId' = NextTag
  /\ UNCHANGED <<queueVars, held>>

(***************************************************************************)
(* packet_queue_pop: the oldest packet changes owner.  The totals are set  *)
(* back to zero with the last packet.                                      *)
(***************************************************************************)
Pop ==
  /\ QueueFree
  /\ count > 0
  /\ Cardinality(held) < MaxHeld
  /\ packets' = [packets EXCEPT ![read] = NULL]
  /\ read' = (read + 1) % QueueSize
  /\ count' = count - 1
  /\ totalDurUs' = (IF count = 1 THEN 0 ELSE totalDurUs - durUs[read])
  /\ totalBytes' = (IF count = 1 THEN 0 ELSE totalBytes - packets[read].size)
  /\ held' = held \cup {packets[read]}
  /\ UNCHANGED <<ringVars, durUs, write, clearing, pushing, nextId>>

\* The decoder is done with a packet, not always in the order it popped them.
FreeHeld(p) ==
  /\ p \in held
  /\ FreePacket(p)
  /\ held' = held \ {p}
  /\ UNCHANGED <<queueVars, pushing, nextId>>

(***************************************************************************)
(* packet_queue_clear, by the demux thread: it holds the queue's mutex     *)
(* while it frees slot after slot, then resets the indices and the totals. *)
(***************************************************************************)
ClearBegin ==
  /\ Demuxing
  /\ clearing' = 0
  /\ UNCHANGED <<ringVars, packets, durUs, read, write, count, totalDurUs, totalBytes,
                 pushing, held, nextId>>

\* The slots the loop skips are NULL; the next one it frees, or the end.
ClearSlot ==
  /\ clearing < QueueSize
  /\ packets[clearing] # NULL
  /\ FreePacket(packets[clearing])
  /\ packets' = [packets EXCEPT ![clearing] = NULL]
  /\ UNCHANGED <<durUs, read, write, count, totalDurUs, totalBytes, clearing,
                 pushing, held, nextId>>

ClearSkip ==
  /\ clearing < QueueSize - 1
  /\ packets[clearing] = NULL
  /\ clearing' = clearing + 1
  /\ UNCHANGED <<ringVars, packets, durUs, read, write, count, totalDurUs, totalBytes,
                 pushing, held, nextId>>

ClearEnd ==
  /\ clearing = QueueSize - 1
  /\ packets[clearing] = NULL
  /\ read' = 0 /\ write' = 0 /\ count' = 0
  /\ totalDurUs' = 0 /\ totalBytes' = 0
  /\ clearing' = NotClearing
  /\ UNCHANGED <<ringVars, packets, durUs, pushing, held, nextId>>
-----------------------------------------------------------------------------
\* ring_release's loop, whichever thread is in it.
RingLoop ==
  /\ Ring!RetireTail \/ Ring!RetireStop
  /\ UNCHANGED <<queueVars, pushing, held, nextId>>

Push == \/ \E n \in PayloadSizes : CloneInRing(n) \/ CloneByReference(n)
        \/ \E d \in Durations : Enqueue(d)
        \/ RefusePush \/ GiveRegionBack

QueueNext == \/ Push
             \/ Pop
             \/ \E p \in held : FreeHeld(p)
             \/ ClearBegin \/ ClearSlot \/ ClearSkip \/ ClearEnd
             \/ RingLoop

QueueSpec == QueueInit /\ [][QueueNext]_packetVars
-----------------------------------------------------------------------------
(* Properties *)

Occupied(i) == \E k \in 0 .. (count - 1) : i = (read + k) % QueueSize

QueueTypeOK ==
  /\ Ring!RingTypeOK
  /\ read \in QueueSlots /\ write \in QueueSlots /\ count \in 0 .. QueueSize
  /\ clearing \in 0 .. QueueSize
  /\ \A i \in QueueSlots : durUs[i] \in 0 .. DurMax
  /\ Cardinality(held) <= MaxHeld

(***************************************************************************)
(* The running totals the prebuffer gauge and the byte caps read are       *)
(* exactly the sums over the queued packets, through clamps, pops, refused *)
(* pushes and clears.                                                      *)
(***************************************************************************)
TotalsExact ==
  QueueFree =>
    /\ totalBytes = MapThenSumSet(LAMBDA i : packets[i].size, QueueSlots)
    /\ totalDurUs = MapThenSumSet(LAMBDA i : durUs[i], {j \in QueueSlots : Occupied(j)})

Owned == {pushing} \cup held \cup {packets[i] : i \in QueueSlots}

(***************************************************************************)
(* Every region of the ring that is still live belongs to exactly one      *)
(* packet someone still owns: nothing is freed twice, used after free or   *)
(* leaked, whichever of push, pop, decoder and clear drops it.             *)
(***************************************************************************)
RegionsOwned ==
  /\ Ring!Live = {p.off : p \in {q \in Owned : q # NULL /\ q.off # Heap}}
  /\ \A p, q \in Owned : (p # q /\ p # NULL /\ q # NULL /\ p.off # Heap) => p.off # q.off

\* The queue as a reader of the header sees it: cleared as soon as the
\* clear holds the mutex.
Contents ==
  IF QueueFree THEN [k \in 1 .. count |-> packets[(read + k - 1) % QueueSize].id]
  ELSE <<>>

Fifo == INSTANCE PacketFifo WITH Packets <- Ids, Capacity <- QueueSize, fifo <- Contents

(***************************************************************************)
(* The queue implements the bounded FIFO of its header: packets come out   *)
(* in the order they went in, none is lost but by a clear.                 *)
(***************************************************************************)
ImplementsFifo == Fifo!Spec
=============================================================================
