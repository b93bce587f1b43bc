-------------------------- MODULE PacketQueue_proofs --------------------------
(***************************************************************************)
(* The packet queue on its data ring, for every number of slots, ring size *)
(* and packet.  The ring is the one of PacketRing_proofs: its allocation   *)
(* adds one live region, its release takes one away and its loop none, so  *)
(* an owner of every live region can be kept track of through the queue.   *)
(***************************************************************************)
EXTENDS PacketQueue, FiniteSetTheorems, SequenceTheorems, WellFoundedInduction, TLAPS

\* The ring again, with the theorems about it.
Store == INSTANCE PacketRing_proofs WITH GrowSizes <- {}

\* A packet; and a region carved for a packet the allocator then refused.
Packet == [id : Ids, size : PayloadSizes, off : Nat \cup {Heap}]
Shell == [id : {NoShell}, size : PayloadSizes, off : Nat]

\* A packet whose data is in the ring.
InRing(p) == p # NULL /\ p.off # Heap

PacketTypes ==
  /\ packets \in [QueueSlots -> Packet \cup {NULL}]
  /\ pushing \in Packet \cup Shell \cup {NULL}
  /\ held \subseteq Packet
  /\ nextId \in Ids
  /\ read \in QueueSlots /\ write \in QueueSlots
  /\ count \in 0 .. QueueSize /\ clearing \in 0 .. QueueSize

\* How far slot i is from the oldest packet, going round the array.
Turn(i) == IF i >= read THEN i - read ELSE i - read + QueueSize

\* The slots from read on, count of them, hold the packets; or, during a
\* clear, no packet is before the loop's index.
SlotsInOrder ==
  /\ QueueFree => /\ \A i \in QueueSlots : packets[i] # NULL <=> Turn(i) < count
                  /\ write = (IF read + count >= QueueSize THEN read + count - QueueSize
                                                           ELSE read + count)
  /\ ~QueueFree => /\ pushing = NULL
                   /\ \A i \in QueueSlots : i < clearing => packets[i] = NULL

\* Who has a region.
Pushed(o) == InRing(pushing) /\ pushing.off = o
Queued(i, o) == InRing(packets[i]) /\ packets[i].off = o
Popped(p, o) == InRing(p) /\ p.off = o

\* The region at o has an owner; and no two.
HasOwner(o) == Pushed(o) \/ (\E i \in QueueSlots : Queued(i, o)) \/ (\E p \in held : Popped(p, o))

OneOwner(o) ==
  /\ Pushed(o) => (\A i \in QueueSlots : ~Queued(i, o)) /\ (\A p \in held : ~Popped(p, o))
  /\ \A i \in QueueSlots, p \in held : ~(Queued(i, o) /\ Popped(p, o))
  /\ \A i, j \in QueueSlots : Queued(i, o) /\ Queued(j, o) => i = j
  /\ \A p, q \in held : Popped(p, o) /\ Popped(q, o) => p = q

OwnersAreRight == \A o \in Nat : (HasOwner(o) <=> o \in Store!Live) /\ OneOwner(o)

QueueInv == Store!RingInv /\ PacketTypes /\ SlotsInOrder /\ OwnersAreRight
-----------------------------------------------------------------------------
(***************************************************************************)
(* The queue's ring is the ring of PacketRing_proofs, of a fixed size.     *)
(***************************************************************************)
LEMMA SameRing ==
  /\ Ring!Live = Store!Live /\ (Ring!RingInit <=> Store!RingInit)
  /\ \A n : /\ Ring!RingAlloc(n) <=> Store!RingAlloc(n)
            /\ Ring!AllocOffset(Ring!Need(n)) = Store!AllocOffset(Store!Need(n))
  /\ \A o : Ring!RingRelease(o) <=> Store!RingRelease(o)
  /\ Ring!RetireTail \/ Ring!RetireStop <=> Store!RetireTail \/ Store!RetireStop
<1>1. Ring!Live = Store!Live
  BY DEF Ring!Live, Store!Live
<1>2. Ring!RingInit <=> Store!RingInit
  BY DEF Ring!RingInit, Store!RingInit
<1>3. \A n : Ring!Need(n) = Store!Need(n)
  BY DEF Ring!Need, Store!Need, Ring!RING_HDR, Store!RING_HDR, Ring!RING_ALIGN, Store!RING_ALIGN,
         Ring!PADDING, Store!PADDING
<1>4. \A k : Ring!FitsAfterPad(k) <=> Store!FitsAfterPad(k)
  BY DEF Ring!FitsAfterPad, Store!FitsAfterPad
<1>5. \A k : Ring!AllocOffset(k) = Store!AllocOffset(k)
  BY <1>4 DEF Ring!AllocOffset, Store!AllocOffset
<1>6. \A n : Ring!RingAlloc(n) <=> Store!RingAlloc(n)
  <2>1. \A k : Ring!CarveEmpty(k) <=> Store!CarveEmpty(k)
    BY DEF Ring!CarveEmpty, Store!CarveEmpty, Ring!Stamp, Store!Stamp
  <2>2. \A k : Ring!CarveAtHead(k) <=> Store!CarveAtHead(k)
    BY DEF Ring!CarveAtHead, Store!CarveAtHead, Ring!FitsAtHead, Store!FitsAtHead, Ring!Wrap, Store!Wrap,
           Ring!Stamp, Store!Stamp
  <2>3. \A k : Ring!CarveAfterPad(k) <=> Store!CarveAfterPad(k)
    BY <1>4 DEF Ring!CarveAfterPad, Store!CarveAfterPad, Ring!Wrap, Store!Wrap, Ring!Stamp, Store!Stamp
  <2>4. QED
    BY <1>3, <2>1, <2>2, <2>3 DEF Ring!RingAlloc, Store!RingAlloc
<1>7. \A o : Ring!RingRelease(o) <=> Store!RingRelease(o)
  BY <1>1 DEF Ring!RingRelease, Store!RingRelease
<1>8. Ring!RetireTail \/ Ring!RetireStop <=> Store!RetireTail \/ Store!RetireStop
  BY DEF Ring!RetireTail, Store!RetireTail, Ring!RetireStop, Store!RetireStop
<1>9. QED
  BY <1>1, <1>2, <1>3, <1>5, <1>6, <1>7, <1>8

\* A packet is told from NULL by its size, and Heap is no offset.
LEMMA PacketIs ==
  /\ \A p \in Packet \cup Shell : p # NULL
  /\ \A p \in Packet : p.id \in Ids /\ p.size \in PayloadSizes /\ (InRing(p) => p.off \in Nat)
  /\ \A p \in Shell : p.id = NoShell /\ p.size \in PayloadSizes /\ p.off \in Nat /\ InRing(p)
  /\ NoShell \notin Ids /\ 0 \notin Ids /\ Heap \notin Nat /\ ~InRing(NULL)
<1>1. 0 \notin PayloadSizes /\ NULL.size = 0
  BY RingAssumption DEF NULL
<1>2. NoShell \notin Ids /\ 0 \notin Ids
  BY IdsAssumption, FS_CardinalityType DEF NoShell
<1>3. Heap \notin Nat
  BY DEF Heap
<1>4. \A p \in Packet \cup Shell : p # NULL
  BY <1>1 DEF Packet, Shell
<1>5. QED
  BY <1>2, <1>3, <1>4 DEF Packet, Shell, InRing

LEMMA ReleaseKeeps ==
  ASSUME Store!RingInv, NEW o, Ring!RingRelease(o)
  PROVE  Store!RingInv' /\ o \in Store!Live /\ Store!Live' = Store!Live \ {o}
BY SameRing, RingAssumption, Store!ReleaseOwns

\* An unchanged ring.
LEMMA RingRests ==
  ASSUME UNCHANGED ringVars
  PROVE  (Store!RingInv => Store!RingInv') /\ Store!Live' = Store!Live
<1>1. UNCHANGED <<size, head, tail, used, hdr, mu, regions>>
  BY DEF ringVars
<1>2. Store!RingInv => Store!RingInv'
  BY <1>1 DEF Store!RingInv
<1>3. Store!Live' = Store!Live
  BY <1>1 DEF Store!Live
<1>4. QED
  BY <1>2, <1>3

\* av_packet_free: the region of a packet in the ring, if it has one, is no
\* longer live, and that is all.
LEMMA FreePacketIs ==
  ASSUME Store!RingInv, NEW p \in Packet, FreePacket(p)
  PROVE  /\ Store!RingInv'
         /\ \A o \in Nat : o \in Store!Live' <=> o \in Store!Live /\ ~Popped(p, o)
<1>1. CASE p.off = Heap
  BY <1>1, PacketIs, RingRests DEF FreePacket, Popped
<1>2. CASE p.off # Heap
  BY <1>2, PacketIs, ReleaseKeeps DEF FreePacket, Popped, InRing
<1>3. QED
  BY <1>1, <1>2
-----------------------------------------------------------------------------
LEMMA QueueStarts == QueueInit => QueueInv
<1> SUFFICES ASSUME QueueInit PROVE QueueInv
  OBVIOUS
<1>1. Store!RingInv /\ Store!Live = {}
  <2>1. Ring!RingInit
    BY DEF QueueInit
  <2>2. Store!RingInit
    BY <2>1, SameRing
  <2>3. QED
    BY <2>2, RingAssumption, Store!RingStartsUnused
<1>2. 0 \in QueueSlots /\ 0 \in 0 .. QueueSize /\ NotClearing \in 0 .. QueueSize
  BY QueueSizeAssumption DEF QueueSlots, NotClearing
<1>3. 1 \in Ids
  <2>1. Cardinality(Ids) \in Nat /\ Cardinality(Ids) # 0
    BY IdsAssumption, FS_CardinalityType, FS_EmptySet
  <2>2. QED
    BY <2>1, IdsAssumption
<1>4. PacketTypes
  BY <1>2, <1>3 DEF QueueInit, PacketTypes
<1>5. SlotsInOrder
  <2>1. QueueFree
    BY DEF QueueInit, QueueFree
  <2>2. \A i \in QueueSlots : packets[i] = NULL /\ ~(Turn(i) < count)
    BY QueueSizeAssumption DEF QueueInit, Turn, QueueSlots
  <2>3. write = (IF read + count >= QueueSize THEN read + count - QueueSize ELSE read + count)
    BY QueueSizeAssumption DEF QueueInit
  <2>4. QED
    BY <2>1, <2>2, <2>3 DEF SlotsInOrder
<1>6. OwnersAreRight
  BY <1>1, PacketIs DEF QueueInit, OwnersAreRight, HasOwner, OneOwner, Pushed, Queued, Popped
<1>7. QED
  BY <1>1, <1>4, <1>5, <1>6 DEF QueueInv

\* A clone in the ring is the one owner of the region carved for it.
LEMMA CloneInRingKeeps ==
  ASSUME QueueInv, NEW n \in PayloadSizes, CloneInRing(n)
  PROVE  QueueInv'
<1>1. PICK i \in {nextId, NoShell} :
        pushing' = Clone(i, n, Ring!AllocOffset(Ring!Need(n)))
  BY DEF CloneInRing
<1> DEFINE at == Store!AllocOffset(Store!Need(n))
<1>2. /\ Store!RingInv' /\ at \in Nat /\ at \notin Store!Live
      /\ Store!Live' = Store!Live \cup {at}
  BY SameRing, RingAssumption, Store!AllocOwns DEF CloneInRing, QueueInv
<1>3. pushing' = [id |-> i, size |-> n, off |-> at]
  BY <1>1, SameRing DEF Clone
<1>4. UNCHANGED <<queueVars, held, nextId>> /\ pushing = NULL /\ QueueFree
  BY DEF CloneInRing, Demuxing
<1> HIDE DEF at
<1>5. pushing' \in Packet \cup Shell
  BY <1>2, <1>3 DEF Packet, Shell, QueueInv, PacketTypes
<1>6. pushing' # NULL /\ pushing'.off = at /\ at # Heap
  BY <1>2, <1>3, <1>5, PacketIs
<1>7. \A o \in Nat : (Pushed(o)' <=> o = at) /\ ~Pushed(o)
  BY <1>4, <1>6, PacketIs DEF Pushed, InRing
<1>8. PacketTypes'
  BY <1>4, <1>5 DEF QueueInv, PacketTypes, queueVars
<1>9. SlotsInOrder'
  BY <1>4 DEF QueueInv, SlotsInOrder, QueueFree, queueVars, Turn
<1>10. \A o \in Nat, i1 \in QueueSlots : Queued(i1, o)' <=> Queued(i1, o)
  BY <1>4 DEF Queued, queueVars
<1>11. OwnersAreRight'
  <2> SUFFICES ASSUME NEW o \in Nat PROVE (HasOwner(o)' <=> o \in Store!Live') /\ OneOwner(o)'
    BY DEF OwnersAreRight
  <2>1. (HasOwner(o) <=> o \in Store!Live) /\ OneOwner(o)
    BY DEF QueueInv, OwnersAreRight
  <2>2. held' = held
    BY <1>4
  <2>3. CASE o = at
    BY <1>2, <1>7, <1>10, <2>1, <2>2, <2>3 DEF HasOwner, OneOwner
  <2>4. CASE o # at
    BY <1>2, <1>7, <1>10, <2>1, <2>2, <2>4 DEF HasOwner, OneOwner
  <2>5. QED
    BY <2>3, <2>4
<1>12. QED
  BY <1>2, <1>8, <1>9, <1>11 DEF QueueInv

\* A step that only moves packets outside the ring, or none, changes no owner.
LEMMA SameOwners ==
  ASSUME OwnersAreRight, Store!Live' = Store!Live,
         \A o \in Nat : Pushed(o)' <=> Pushed(o),
         \A o \in Nat, i \in QueueSlots : Queued(i, o)' <=> Queued(i, o),
         held' = held
  PROVE  OwnersAreRight'
BY DEF OwnersAreRight, HasOwner, OneOwner

LEMMA CloneByReferenceKeeps ==
  ASSUME QueueInv, NEW n \in PayloadSizes, CloneByReference(n)
  PROVE  QueueInv'
<1>1. /\ pushing' = [id |-> nextId, size |-> n, off |-> Heap] /\ pushing = NULL /\ QueueFree
      /\ UNCHANGED <<ringVars, queueVars, held, nextId>>
  BY DEF CloneByReference, Demuxing, Clone
<1>2. pushing' \in Packet /\ pushing'.off = Heap
  BY <1>1 DEF Packet, QueueInv, PacketTypes
<1>3. \A o \in Nat : ~Pushed(o)' /\ ~Pushed(o)
  BY <1>1, <1>2, PacketIs DEF Pushed, InRing
<1>4. PacketTypes' /\ SlotsInOrder'
  BY <1>1, <1>2 DEF QueueInv, PacketTypes, SlotsInOrder, QueueFree, Turn, queueVars
<1>5. \A o \in Nat, i \in QueueSlots : Queued(i, o)' <=> Queued(i, o)
  BY <1>1 DEF Queued, queueVars
<1>6. Store!RingInv' /\ Store!Live' = Store!Live
  BY <1>1, RingRests DEF QueueInv
<1>7. OwnersAreRight'
  BY <1>1, <1>3, <1>5, <1>6, SameOwners DEF QueueInv
<1>8. QED
  BY <1>4, <1>6, <1>7 DEF QueueInv

\* The clone goes, and its region with it.
LEMMA PushedGoes ==
  ASSUME OwnersAreRight, held' = held,
         \A o \in Nat : ~Pushed(o)',
         \A o \in Nat, i \in QueueSlots : Queued(i, o)' <=> Queued(i, o),
         \A o \in Nat : o \in Store!Live' <=> o \in Store!Live /\ ~Pushed(o)
  PROVE  OwnersAreRight'
BY DEF OwnersAreRight, HasOwner, OneOwner

LEMMA GiveRegionBackKeeps == ASSUME QueueInv, GiveRegionBack PROVE QueueInv'
<1>1. pushing \in Shell /\ nextId \in Ids
  BY PacketIs DEF GiveRegionBack, QueueInv, PacketTypes, NULL, NoShell
<1>2. /\ pushing' = [id |-> nextId, size |-> pushing.size, off |-> Heap]
      /\ Ring!RingRelease(pushing.off) /\ UNCHANGED <<queueVars, held, nextId>>
  BY DEF GiveRegionBack, Clone
<1>3. pushing' \in Packet /\ pushing'.off = Heap
  BY <1>1, <1>2, PacketIs DEF Packet
<1>4. \A o \in Nat : ~Pushed(o)' /\ (Pushed(o) <=> o = pushing.off)
  BY <1>1, <1>3, PacketIs DEF Pushed, InRing
<1>5. Store!RingInv' /\ Store!Live' = Store!Live \ {pushing.off}
  BY <1>2, ReleaseKeeps DEF QueueInv
<1>6. PacketTypes'
  BY <1>2, <1>3 DEF QueueInv, PacketTypes, queueVars
<1>7. SlotsInOrder'
  <2>1. QueueFree
    BY <1>1, PacketIs DEF QueueInv, SlotsInOrder
  <2>2. QED
    BY <1>2, <2>1 DEF QueueInv, SlotsInOrder, QueueFree, Turn, queueVars
<1>8. \A o \in Nat, i \in QueueSlots : Queued(i, o)' <=> Queued(i, o)
  BY <1>2 DEF Queued, queueVars
<1>9. OwnersAreRight'
  BY <1>2, <1>4, <1>5, <1>8, PushedGoes DEF QueueInv
<1>10. QED
  BY <1>5, <1>6, <1>7, <1>9 DEF QueueInv

LEMMA ClonedIs ==
  ASSUME QueueInv, Cloned
  PROVE  pushing \in Packet /\ pushing # NULL /\ QueueFree
<1>1. pushing \in Packet
  BY PacketIs DEF Cloned, QueueInv, PacketTypes, NULL
<1>2. QED
  BY <1>1, PacketIs DEF QueueInv, SlotsInOrder

LEMMA NextTagIs == ASSUME nextId \in Ids PROVE NextTag \in Ids
<1> DEFINE n == Cardinality(Ids)
<1>1. n \in Nat \ {0} /\ Ids = 1 .. n
  BY IdsAssumption, FS_CardinalityType, FS_EmptySet
<1>2. NextTag = (nextId % n) + 1
  BY DEF NextTag
<1> HIDE DEF n
<1>3. nextId \in Nat
  BY <1>1
<1>4. nextId % n \in 0 .. (n - 1)
  BY <1>1, <1>3
<1>5. QED
  BY <1>1, <1>2, <1>4

LEMMA RefusePushKeeps == ASSUME QueueInv, RefusePush PROVE QueueInv'
<1>1. /\ FreePacket(pushing) /\ pushing' = NULL /\ nextId' = NextTag
      /\ UNCHANGED <<queueVars, held>> /\ pushing \in Packet /\ QueueFree
  BY ClonedIs DEF RefusePush
<1>2. /\ Store!RingInv'
      /\ \A o \in Nat : o \in Store!Live' <=> o \in Store!Live /\ ~Popped(pushing, o)
  BY <1>1, FreePacketIs DEF QueueInv
<1>3. \A o \in Nat : ~Pushed(o)' /\ (Pushed(o) <=> Popped(pushing, o))
  BY <1>1, PacketIs DEF Pushed, Popped
<1>4. PacketTypes' /\ SlotsInOrder'
  BY <1>1, NextTagIs DEF QueueInv, PacketTypes, SlotsInOrder, QueueFree, Turn, queueVars
<1>5. \A o \in Nat, i \in QueueSlots : Queued(i, o)' <=> Queued(i, o)
  BY <1>1 DEF Queued, queueVars
<1>6. OwnersAreRight'
  BY <1>1, <1>2, <1>3, <1>5, PushedGoes DEF QueueInv
<1>7. QED
  BY <1>2, <1>4, <1>6 DEF QueueInv
-----------------------------------------------------------------------------
\* Going round the slots.
LEMMA TurnIs ==
  ASSUME read \in QueueSlots
  PROVE  /\ \A i \in QueueSlots : Turn(i) \in QueueSlots
         /\ \A i, j \in QueueSlots : Turn(i) = Turn(j) => i = j
         /\ Turn(read) = 0
BY QueueSizeAssumption DEF QueueSlots, Turn

LEMMA NextSlotIs ==
  ASSUME NEW i \in QueueSlots
  PROVE  (i + 1) % QueueSize = (IF i + 1 = QueueSize THEN 0 ELSE i + 1)
<1>1. QueueSize \in Nat \ {0} /\ i \in 0 .. (QueueSize - 1)
  BY QueueSizeAssumption DEF QueueSlots
<1>2. CASE i + 1 = QueueSize
  BY <1>1, <1>2
<1>3. CASE i + 1 # QueueSize
  BY <1>1, <1>3
<1>4. QED
  BY <1>2, <1>3

\* While there is room the slot at write is the one after the packets.
LEMMA WriteIsFree ==
  ASSUME QueueInv, QueueFree, count < QueueSize
  PROVE  packets[write] = NULL /\ Turn(write) = count
<1>1. /\ read \in 0 .. (QueueSize - 1) /\ count \in 0 .. QueueSize /\ QueueSize \in Nat \ {0}
      /\ write \in QueueSlots
      /\ write = (IF read + count >= QueueSize THEN read + count - QueueSize ELSE read + count)
  BY QueueSizeAssumption DEF QueueInv, PacketTypes, SlotsInOrder, QueueSlots
<1>2. Turn(write) = count
  BY <1>1 DEF Turn
<1>3. ~(Turn(write) < count)
  BY <1>1, <1>2
<1>4. QED
  BY <1>1, <1>2, <1>3 DEF QueueInv, SlotsInOrder

LEMMA EnqueueKeeps == ASSUME QueueInv, NEW d, Enqueue(d) PROVE QueueInv'
<1>1. /\ packets' = [packets EXCEPT ![write] = pushing] /\ pushing' = NULL
      /\ write' = (write + 1) % QueueSize /\ count' = count + 1 /\ nextId' = NextTag
      /\ UNCHANGED <<ringVars, read, clearing, held>>
      /\ count < QueueSize /\ pushing \in Packet /\ pushing # NULL /\ QueueFree
  BY ClonedIs DEF Enqueue
<1>2. packets[write] = NULL /\ Turn(write) = count
  BY <1>1, WriteIsFree
<1>3. /\ read \in QueueSlots /\ write \in QueueSlots /\ count \in 0 .. QueueSize
      /\ packets \in [QueueSlots -> Packet \cup {NULL}]
  BY DEF QueueInv, PacketTypes
<1>4. /\ packets' \in [QueueSlots -> Packet \cup {NULL}] /\ packets'[write] = pushing
      /\ \A i \in QueueSlots : i # write => packets'[i] = packets[i]
  BY <1>1, <1>3
<1>5. /\ write' = (IF write + 1 = QueueSize THEN 0 ELSE write + 1)
      /\ write' \in QueueSlots /\ count' \in 0 .. QueueSize
  BY <1>1, <1>3, NextSlotIs, QueueSizeAssumption DEF QueueSlots
<1>6. PacketTypes'
  BY <1>1, <1>4, <1>5, NextTagIs DEF QueueInv, PacketTypes
<1>7. SlotsInOrder'
  <2>1. QueueFree' /\ (\A i : Turn(i)' = Turn(i))
    BY <1>1 DEF QueueFree, Turn
  <2>2. ASSUME NEW i \in QueueSlots PROVE packets'[i] # NULL <=> Turn(i) < count'
    <3>1. Turn(i) \in QueueSlots /\ (Turn(i) = count => i = write)
      BY <1>2, <1>3, TurnIs
    <3>2. Turn(i) < count' <=> Turn(i) < count \/ Turn(i) = count
      BY <1>1, <1>3, <3>1, QueueSizeAssumption DEF QueueSlots
    <3>3. i # write => (packets[i] # NULL <=> Turn(i) < count)
      BY <1>1 DEF QueueInv, SlotsInOrder
    <3>4. QED
      BY <1>1, <1>2, <1>4, <3>1, <3>2, <3>3
  <2>3. write' = (IF read' + count' >= QueueSize THEN read' + count' - QueueSize ELSE read' + count')
    <3>1. write = (IF read + count >= QueueSize THEN read + count - QueueSize ELSE read + count)
      BY <1>1 DEF QueueInv, SlotsInOrder
    <3>2. QED
      BY <1>1, <1>3, <1>5, <3>1, QueueSizeAssumption DEF QueueSlots
  <2>4. QED
    BY <2>1, <2>2, <2>3 DEF SlotsInOrder
<1>8. Store!RingInv' /\ Store!Live' = Store!Live
  BY <1>1, RingRests DEF QueueInv
<1>9. OwnersAreRight'
  <2> SUFFICES ASSUME NEW o \in Nat PROVE (HasOwner(o)' <=> o \in Store!Live') /\ OneOwner(o)'
    BY DEF OwnersAreRight
  <2>1. (HasOwner(o) <=> o \in Store!Live) /\ OneOwner(o)
    BY DEF QueueInv, OwnersAreRight
  <2>2. ~Pushed(o)' /\ held' = held
    BY <1>1, PacketIs DEF Pushed
  <2>3. ~Queued(write, o)
    BY <1>2, PacketIs DEF Queued
  <2>4. \A i \in QueueSlots : i # write => (Queued(i, o)' <=> Queued(i, o))
    BY <1>4 DEF Queued
  <2>5. \A i \in QueueSlots : Queued(i, o)' <=> IF i = write THEN Pushed(o) ELSE Queued(i, o)
    <3> SUFFICES ASSUME NEW i \in QueueSlots
                 PROVE  Queued(i, o)' <=> IF i = write THEN Pushed(o) ELSE Queued(i, o)
      OBVIOUS
    <3>1. CASE i = write
      <4>1. Queued(i, o)' <=> packets'[write] # NULL /\ packets'[write].off # Heap /\ packets'[write].off = o
        BY <3>1 DEF Queued, InRing
      <4>2. QED
        BY <1>4, <3>1, <4>1 DEF Pushed, InRing
    <3>2. CASE i # write
      BY <2>4, <3>2
    <3>3. QED
      BY <3>1, <3>2
  <2>6. QED
    BY <1>3, <1>8, <2>1, <2>2, <2>3, <2>5 DEF HasOwner, OneOwner
<1>10. QED
  BY <1>6, <1>7, <1>8, <1>9 DEF QueueInv
-----------------------------------------------------------------------------
LEMMA PopKeeps == ASSUME QueueInv, Pop PROVE QueueInv'
<1> DEFINE p == packets[read]
<1>1. /\ QueueFree /\ count > 0
      /\ packets' = [packets EXCEPT ![read] = NULL]
      /\ read' = (read + 1) % QueueSize /\ count' = count - 1
      /\ held' = held \cup {p}
      /\ UNCHANGED <<ringVars, write, clearing, pushing, nextId>>
  BY DEF Pop
<1>2. /\ read \in QueueSlots /\ write \in QueueSlots /\ count \in 0 .. QueueSize
      /\ packets \in [QueueSlots -> Packet \cup {NULL}]
  BY DEF QueueInv, PacketTypes
<1>3. p \in Packet
  BY <1>1, <1>2, TurnIs DEF QueueInv, SlotsInOrder
<1>4. /\ packets' \in [QueueSlots -> Packet \cup {NULL}] /\ packets'[read] = NULL
      /\ \A i \in QueueSlots : i # read => packets'[i] = packets[i]
  BY <1>1, <1>2
<1> HIDE DEF p
<1>5. /\ read' = (IF read + 1 = QueueSize THEN 0 ELSE read + 1)
      /\ read' \in QueueSlots /\ count' \in 0 .. QueueSize
  BY <1>1, <1>2, NextSlotIs, QueueSizeAssumption DEF QueueSlots
<1>6. PacketTypes'
  BY <1>1, <1>3, <1>4, <1>5 DEF QueueInv, PacketTypes
<1>7. SlotsInOrder'
  <2>1. QueueFree'
    BY <1>1 DEF QueueFree
  <2>2. ASSUME NEW i \in QueueSlots PROVE packets'[i] # NULL <=> Turn(i)' < count'
    <3>1. CASE i = read
      <4>1. Turn(i)' = QueueSize - 1
        BY <1>2, <1>5, <3>1, QueueSizeAssumption DEF Turn, QueueSlots
      <4>2. QED
        BY <1>1, <1>2, <1>4, <3>1, <4>1, QueueSizeAssumption
    <3>2. CASE i # read
      <4>1. Turn(i)' = Turn(i) - 1 /\ Turn(i) \in Nat
        BY <1>2, <1>5, <3>2, QueueSizeAssumption DEF Turn, QueueSlots
      <4>2. packets[i] # NULL <=> Turn(i) < count
        BY <1>1 DEF QueueInv, SlotsInOrder
      <4>3. Turn(i)' < count' <=> Turn(i) < count
        BY <1>1, <1>2, <4>1
      <4>4. QED
        BY <1>4, <3>2, <4>2, <4>3
    <3>3. QED
      BY <3>1, <3>2
  <2>3. write' = (IF read' + count' >= QueueSize THEN read' + count' - QueueSize ELSE read' + count')
    <3>1. write = (IF read + count >= QueueSize THEN read + count - QueueSize ELSE read + count)
      BY <1>1 DEF QueueInv, SlotsInOrder
    <3>2. QED
      BY <1>1, <1>2, <1>5, <3>1, QueueSizeAssumption DEF QueueSlots
  <2>4. QED
    BY <2>1, <2>2, <2>3 DEF SlotsInOrder
<1>8. Store!RingInv' /\ Store!Live' = Store!Live
  BY <1>1, RingRests DEF QueueInv
<1>9. OwnersAreRight'
  <2> SUFFICES ASSUME NEW o \in Nat PROVE (HasOwner(o)' <=> o \in Store!Live') /\ OneOwner(o)'
    BY DEF OwnersAreRight
  <2>1. (HasOwner(o) <=> o \in Store!Live) /\ OneOwner(o)
    BY DEF QueueInv, OwnersAreRight
  <2>2. Pushed(o)' <=> Pushed(o)
    BY <1>1 DEF Pushed
  <2>3. Queued(read, o) <=> Popped(p, o)
    BY DEF Queued, Popped, p
  <2>4. ASSUME NEW i \in QueueSlots PROVE Queued(i, o)' <=> i # read /\ Queued(i, o)
    <3>1. Queued(i, o)' <=> InRing(packets'[i]) /\ packets'[i].off = o
      BY DEF Queued, InRing
    <3>2. QED
      BY <1>4, <3>1, PacketIs DEF Queued
  <2>5. QED
    BY <1>1, <1>2, <1>8, <2>1, <2>2, <2>3, <2>4 DEF HasOwner, OneOwner
<1>10. QED
  BY <1>6, <1>7, <1>8, <1>9 DEF QueueInv

LEMMA FreeHeldKeeps == ASSUME QueueInv, NEW p \in held, FreeHeld(p) PROVE QueueInv'
<1>1. /\ FreePacket(p) /\ held' = held \ {p} /\ UNCHANGED <<queueVars, pushing, nextId>>
      /\ p \in Packet
  BY DEF FreeHeld, QueueInv, PacketTypes
<1>2. /\ Store!RingInv'
      /\ \A o \in Nat : o \in Store!Live' <=> o \in Store!Live /\ ~Popped(p, o)
  BY <1>1, FreePacketIs DEF QueueInv
<1>3. PacketTypes' /\ SlotsInOrder'
  BY <1>1 DEF QueueInv, PacketTypes, SlotsInOrder, QueueFree, Turn, queueVars
<1>4. OwnersAreRight'
  <2> SUFFICES ASSUME NEW o \in Nat PROVE (HasOwner(o)' <=> o \in Store!Live') /\ OneOwner(o)'
    BY DEF OwnersAreRight
  <2>1. (HasOwner(o) <=> o \in Store!Live) /\ OneOwner(o)
    BY DEF QueueInv, OwnersAreRight
  <2>2. (Pushed(o)' <=> Pushed(o)) /\ \A i \in QueueSlots : Queued(i, o)' <=> Queued(i, o)
    BY <1>1 DEF Pushed, Queued, queueVars
  <2>3. QED
    BY <1>1, <1>2, <2>1, <2>2 DEF HasOwner, OneOwner
<1>5. QED
  BY <1>2, <1>3, <1>4 DEF QueueInv
-----------------------------------------------------------------------------
\* packet_queue_clear.
LEMMA ClearIndexKeeps ==
  ASSUME QueueInv, ClearBegin \/ ClearSkip
  PROVE  QueueInv'
<1>1. UNCHANGED <<ringVars, packets, read, write, count, pushing, held, nextId>> /\ pushing = NULL
  BY QueueSizeAssumption
     DEF ClearBegin, ClearSkip, Demuxing, QueueInv, SlotsInOrder, QueueFree, NotClearing
<1>2. clearing \in 0 .. QueueSize /\ QueueSize \in Nat \ {0}
  BY QueueSizeAssumption DEF QueueInv, PacketTypes
<1>3. /\ clearing' \in 0 .. (QueueSize - 1)
      /\ \A i \in QueueSlots : i < clearing' => packets[i] = NULL
  <2>1. CASE ClearBegin
    BY <1>2, <2>1 DEF ClearBegin, QueueSlots
  <2>2. CASE ClearSkip
    <3>1. clearing' = clearing + 1 /\ clearing < QueueSize - 1 /\ packets[clearing] = NULL
      BY <2>2 DEF ClearSkip
    <3>2. \A i \in QueueSlots : i < clearing => packets[i] = NULL
      BY <1>2, <3>1 DEF QueueInv, SlotsInOrder, QueueFree, NotClearing
    <3>3. \A i \in QueueSlots : i < clearing' => i < clearing \/ i = clearing
      BY <1>2, <3>1 DEF QueueSlots
    <3>4. QED
      BY <1>2, <3>1, <3>2, <3>3
  <2>3. QED
    BY <2>1, <2>2
<1>4. PacketTypes'
  BY <1>1, <1>2, <1>3 DEF QueueInv, PacketTypes
<1>5. SlotsInOrder'
  BY <1>1, <1>2, <1>3 DEF SlotsInOrder, QueueFree, NotClearing
<1>6. Store!RingInv' /\ Store!Live' = Store!Live
  BY <1>1, RingRests DEF QueueInv
<1>7. OwnersAreRight'
  <2>1. \A o \in Nat : Pushed(o)' <=> Pushed(o)
    BY <1>1 DEF Pushed
  <2>2. \A o \in Nat, i \in QueueSlots : Queued(i, o)' <=> Queued(i, o)
    BY <1>1 DEF Queued
  <2>3. QED
    BY <1>1, <1>6, <2>1, <2>2, SameOwners DEF QueueInv
<1>8. QED
  BY <1>4, <1>5, <1>6, <1>7 DEF QueueInv

LEMMA ClearSlotKeeps == ASSUME QueueInv, ClearSlot PROVE QueueInv'
<1> DEFINE p == packets[clearing]
<1>1. /\ clearing < QueueSize /\ p # NULL /\ FreePacket(p)
      /\ packets' = [packets EXCEPT ![clearing] = NULL]
      /\ UNCHANGED <<read, write, count, clearing, pushing, held, nextId>>
  BY DEF ClearSlot
<1>2. /\ clearing \in QueueSlots /\ packets \in [QueueSlots -> Packet \cup {NULL}]
  BY <1>1, QueueSizeAssumption DEF QueueInv, PacketTypes, QueueSlots
<1>3. p \in Packet
  BY <1>1, <1>2
<1>4. /\ packets' \in [QueueSlots -> Packet \cup {NULL}] /\ packets'[clearing] = NULL
      /\ \A i \in QueueSlots : i # clearing => packets'[i] = packets[i]
  BY <1>1, <1>2
<1> HIDE DEF p
<1>5. /\ Store!RingInv'
      /\ \A o \in Nat : o \in Store!Live' <=> o \in Store!Live /\ ~Popped(p, o)
  BY <1>1, <1>3, FreePacketIs DEF QueueInv
<1>6. PacketTypes'
  BY <1>1, <1>4 DEF QueueInv, PacketTypes
<1>7. SlotsInOrder'
  <2>1. ~QueueFree /\ ~QueueFree'
    BY <1>1, <1>2, QueueSizeAssumption DEF QueueFree, NotClearing, QueueSlots
  <2>2. \A i \in QueueSlots : i < clearing => packets'[i] = NULL
    BY <1>4, <2>1 DEF QueueInv, SlotsInOrder
  <2>3. QED
    BY <1>1, <2>1, <2>2 DEF QueueInv, SlotsInOrder
<1>8. OwnersAreRight'
  <2> SUFFICES ASSUME NEW o \in Nat PROVE (HasOwner(o)' <=> o \in Store!Live') /\ OneOwner(o)'
    BY DEF OwnersAreRight
  <2>1. (HasOwner(o) <=> o \in Store!Live) /\ OneOwner(o)
    BY DEF QueueInv, OwnersAreRight
  <2>2. (Pushed(o)' <=> Pushed(o)) /\ held' = held
    BY <1>1 DEF Pushed
  <2>3. Queued(clearing, o) <=> Popped(p, o)
    BY DEF Queued, Popped, p
  <2>4. ASSUME NEW i \in QueueSlots PROVE Queued(i, o)' <=> i # clearing /\ Queued(i, o)
    <3>1. Queued(i, o)' <=> InRing(packets'[i]) /\ packets'[i].off = o
      BY DEF Queued, InRing
    <3>2. QED
      BY <1>4, <3>1, PacketIs DEF Queued
  <2>5. QED
    BY <1>2, <1>5, <2>1, <2>2, <2>3, <2>4 DEF HasOwner, OneOwner
<1>9. QED
  BY <1>5, <1>6, <1>7, <1>8 DEF QueueInv

LEMMA ClearEndKeeps == ASSUME QueueInv, ClearEnd PROVE QueueInv'
<1>1. /\ clearing = QueueSize - 1 /\ packets[clearing] = NULL
      /\ read' = 0 /\ write' = 0 /\ count' = 0 /\ clearing' = NotClearing
      /\ UNCHANGED <<ringVars, packets, pushing, held, nextId>>
  BY DEF ClearEnd
<1>2. QueueSize \in Nat \ {0} /\ 0 \in QueueSlots /\ NotClearing \in 0 .. QueueSize
      /\ 0 \in 0 .. QueueSize /\ ~QueueFree
  BY <1>1, QueueSizeAssumption DEF QueueSlots, NotClearing, QueueFree
<1>3. \A i \in QueueSlots : packets[i] = NULL
  <2>1. \A i \in QueueSlots : i < clearing \/ i = clearing
    BY <1>1, <1>2 DEF QueueSlots
  <2>2. QED
    BY <1>1, <1>2, <2>1 DEF QueueInv, SlotsInOrder
<1>4. PacketTypes'
  BY <1>1, <1>2 DEF QueueInv, PacketTypes
<1>5. SlotsInOrder'
  <2>1. QueueFree'
    BY <1>1 DEF QueueFree, NotClearing
  <2>2. \A i \in QueueSlots : packets'[i] = NULL /\ ~(Turn(i)' < count')
    BY <1>1, <1>2, <1>3 DEF Turn, QueueSlots
  <2>3. write' = (IF read' + count' >= QueueSize THEN read' + count' - QueueSize ELSE read' + count')
    BY <1>1, <1>2
  <2>4. QED
    BY <2>1, <2>2, <2>3 DEF SlotsInOrder
<1>6. Store!RingInv' /\ Store!Live' = Store!Live
  BY <1>1, RingRests DEF QueueInv
<1>7. OwnersAreRight'
  <2>1. \A o \in Nat : Pushed(o)' <=> Pushed(o)
    BY <1>1 DEF Pushed
  <2>2. \A o \in Nat, i \in QueueSlots : Queued(i, o)' <=> Queued(i, o)
    BY <1>1 DEF Queued
  <2>3. QED
    BY <1>1, <1>6, <2>1, <2>2, SameOwners DEF QueueInv
<1>8. QED
  BY <1>4, <1>5, <1>6, <1>7 DEF QueueInv

\* ring_release's loop, and a step of nobody.
LEMMA LoopKeeps ==
  ASSUME QueueInv, RingLoop \/ UNCHANGED packetVars
  PROVE  QueueInv'
<1>1. UNCHANGED <<queueVars, pushing, held, nextId>>
  BY DEF RingLoop, packetVars
<1>2. Store!RingInv' /\ Store!Live' = Store!Live
  <2>1. CASE RingLoop
    <3>1. Store!RetireTail \/ Store!RetireStop
      BY <2>1, SameRing DEF RingLoop
    <3>2. QED
      BY <3>1, RingAssumption, Store!LoopOwns DEF QueueInv
  <2>2. CASE UNCHANGED packetVars
    BY <2>2, RingRests DEF QueueInv, packetVars
  <2>3. QED
    BY <2>1, <2>2
<1>3. PacketTypes' /\ SlotsInOrder'
  BY <1>1 DEF QueueInv, PacketTypes, SlotsInOrder, QueueFree, Turn, queueVars
<1>4. OwnersAreRight'
  <2>1. \A o \in Nat : Pushed(o)' <=> Pushed(o)
    BY <1>1 DEF Pushed
  <2>2. \A o \in Nat, i \in QueueSlots : Queued(i, o)' <=> Queued(i, o)
    BY <1>1 DEF Queued, queueVars
  <2>3. QED
    BY <1>1, <1>2, <2>1, <2>2, SameOwners DEF QueueInv
<1>5. QED
  BY <1>2, <1>3, <1>4 DEF QueueInv

LEMMA QueueKeeps == QueueInv /\ [QueueNext]_packetVars => QueueInv'
<1> SUFFICES ASSUME QueueInv, [QueueNext]_packetVars PROVE QueueInv'
  OBVIOUS
<1>1. ASSUME Push PROVE QueueInv'
  BY <1>1, CloneInRingKeeps, CloneByReferenceKeeps, EnqueueKeeps, RefusePushKeeps, GiveRegionBackKeeps
     DEF Push
<1>2. ASSUME NEW p \in held, FreeHeld(p) PROVE QueueInv'
  BY <1>2, FreeHeldKeeps
<1>3. QED
  BY <1>1, <1>2, PopKeeps, ClearIndexKeeps, ClearSlotKeeps, ClearEndKeeps, LoopKeeps DEF QueueNext

\* The inductive invariant of the queue and its ring.
THEOREM QueueInvariant == QueueSpec => []QueueInv
  BY QueueStarts, QueueKeeps, PTL DEF QueueSpec

\* Every region of the ring that has not been released belongs to exactly one
\* packet: the clone being pushed, one in the queue, or one a decoder holds; for
\* queues and rings of every size, and whichever of push, pop, decoder and clear
\* drops a packet (evo_packet_queue.c).
THEOREM RegionsHaveOwners == QueueSpec => []RegionsOwned
<1>1. QueueInv => RegionsOwned
  <2> SUFFICES ASSUME QueueInv PROVE RegionsOwned
    OBVIOUS
  <2>1. \A p \in Owned : InRing(p) => p.off \in Nat
    BY PacketIs DEF Owned, QueueInv, PacketTypes
  <2>2. \A o \in Nat : HasOwner(o) <=> \E p \in Owned : Popped(p, o)
    BY DEF HasOwner, Owned, Pushed, Queued, Popped
  <2>3. Ring!Live = {p.off : p \in {q \in Owned : q # NULL /\ q.off # Heap}}
    <3>1. Ring!Live \subseteq Nat
      BY SameRing, RingAssumption, Store!LiveInStore DEF QueueInv
    <3>2. \A o \in Nat : o \in Ring!Live <=> HasOwner(o)
      BY SameRing DEF QueueInv, OwnersAreRight
    <3>3. \A o : o \in Ring!Live <=> \E p \in Owned : InRing(p) /\ p.off = o
      BY <2>1, <2>2, <3>1, <3>2 DEF Popped
    <3>4. QED
      BY <3>3 DEF InRing
  <2>4. ASSUME NEW p \in Owned, NEW q \in Owned, p # q, InRing(p), InRing(q)
        PROVE  p.off # q.off
    <3> SUFFICES ASSUME NEW o \in Nat, Popped(p, o), Popped(q, o) PROVE FALSE
      BY <2>1, <2>4 DEF Popped
    <3>1. OneOwner(o)
      BY DEF QueueInv, OwnersAreRight
    <3>2. /\ p = pushing \/ p \in held \/ (\E i \in QueueSlots : p = packets[i])
          /\ q = pushing \/ q \in held \/ (\E i \in QueueSlots : q = packets[i])
      BY DEF Owned
    <3>3. /\ \A x : \A i \in QueueSlots : x = packets[i] /\ Popped(x, o) => Queued(i, o)
          /\ \A x : x = pushing /\ Popped(x, o) => Pushed(o)
      BY DEF Queued, Pushed, Popped
    <3>4. QED
      BY <2>4, <3>1, <3>2, <3>3 DEF OneOwner
  <2>5. \A p, q \in Owned : (p # q /\ p # NULL /\ q # NULL /\ p.off # Heap) => p.off # q.off
    <3> SUFFICES ASSUME NEW p \in Owned, NEW q \in Owned, p # q, p # NULL, q # NULL, p.off # Heap
                 PROVE  p.off # q.off
      OBVIOUS
    <3>1. CASE q.off = Heap
      BY <3>1
    <3>2. CASE q.off # Heap
      BY <2>4, <3>2 DEF InRing
    <3>3. QED
      BY <3>1, <3>2
  <2>6. QED
    BY <2>3, <2>5 DEF RegionsOwned
<1>2. QED
  BY <1>1, QueueInvariant, PTL
-----------------------------------------------------------------------------
(***************************************************************************)
(* The FIFO.  Packet k of the queue is the one whose turn is k - 1, so an  *)
(* enqueue appends to Contents, a pop takes its head away and a clear      *)
(* empties it; the other steps leave it alone.                             *)
(***************************************************************************)
SlotAt(k) == (read + k - 1) % QueueSize

LEMMA ModIs ==
  ASSUME NEW q \in Nat \ {0}, NEW a \in 0 .. (q - 1), NEW b \in 0 .. (q - 1)
  PROVE  (a + b) % q = IF a + b >= q THEN a + b - q ELSE a + b
<1>1. CASE a + b >= q
  BY <1>1
<1>2. CASE a + b < q
  BY <1>2
<1>3. QED
  BY <1>1, <1>2

LEMMA SlotAtIs ==
  ASSUME read \in QueueSlots, NEW k \in 1 .. QueueSize
  PROVE  SlotAt(k) \in QueueSlots /\ Turn(SlotAt(k)) = k - 1
<1>1. /\ QueueSize \in Nat \ {0} /\ read \in 0 .. (QueueSize - 1) /\ k - 1 \in 0 .. (QueueSize - 1)
      /\ read + k - 1 = read + (k - 1)
  BY QueueSizeAssumption DEF QueueSlots
<1>2. SlotAt(k) = (read + (k - 1)) % QueueSize
  BY <1>1 DEF SlotAt
<1>3. SlotAt(k) = IF read + (k - 1) >= QueueSize THEN read + (k - 1) - QueueSize ELSE read + (k - 1)
  BY <1>1, <1>2, ModIs
<1>4. QED
  BY <1>1, <1>3 DEF Turn, QueueSlots

\* What Contents is of a queue that is not being cleared.
Line ==
  /\ Contents \in Seq(Ids) /\ Len(Contents) = count /\ count \in Nat
  /\ \A k \in 1 .. count : Contents[k] = packets[SlotAt(k)].id

LEMMA ContentsAre == QueueInv /\ QueueFree => Line
<1> SUFFICES ASSUME QueueInv, QueueFree PROVE Line
  OBVIOUS
<1>1. count \in 0 .. QueueSize /\ QueueSize \in Nat /\ read \in QueueSlots
  BY QueueSizeAssumption DEF QueueInv, PacketTypes
<1>2. Contents = [k \in 1 .. count |-> packets[SlotAt(k)].id]
  BY DEF Contents, SlotAt
<1>3. ASSUME NEW k \in 1 .. count PROVE packets[SlotAt(k)].id \in Ids
  <2>1. SlotAt(k) \in QueueSlots /\ Turn(SlotAt(k)) < count
    BY <1>1, SlotAtIs
  <2>2. packets[SlotAt(k)] \in Packet
    BY <2>1 DEF QueueInv, PacketTypes, SlotsInOrder
  <2>3. QED
    BY <2>2, PacketIs
<1>4. QED
  BY <1>1, <1>2, <1>3 DEF Line

LEMMA EnqueuePushes ==
  ASSUME QueueInv, QueueInv', NEW d, Enqueue(d)
  PROVE  Fifo!Push
<1>1. /\ packets' = [packets EXCEPT ![write] = pushing] /\ count' = count + 1
      /\ read' = read /\ clearing' = clearing /\ count < QueueSize
      /\ pushing.id \in Ids /\ QueueFree
  BY ClonedIs DEF Enqueue, Cloned
<1>2. QueueFree'
  BY <1>1 DEF QueueFree
<1>3. /\ Contents \in Seq(Ids) /\ Len(Contents) = count /\ count \in Nat
      /\ \A k \in 1 .. count : Contents[k] = packets[SlotAt(k)].id
  BY <1>1, ContentsAre DEF Line
<1>4. /\ Contents' \in Seq(Ids) /\ Len(Contents') = count + 1
      /\ \A k \in 1 .. (count + 1) : Contents'[k] = packets'[SlotAt(k)].id
  <2>1. /\ Contents' \in Seq(Ids) /\ Len(Contents') = count' /\ count' \in Nat
        /\ \A k \in 1 .. count' : Contents'[k] = packets'[SlotAt(k)'].id
    <3>1. Line'
      BY <1>2, ContentsAre, PTL
    <3>2. QED
      BY <3>1 DEF Line
  <2>2. \A k : SlotAt(k)' = SlotAt(k)
    BY <1>1 DEF SlotAt
  <2>3. QED
    BY <1>1, <2>1, <2>2
<1>5. /\ read \in QueueSlots /\ write \in QueueSlots /\ packets \in [QueueSlots -> Packet \cup {NULL}]
      /\ Turn(write) = count
  BY <1>1, WriteIsFree DEF QueueInv, PacketTypes
<1>6. ASSUME NEW k \in 1 .. (count + 1)
      PROVE  Contents'[k] = IF k <= count THEN Contents[k] ELSE pushing.id
  <2>1. SlotAt(k) \in QueueSlots /\ Turn(SlotAt(k)) = k - 1
    BY <1>1, <1>3, <1>5, SlotAtIs, QueueSizeAssumption
  <2>2. SlotAt(k) = write <=> k = count + 1
    BY <1>3, <1>5, <2>1, TurnIs
  <2>3. packets'[SlotAt(k)] = IF k = count + 1 THEN pushing ELSE packets[SlotAt(k)]
    BY <1>1, <1>5, <2>1, <2>2
  <2>4. CASE k = count + 1
    BY <1>3, <1>4, <2>3, <2>4
  <2>5. CASE k \in 1 .. count
    BY <1>3, <1>4, <2>3, <2>5
  <2>6. QED
    BY <1>3, <2>4, <2>5
<1>7. Contents' = Append(Contents, pushing.id)
  <2>1. /\ Append(Contents, pushing.id) \in Seq(Ids)
        /\ Len(Append(Contents, pushing.id)) = count + 1
        /\ \A k \in 1 .. (count + 1) :
             Append(Contents, pushing.id)[k] = IF k <= count THEN Contents[k] ELSE pushing.id
    BY <1>1, <1>3
  <2>2. QED
    BY <1>3, <1>4, <1>6, <2>1, SeqEqual
<1>8. QED
  BY <1>1, <1>3, <1>7 DEF Fifo!Push

LEMMA PopPops ==
  ASSUME QueueInv, QueueInv', Pop
  PROVE  Fifo!Pop
<1>1. /\ packets' = [packets EXCEPT ![read] = NULL] /\ count' = count - 1 /\ count > 0
      /\ read' = (read + 1) % QueueSize /\ clearing' = clearing /\ QueueFree
  BY DEF Pop
<1>2. QueueFree'
  BY <1>1 DEF QueueFree
<1>3. /\ Contents \in Seq(Ids) /\ Len(Contents) = count /\ count \in Nat
      /\ \A k \in 1 .. count : Contents[k] = packets[SlotAt(k)].id
  BY <1>1, ContentsAre DEF Line
<1>4. /\ Contents' \in Seq(Ids) /\ Len(Contents') = count - 1
      /\ \A k \in 1 .. (count - 1) : Contents'[k] = packets'[SlotAt(k)'].id
  <2>1. /\ Contents' \in Seq(Ids) /\ Len(Contents') = count' /\ count' \in Nat
        /\ \A k \in 1 .. count' : Contents'[k] = packets'[SlotAt(k)'].id
    <3>1. Line'
      BY <1>2, ContentsAre, PTL
    <3>2. QED
      BY <3>1 DEF Line
  <2>2. QED
    BY <1>1, <2>1
<1>5. /\ read \in QueueSlots /\ packets \in [QueueSlots -> Packet \cup {NULL}]
      /\ count \in 1 .. QueueSize /\ QueueSize \in Nat \ {0}
      /\ read' \in QueueSlots /\ read' = (IF read + 1 = QueueSize THEN 0 ELSE read + 1)
  BY <1>1, NextSlotIs, QueueSizeAssumption DEF QueueInv, PacketTypes
<1>6. ASSUME NEW k \in 1 .. (count - 1)
      PROVE  Contents'[k] = Contents[k + 1]
  <2>1. SlotAt(k + 1) \in QueueSlots /\ Turn(SlotAt(k + 1)) = k
    <3>1. k + 1 \in 1 .. QueueSize /\ (k + 1) - 1 = k
      BY <1>5
    <3>2. QED
      BY <1>5, <3>1, SlotAtIs
  <2>2. SlotAt(k)' = SlotAt(k + 1)
    <3>1. /\ k - 1 \in 0 .. (QueueSize - 1) /\ k \in 0 .. (QueueSize - 1)
          /\ read \in 0 .. (QueueSize - 1) /\ read' \in 0 .. (QueueSize - 1)
          /\ read' + k - 1 = read' + (k - 1) /\ read + (k + 1) - 1 = read + k
      BY <1>5 DEF QueueSlots
    <3>2. SlotAt(k)' = (read' + (k - 1)) % QueueSize /\ SlotAt(k + 1) = (read + k) % QueueSize
      BY <3>1 DEF SlotAt
    <3>3. SlotAt(k)' = IF read' + (k - 1) >= QueueSize THEN read' + (k - 1) - QueueSize
                                                       ELSE read' + (k - 1)
      BY <1>5, <3>1, <3>2, ModIs
    <3>4. SlotAt(k + 1) = IF read + k >= QueueSize THEN read + k - QueueSize ELSE read + k
      BY <1>5, <3>1, <3>2, ModIs
    <3>5. QED
      BY <1>5, <3>1, <3>3, <3>4
  <2>3. SlotAt(k + 1) # read
    BY <1>5, <2>1, TurnIs
  <2>4. packets'[SlotAt(k + 1)] = packets[SlotAt(k + 1)]
    BY <1>1, <1>5, <2>1, <2>3
  <2>5. QED
    BY <1>3, <1>4, <1>5, <2>2, <2>4
<1>7. Contents' = Tail(Contents)
  <2>1. /\ Tail(Contents) \in Seq(Ids) /\ Len(Tail(Contents)) = count - 1
        /\ \A k \in 1 .. (count - 1) : Tail(Contents)[k] = Contents[k + 1]
    BY <1>1, <1>3
  <2>2. QED
    BY <1>3, <1>4, <1>6, <2>1, SeqEqual
<1>8. Contents # <<>>
  BY <1>1, <1>3
<1>9. QED
  BY <1>7, <1>8 DEF Fifo!Pop

\* A clear empties the queue when it takes the mutex; nobody else sees it before
\* the mutex is given back.
LEMMA ClearClears ==
  ASSUME QueueInv, QueueInv', ClearBegin \/ ClearSlot \/ ClearSkip \/ ClearEnd
  PROVE  Contents' = <<>>
<1>1. CASE ClearEnd
  <2>1. QueueFree' /\ count' = 0
    BY <1>1 DEF ClearEnd, QueueFree, NotClearing
  <2>2. Line'
    BY <2>1, ContentsAre, PTL
  <2>3. QED
    BY <2>1, <2>2 DEF Line
<1>2. CASE ClearBegin \/ ClearSlot \/ ClearSkip
  <2>1. ~QueueFree'
    BY <1>2, QueueSizeAssumption
       DEF ClearBegin, ClearSlot, ClearSkip, QueueFree, NotClearing, QueueInv, PacketTypes
  <2>2. QED
    BY <2>1 DEF Contents
<1>3. QED
  BY <1>1, <1>2

\* Steps on packets outside the queue, the ring and the clone.
LEMMA OthersStutter ==
  ASSUME UNCHANGED queueVars
  PROVE  Contents' = Contents
BY DEF queueVars, Contents, QueueFree

LEMMA QueueStepIsFifoStep ==
  ASSUME QueueInv, QueueInv', [QueueNext]_packetVars
  PROVE  [Fifo!Next]_Contents
<1>1. ASSUME NEW d, Enqueue(d) PROVE Fifo!Next
  BY <1>1, EnqueuePushes DEF Fifo!Next
<1>2. ASSUME Pop PROVE Fifo!Next
  BY <1>2, PopPops DEF Fifo!Next
<1>3. ASSUME ClearBegin \/ ClearSlot \/ ClearSkip \/ ClearEnd PROVE Fifo!Next
  BY <1>3, ClearClears DEF Fifo!Next, Fifo!Clear
<1>4. ASSUME NEW n, CloneInRing(n) \/ CloneByReference(n) PROVE UNCHANGED queueVars
  BY <1>4 DEF CloneInRing, CloneByReference
<1>5. ASSUME GiveRegionBack \/ RefusePush \/ RingLoop \/ UNCHANGED packetVars PROVE UNCHANGED queueVars
  BY <1>5 DEF GiveRegionBack, RefusePush, RingLoop, packetVars
<1>6. ASSUME NEW p \in held, FreeHeld(p) PROVE UNCHANGED queueVars
  BY <1>6 DEF FreeHeld
<1>7. QED
  BY <1>1, <1>2, <1>3, <1>4, <1>5, <1>6, OthersStutter DEF QueueNext, Push

\* The queue with its ring, its clones and its slot-by-slot clear is the bounded
\* FIFO of its header, for every capacity: packets come out in the order they
\* went in and none is lost but by a clear (evo_packet_queue.h).
THEOREM QueueIsFifo == QueueSpec => ImplementsFifo
<1>1. QueueInit => Fifo!Init
  <2> SUFFICES ASSUME QueueInit PROVE Contents = <<>>
    BY DEF Fifo!Init
  <2>1. QueueInv /\ QueueFree /\ count = 0
    BY QueueStarts DEF QueueInit, QueueFree
  <2>2. QED
    BY <2>1, ContentsAre DEF Line
<1>2. QueueInv /\ QueueInv' /\ [QueueNext]_packetVars => [Fifo!Next]_Contents
  BY QueueStepIsFifoStep
<1>3. QED
  BY <1>1, <1>2, QueueInvariant, PTL DEF QueueSpec, ImplementsFifo, Fifo!Spec
-----------------------------------------------------------------------------
(***************************************************************************)
(* Sums over finite sets.  MapThenSumSet folds the set in the order CHOOSE *)
(* takes its members: it reads off, at the set, the table of the sums of   *)
(* all its subsets.  The lemmas say that there is such a table, that any   *)
(* member may be taken off first, and that only the members' values count. *)
(* Induction goes by the smallest counterexample.                          *)
(***************************************************************************)
LEMMA LeastNumber ==
  ASSUME NEW T, T \subseteq Nat, T # {}
  PROVE  \E x \in T : \A y \in T : x <= y
<1> DEFINE R == OpToRel(<, Nat)
<1>1. IsWellFoundedOn(R, Nat)
  BY NatLessThanWellFounded
<1>2. \A x, y \in Nat : y < x => <<y, x>> \in R
  BY DEF OpToRel
<1> HIDE DEF R
<1>3. PICK x \in T : \A y \in T : <<y, x>> \notin R
  BY <1>1, WFMin
<1>4. ASSUME NEW y \in T PROVE x <= y
  <2>1. x \in Nat /\ y \in Nat /\ ~(y < x)
    BY <1>2, <1>3
  <2>2. QED
    BY <2>1
<1>5. QED
  BY <1>3, <1>4

\* A family of subsets that has each one from which only members are missing is all of them.
LEMMA SubsetInduction ==
  ASSUME NEW S, IsFiniteSet(S), NEW Q,
         \A s \in SUBSET S : (\A x \in s : s \ {x} \in Q) => s \in Q
  PROVE  \A s \in SUBSET S : s \in Q
<1> SUFFICES ASSUME NEW s0 \in SUBSET S, s0 \notin Q PROVE FALSE
  OBVIOUS
<1> DEFINE T == {Cardinality(s) : s \in (SUBSET S) \ Q}
<1>1. \A s \in SUBSET S : IsFiniteSet(s) /\ Cardinality(s) \in Nat
  BY FS_Subset, FS_CardinalityType
<1>2. T \subseteq Nat /\ T # {}
  BY <1>1
<1>3. PICK n \in T : \A m \in T : n <= m
  BY <1>2, LeastNumber
<1>4. PICK s \in (SUBSET S) \ Q : Cardinality(s) = n
  BY <1>3
<1>5. ASSUME NEW x \in s PROVE s \ {x} \in Q
  <2>1. s \ {x} \in SUBSET S /\ Cardinality(s \ {x}) = Cardinality(s) - 1
    BY <1>1, <1>4, FS_RemoveElement
  <2>2. SUFFICES ASSUME s \ {x} \notin Q PROVE FALSE
    OBVIOUS
  <2>3. Cardinality(s \ {x}) \in T
    BY <2>1, <2>2
  <2>4. Cardinality(s) \in Nat /\ Cardinality(s) = n
    BY <1>1, <1>4
  <2> HIDE DEF T
  <2>5. n <= Cardinality(s \ {x})
    BY <1>3, <2>3
  <2>6. QED
    BY <2>1, <2>4, <2>5
<1>6. QED
  BY <1>4, <1>5

First(s) == CHOOSE x \in s : TRUE

\* f is the table of the sums of val over the subsets of S.
Sums(f, val, S) ==
  f = [s \in SUBSET S |-> IF s = {} THEN 0 ELSE val[First(s)] + f[s \ {First(s)}]]

\* The same, at each place.
LEMMA SumsAre ==
  ASSUME NEW S, NEW val, NEW f, Sums(f, val, S)
  PROVE  /\ f[{}] = 0
         /\ \A s \in SUBSET S : s # {} => First(s) \in s /\ f[s] = val[First(s)] + f[s \ {First(s)}]
<1> DEFINE g == [s \in SUBSET S |-> IF s = {} THEN 0 ELSE val[First(s)] + f[s \ {First(s)}]]
<1>1. f = g
  BY DEF Sums
<1>2. \A s \in SUBSET S : g[s] = IF s = {} THEN 0 ELSE val[First(s)] + f[s \ {First(s)}]
  OBVIOUS
<1>3. \A s : s # {} => First(s) \in s
  BY DEF First
<1> HIDE DEF g
<1>4. QED
  BY <1>1, <1>2, <1>3

LEMMA SumsExist ==
  ASSUME NEW S, IsFiniteSet(S), NEW val
  PROVE  \E f : Sums(f, val, S)
<1> DEFINE Upto(n) == {s \in SUBSET S : Cardinality(s) <= n}
           Step(f, s) == IF s = {} THEN 0 ELSE val[First(s)] + f[s \ {First(s)}]
           Works(f, n) == f = [s \in Upto(n) |-> Step(f, s)]
           T == {n \in Nat : ~\E f : Works(f, n)}
<1>1. \A s \in SUBSET S : IsFiniteSet(s) /\ Cardinality(s) \in Nat
  BY FS_Subset, FS_CardinalityType
<1>2. \A n \in Nat : \E f : Works(f, n)
  <2> SUFFICES ASSUME T # {} PROVE FALSE
    OBVIOUS
  <2>1. PICK n \in T : \A m \in T : n <= m
    <3>1. T \subseteq Nat
      OBVIOUS
    <3> HIDE DEF T
    <3>2. QED
      BY <3>1, LeastNumber
  <2>2. n \in Nat /\ ~\E f : Works(f, n)
    OBVIOUS
  <2>3. CASE n = 0
    <3>1. \A s \in Upto(0) : s = {}
      BY <1>1, FS_EmptySet
    <3> DEFINE f == [s \in Upto(0) |-> 0]
    <3>2. \A s \in Upto(0) : Step(f, s) = 0
      BY <3>1
    <3>3. Works(f, 0)
      BY <3>2
    <3>4. QED
      BY <2>2, <2>3, <3>3
  <2>4. CASE n # 0
    <3>1. n - 1 \in Nat /\ n - 1 \notin T
      <4>1. n - 1 \in Nat /\ ~(n <= n - 1)
        BY <2>2, <2>4
      <4> HIDE DEF T
      <4>2. QED
        BY <2>1, <4>1
    <3>2. PICK g : Works(g, n - 1)
      BY <3>1
    <3> DEFINE f == [s \in Upto(n) |-> Step(g, s)]
    <3>3. ASSUME NEW s \in Upto(n), s # {} PROVE f[s \ {First(s)}] = g[s \ {First(s)}]
      <4> DEFINE r == s \ {First(s)}
      <4>1. First(s) \in s
        BY <3>3 DEF First
      <4>2. r \in SUBSET S /\ Cardinality(r) = Cardinality(s) - 1
        BY <1>1, <4>1, FS_RemoveElement
      <4>3. r \in Upto(n - 1) /\ r \in Upto(n)
        BY <1>1, <2>2, <4>2
      <4> HIDE DEF r, Step, Upto
      <4>4. f[r] = Step(g, r) /\ g[r] = Step(g, r)
        BY <3>2, <4>3
      <4>5. QED
        BY <4>4 DEF r
    <3>4. ASSUME NEW s \in Upto(n) PROVE Step(f, s) = Step(g, s)
      <4>1. s # {} => f[s \ {First(s)}] = g[s \ {First(s)}]
        BY <3>3
      <4> HIDE DEF f, Upto
      <4>2. QED
        BY <4>1
    <3>5. Works(f, n)
      <4> HIDE DEF Step, Upto
      <4>1. [s \in Upto(n) |-> Step(f, s)] = [s \in Upto(n) |-> Step(g, s)]
        BY <3>4
      <4>2. QED
        BY <4>1
    <3>6. QED
      BY <2>2, <3>5
  <2>5. QED
    BY <2>3, <2>4
<1>3. Cardinality(S) \in Nat /\ Upto(Cardinality(S)) = SUBSET S
  BY FS_CardinalityType, FS_Subset
<1>4. PICK f : Works(f, Cardinality(S))
  BY <1>2, <1>3
<1>5. QED
  BY <1>3, <1>4 DEF Sums

LEMMA SumsAreInts ==
  ASSUME NEW S, IsFiniteSet(S), NEW val, \A x \in S : val[x] \in Int,
         NEW f, Sums(f, val, S)
  PROVE  \A s \in SUBSET S : f[s] \in Int
<1> DEFINE Q == {s \in SUBSET S : f[s] \in Int}
<1>1. \A s \in SUBSET S : s # {} => First(s) \in s /\ f[s] = val[First(s)] + f[s \ {First(s)}]
  BY SumsAre
<1>2. ASSUME NEW s \in SUBSET S, \A x \in s : s \ {x} \in Q PROVE s \in Q
  <2>1. CASE s = {}
    BY <2>1, SumsAre
  <2>2. CASE s # {}
    <3>1. First(s) \in s /\ f[s] = val[First(s)] + f[s \ {First(s)}]
      BY <1>1, <2>2
    <3>2. val[First(s)] \in Int /\ f[s \ {First(s)}] \in Int
      BY <1>2, <3>1
    <3>3. QED
      BY <3>1, <3>2
  <2>3. QED
    BY <2>1, <2>2
<1> HIDE DEF Q
<1>3. \A s \in SUBSET S : s \in Q
  BY <1>2, SubsetInduction
<1>4. QED
  BY <1>3 DEF Q

\* Any member may be taken off, not only the one CHOOSE takes.
LEMMA SumsSplit ==
  ASSUME NEW S, IsFiniteSet(S), NEW val, \A x \in S : val[x] \in Int,
         NEW f, Sums(f, val, S), NEW r \in SUBSET S, NEW z \in r
  PROVE  f[r] = val[z] + f[r \ {z}]
<1> DEFINE Q == {s \in SUBSET S : \A x \in s : f[s] = val[x] + f[s \ {x}]}
<1>1. ASSUME NEW s \in SUBSET S, \A x \in s : s \ {x} \in Q PROVE s \in Q
  <2> SUFFICES ASSUME NEW x \in s PROVE f[s] = val[x] + f[s \ {x}]
    OBVIOUS
  <2> DEFINE y == First(s)
             both == (s \ {x}) \ {y}
  <2>1. y \in s /\ f[s] = val[y] + f[s \ {y}]
    BY SumsAre
  <2>2. CASE x = y
    BY <2>1, <2>2
  <2>3. CASE x # y
    <3>1. both = (s \ {y}) \ {x} /\ x \in s \ {y} /\ y \in s \ {x}
      BY <2>1, <2>3
    <3>2. f[s \ {y}] = val[x] + f[both] /\ f[s \ {x}] = val[y] + f[both]
      BY <1>1, <2>1, <3>1
    <3>3. f[both] \in Int /\ val[x] \in Int /\ val[y] \in Int
      <4>1. both \in SUBSET S /\ x \in S /\ y \in S
        BY <2>1
      <4> HIDE DEF both, y
      <4>2. QED
        BY <4>1, SumsAreInts
    <3> HIDE DEF both, y
    <3>4. QED
      BY <2>1, <3>2, <3>3
  <2>4. QED
    BY <2>2, <2>3
<1> HIDE DEF Q
<1>2. \A s \in SUBSET S : s \in Q
  BY <1>1, SubsetInduction
<1>3. QED
  BY <1>2 DEF Q

\* Where two valuations agree so do their sums.
LEMMA SumsAgree ==
  ASSUME NEW S, IsFiniteSet(S), NEW U, S \subseteq U, NEW val, NEW w, NEW f, NEW g,
         Sums(f, val, S), Sums(g, w, U), \A x \in S : val[x] = w[x]
  PROVE  f[S] = g[S]
<1> DEFINE Q == {s \in SUBSET S : f[s] = g[s]}
<1>1. ASSUME NEW s \in SUBSET S, \A x \in s : s \ {x} \in Q PROVE s \in Q
  <2>1. CASE s = {}
    BY <2>1, SumsAre
  <2>2. CASE s # {}
    <3>1. /\ First(s) \in s /\ f[s] = val[First(s)] + f[s \ {First(s)}]
          /\ s \in SUBSET U /\ g[s] = w[First(s)] + g[s \ {First(s)}]
      BY <2>2, SumsAre
    <3>2. val[First(s)] = w[First(s)] /\ f[s \ {First(s)}] = g[s \ {First(s)}]
      BY <1>1, <3>1
    <3>3. QED
      BY <3>1, <3>2
  <2>3. QED
    BY <2>1, <2>2
<1> HIDE DEF Q
<1>2. \A s \in SUBSET S : s \in Q
  BY <1>1, SubsetInduction
<1>3. QED
  BY <1>2 DEF Q

(* What the totals' proof needs to know of a sum. *)
Total(val, S) == MapThenSumSet(LAMBDA i : val[i], S)

LEMMA TotalIs ==
  ASSUME NEW S, IsFiniteSet(S), NEW val
  PROVE  \E f : Sums(f, val, S) /\ Total(val, S) = f[S]
<1>1. Total(val, S) = (CHOOSE f : Sums(f, val, S))[S]
  BY DEF Total, MapThenSumSet, MapThenFoldSet, Sums, First
<1>2. Sums(CHOOSE f : Sums(f, val, S), val, S)
  BY SumsExist
<1>3. QED
  BY <1>1, <1>2

\* The same as a relation.
IsTotal(n, val, S) == \E f : Sums(f, val, S) /\ n = f[S]

LEMMA IsTotalIs ==
  ASSUME NEW S, IsFiniteSet(S), NEW val, NEW n
  PROVE  IsTotal(n, val, S) <=> n = Total(val, S)
<1>1. PICK f : Sums(f, val, S) /\ Total(val, S) = f[S]
  BY TotalIs
<1>2. ASSUME NEW g, Sums(g, val, S) PROVE g[S] = f[S]
  BY <1>1, <1>2, SumsAgree
<1>3. QED
  BY <1>1, <1>2 DEF IsTotal

LEMMA TotalSplit ==
  ASSUME NEW S, IsFiniteSet(S), NEW val, \A i \in S : val[i] \in Int, NEW x \in S
  PROVE  Total(val, S) = val[x] + Total(val, S \ {x}) /\ Total(val, S \ {x}) \in Int
<1>1. IsFiniteSet(S \ {x}) /\ S \ {x} \subseteq S /\ S \in SUBSET S
  BY FS_Subset
<1>2. PICK f : Sums(f, val, S) /\ Total(val, S) = f[S]
  BY TotalIs
<1>3. PICK g : Sums(g, val, S \ {x}) /\ Total(val, S \ {x}) = g[S \ {x}]
  BY <1>1, TotalIs
<1>4. g[S \ {x}] = f[S \ {x}]
  BY <1>1, <1>2, <1>3, SumsAgree
<1>5. f[S] = val[x] + f[S \ {x}] /\ f[S \ {x}] \in Int
  <2>1. Sums(f, val, S)
    BY <1>2
  <2>2. f[S] = val[x] + f[S \ {x}]
    BY <1>1, <2>1, SumsSplit
  <2>3. f[S \ {x}] \in Int
    BY <1>1, <2>1, SumsAreInts
  <2>4. QED
    BY <2>2, <2>3
<1>6. QED
  BY <1>2, <1>3, <1>4, <1>5

LEMMA TotalSame ==
  ASSUME NEW S, IsFiniteSet(S), NEW val, NEW w, \A i \in S : val[i] = w[i]
  PROVE  Total(val, S) = Total(w, S)
<1>1. PICK f : Sums(f, val, S) /\ Total(val, S) = f[S]
  BY TotalIs
<1>2. PICK g : Sums(g, w, S) /\ Total(w, S) = g[S]
  BY TotalIs
<1>3. f[S] = g[S]
  BY <1>1, <1>2, SumsAgree
<1>4. QED
  BY <1>1, <1>2, <1>3

LEMMA TotalZero ==
  ASSUME NEW S, IsFiniteSet(S), NEW val, \A i \in S : val[i] = 0
  PROVE  Total(val, S) = 0
<1>1. PICK f : Sums(f, val, S) /\ Total(val, S) = f[S]
  BY TotalIs
<1> DEFINE Q == {s \in SUBSET S : f[s] = 0}
<1>2. ASSUME NEW s \in SUBSET S, \A x \in s : s \ {x} \in Q PROVE s \in Q
  <2>1. CASE s = {}
    BY <1>1, <2>1, SumsAre
  <2>2. CASE s # {}
    <3>1. First(s) \in s /\ f[s] = val[First(s)] + f[s \ {First(s)}]
      BY <1>1, <2>2, SumsAre
    <3>2. val[First(s)] = 0 /\ f[s \ {First(s)}] = 0
      BY <1>2, <3>1
    <3>3. QED
      BY <3>1, <3>2
  <2>3. QED
    BY <2>1, <2>2
<1> HIDE DEF Q
<1>3. \A s \in SUBSET S : s \in Q
  BY <1>2, SubsetInduction
<1>4. QED
  BY <1>1, <1>3 DEF Q

\* A sum of values that are computed from the members.
LEMMA SizesSum ==
  ASSUME NEW S, IsFiniteSet(S), NEW p
  PROVE  MapThenSumSet(LAMBDA i : p[i].size, S) = Total([i \in S |-> p[i].size], S)
<1> DEFINE val == [i \in S |-> p[i].size]
           Table(f) == f = [s \in SUBSET S |-> IF s = {} THEN 0 ELSE p[First(s)].size + f[s \ {First(s)}]]
<1>1. MapThenSumSet(LAMBDA i : p[i].size, S) = (CHOOSE f : Table(f))[S]
  BY DEF MapThenSumSet, MapThenFoldSet, First
<1>2. ASSUME NEW f PROVE Table(f) <=> Sums(f, val, S)
  <2>1. ASSUME NEW s \in SUBSET S, s # {} PROVE val[First(s)] = p[First(s)].size
    <3>1. First(s) \in S
      BY <2>1 DEF First
    <3>2. QED
      BY <3>1
  <2> HIDE DEF val
  <2>2. [s \in SUBSET S |-> IF s = {} THEN 0 ELSE p[First(s)].size + f[s \ {First(s)}]]
        = [s \in SUBSET S |-> IF s = {} THEN 0 ELSE val[First(s)] + f[s \ {First(s)}]]
    BY <2>1
  <2>3. QED
    BY <2>2 DEF Sums
<1> HIDE DEF val, Table
<1>3. Sums(CHOOSE f : Table(f), val, S)
  <2>1. \E f : Table(f)
    BY <1>2, SumsExist
  <2>2. Table(CHOOSE f : Table(f))
    BY <2>1
  <2>3. QED
    BY <1>2, <2>2
<1>4. PICK g : Sums(g, val, S) /\ Total(val, S) = g[S]
  BY TotalIs
<1>5. (CHOOSE f : Table(f))[S] = g[S]
  BY <1>3, <1>4, SumsAgree
<1>6. QED
  BY <1>1, <1>4, <1>5 DEF val
-----------------------------------------------------------------------------
(***************************************************************************)
(* The totals.  An empty slot counts for no bytes and its old duration for *)
(* nothing, so an enqueue adds one slot to both sums and a pop takes one   *)
(* away; the zero a pop of the last packet writes is the sum over nothing. *)
(***************************************************************************)
Sizes == [i \in QueueSlots |-> packets[i].size]
Full == {i \in QueueSlots : packets[i] # NULL}

TotalsInv ==
  /\ durUs \in [QueueSlots -> Int]
  /\ QueueFree => IsTotal(totalBytes, Sizes, QueueSlots) /\ IsTotal(totalDurUs, durUs, Full)

\* The slots of TotalsExact are those in use.
LEMMA OccupiedAreFull ==
  ASSUME QueueInv, QueueFree
  PROVE  {j \in QueueSlots : Occupied(j)} = Full
<1>1. count \in 0 .. QueueSize /\ QueueSize \in Nat \ {0} /\ read \in QueueSlots
  BY QueueSizeAssumption DEF QueueInv, PacketTypes
<1>2. ASSUME NEW j \in QueueSlots PROVE Occupied(j) <=> Turn(j) < count
  <2>1. ASSUME NEW k \in 0 .. (count - 1) PROVE j = (read + k) % QueueSize <=> Turn(j) = k
    <3>1. k + 1 \in 1 .. QueueSize /\ read + (k + 1) - 1 = read + k /\ (k + 1) - 1 = k
      BY <1>1 DEF QueueSlots
    <3>2. SlotAt(k + 1) = (read + k) % QueueSize
      BY <3>1 DEF SlotAt
    <3>3. SlotAt(k + 1) \in QueueSlots /\ Turn(SlotAt(k + 1)) = k
      BY <1>1, <3>1, SlotAtIs
    <3>4. QED
      BY <1>1, <3>2, <3>3, TurnIs
  <2>2. Turn(j) \in Nat /\ count \in Nat
    <3>1. Turn(j) \in QueueSlots
      BY <1>1, TurnIs
    <3>2. QED
      BY <1>1, <3>1 DEF QueueSlots
  <2>3. QED
    BY <2>1, <2>2 DEF Occupied
<1>3. \A j \in QueueSlots : packets[j] # NULL <=> Turn(j) < count
  BY DEF QueueInv, SlotsInOrder
<1>4. QED
  BY <1>2, <1>3 DEF Full

LEMMA SlotsFinite == IsFiniteSet(QueueSlots) /\ IsFiniteSet(Full)
<1>1. IsFiniteSet(0 .. (QueueSize - 1))
  BY QueueSizeAssumption, FS_Interval
<1>2. Full \subseteq QueueSlots
  BY DEF Full
<1>3. QED
  BY <1>1, <1>2, FS_Subset DEF QueueSlots

LEMMA TotalsInvIsExact == ASSUME QueueInv, TotalsInv PROVE TotalsExact
<1> SUFFICES ASSUME QueueFree
             PROVE  /\ totalBytes = MapThenSumSet(LAMBDA i : packets[i].size, QueueSlots)
                    /\ totalDurUs = MapThenSumSet(LAMBDA i : durUs[i], {j \in QueueSlots : Occupied(j)})
  BY DEF TotalsExact
<1>0. totalBytes = Total(Sizes, QueueSlots) /\ totalDurUs = Total(durUs, Full)
  BY SlotsFinite, IsTotalIs DEF TotalsInv
<1>1. MapThenSumSet(LAMBDA i : packets[i].size, QueueSlots) = Total(Sizes, QueueSlots)
  BY SlotsFinite, SizesSum DEF Sizes
<1>2. MapThenSumSet(LAMBDA i : durUs[i], Full) = Total(durUs, Full)
  BY DEF Total
<1>3. QED
  BY <1>0, <1>1, <1>2, OccupiedAreFull

\* The cast to int32_t changes no duration that was clamped.
LEMMA ClampIs ==
  ASSUME NEW d \in Durations
  PROVE  Clamp(d) \in 0 .. DurMax /\ ToInt32(Clamp(d)) = Clamp(d)
<1>1. Clamp(d) \in 0 .. DurMax /\ DurMax \in Nat
  BY DurationAssumption DEF Clamp
<1> DEFINE c == Clamp(d)
           m == 2 * (DurMax + 1)
<1>2. c + DurMax + 1 \in 0 .. (m - 1) /\ m \in Nat \ {0}
  BY <1>1
<1>3. (c + DurMax + 1) % m = c + DurMax + 1
  <2>1. \A q \in Nat \ {0} : \A a \in 0 .. (q - 1) : a % q = a
    OBVIOUS
  <2> HIDE DEF c, m
  <2>2. QED
    BY <1>2, <2>1
<1>4. QED
  BY <1>1, <1>3 DEF ToInt32

LEMMA SizeIs == ASSUME NEW p \in Packet PROVE p.size \in Int
<1>1. p.size \in PayloadSizes
  BY DEF Packet
<1>2. PayloadSizes \subseteq Int
  BY RingAssumption
<1>3. QED
  BY <1>1, <1>2

LEMMA SizesAre == ASSUME PacketTypes PROVE Sizes \in [QueueSlots -> Int]
<1>1. \A i \in QueueSlots : packets[i].size \in Int
  <2>1. NULL.size \in Int
    BY DEF NULL
  <2>2. QED
    BY <2>1, SizeIs DEF PacketTypes
<1>2. QED
  BY <1>1 DEF Sizes

LEMMA EnqueueKeepsTotals ==
  ASSUME QueueInv, QueueInv', TotalsInv, NEW d \in Durations, Enqueue(d)
  PROVE  TotalsInv'
<1>1. /\ packets' = [packets EXCEPT ![write] = pushing]
      /\ durUs' = [durUs EXCEPT ![write] = ToInt32(Clamp(d))]
      /\ totalDurUs' = totalDurUs + Clamp(d) /\ totalBytes' = totalBytes + pushing.size
      /\ count < QueueSize /\ QueueFree /\ pushing \in Packet /\ pushing # NULL
  BY ClonedIs DEF Enqueue
<1>2. /\ write \in QueueSlots /\ packets \in [QueueSlots -> Packet \cup {NULL}]
      /\ durUs \in [QueueSlots -> Int] /\ packets[write] = NULL
      /\ totalBytes = Total(Sizes, QueueSlots) /\ totalDurUs = Total(durUs, Full)
  BY <1>1, WriteIsFree, SlotsFinite, IsTotalIs DEF QueueInv, PacketTypes, TotalsInv
<1> DEFINE others == QueueSlots \ {write}
<1>3. pushing.size \in Int /\ Clamp(d) \in Int /\ ToInt32(Clamp(d)) = Clamp(d)
  BY <1>1, ClampIs, SizeIs
<1>4. PICK new : new = Sizes'
  OBVIOUS
<1>5. PICK full : full = Full'
  OBVIOUS
<1>6. PICK dur : dur = durUs'
  OBVIOUS
<1>7. /\ Sizes[write] = 0 /\ new[write] = pushing.size
      /\ \A i \in others : new[i] = Sizes[i]
      /\ \A i \in QueueSlots : Sizes[i] \in Int /\ new[i] \in Int
  <2>1. \A i \in QueueSlots : Sizes[i] \in Int
    BY SizesAre DEF QueueInv
  <2>2. Sizes[write] = 0
    BY <1>2 DEF Sizes, NULL
  <2>3. new[write] = pushing.size /\ \A i \in others : new[i] = Sizes[i]
    BY <1>1, <1>2, <1>4 DEF Sizes
  <2>4. QED
    BY <1>3, <2>1, <2>2, <2>3
<1>8. totalBytes' = Total(new, QueueSlots)
  <2>1. Total(Sizes, QueueSlots) = Sizes[write] + Total(Sizes, others) /\ Total(Sizes, others) \in Int
    BY <1>2, <1>7, SlotsFinite, TotalSplit
  <2>2. Total(new, QueueSlots) = new[write] + Total(new, others)
    BY <1>2, <1>7, SlotsFinite, TotalSplit
  <2>3. Total(new, others) = Total(Sizes, others)
    BY <1>7, SlotsFinite, FS_Subset, TotalSame
  <2>4. QED
    BY <1>1, <1>2, <1>3, <1>7, <2>1, <2>2, <2>3
<1>9. /\ full = Full \cup {write} /\ write \notin Full
      /\ dur \in [QueueSlots -> Int] /\ dur[write] = Clamp(d) /\ \A i \in Full : dur[i] = durUs[i]
  BY <1>1, <1>2, <1>3, <1>5, <1>6 DEF Full
<1>10. totalDurUs' = Total(dur, full)
  <2>1. Full = full \ {write} /\ write \in full /\ full \subseteq QueueSlots /\ IsFiniteSet(full)
    <3>1. full \subseteq QueueSlots
      BY <1>2, <1>9 DEF Full
    <3>2. QED
      BY <1>9, <3>1, SlotsFinite, FS_Subset
  <2>2. Total(dur, full) = dur[write] + Total(dur, Full) /\ Total(dur, Full) \in Int
    <3>1. \A i \in full : dur[i] \in Int
      BY <1>9, <2>1
    <3>2. QED
      BY <2>1, <3>1, TotalSplit
  <2>3. Total(dur, Full) = Total(durUs, Full)
    BY <1>9, SlotsFinite, TotalSame
  <2>4. QED
    BY <1>1, <1>2, <1>3, <1>9, <2>2, <2>3
<1>11. IsTotal(totalBytes', new, QueueSlots) /\ IsTotal(totalDurUs', dur, full)
  <2>1. full \subseteq QueueSlots
    BY <1>2, <1>9 DEF Full
  <2>2. QED
    BY <1>8, <1>10, <2>1, SlotsFinite, FS_Subset, IsTotalIs
<1>12. QED
  BY <1>4, <1>5, <1>6, <1>9, <1>11 DEF TotalsInv, IsTotal, Sums

LEMMA PopKeepsTotals ==
  ASSUME QueueInv, QueueInv', TotalsInv, Pop
  PROVE  TotalsInv'
<1>1. /\ packets' = [packets EXCEPT ![read] = NULL] /\ durUs' = durUs
      /\ count > 0 /\ QueueFree /\ QueueFree' /\ count' = count - 1
      /\ totalDurUs' = (IF count = 1 THEN 0 ELSE totalDurUs - durUs[read])
      /\ totalBytes' = (IF count = 1 THEN 0 ELSE totalBytes - packets[read].size)
  BY DEF Pop, QueueFree
<1>2. /\ read \in QueueSlots /\ packets \in [QueueSlots -> Packet \cup {NULL}]
      /\ durUs \in [QueueSlots -> Int] /\ count \in Nat
      /\ totalBytes = Total(Sizes, QueueSlots) /\ totalDurUs = Total(durUs, Full)
  BY <1>1, SlotsFinite, IsTotalIs DEF QueueInv, PacketTypes, TotalsInv
<1> DEFINE others == QueueSlots \ {read}
<1>3. read \in Full
  <2>1. Turn(read) = 0
    BY <1>2, TurnIs
  <2>2. QED
    BY <1>1, <1>2, <2>1 DEF QueueInv, SlotsInOrder, Full
<1>4. PICK new : new = Sizes'
  OBVIOUS
<1>5. PICK full : full = Full'
  OBVIOUS
<1>6. /\ Sizes[read] = packets[read].size /\ new[read] = 0
      /\ \A i \in others : new[i] = Sizes[i]
      /\ \A i \in QueueSlots : Sizes[i] \in Int /\ new[i] \in Int
  <2>1. \A i \in QueueSlots : Sizes[i] \in Int
    BY SizesAre DEF QueueInv
  <2>2. Sizes[read] = packets[read].size
    BY <1>2 DEF Sizes
  <2>3. new[read] = 0 /\ \A i \in others : new[i] = Sizes[i]
    BY <1>1, <1>2, <1>4 DEF Sizes, NULL
  <2>4. QED
    BY <2>1, <2>2, <2>3
<1>7. full = Full \ {read}
  BY <1>1, <1>2, <1>5 DEF Full
<1>8. /\ Total(Sizes, QueueSlots) - packets[read].size = Total(new, QueueSlots)
      /\ Total(durUs, Full) - durUs[read] = Total(durUs, full)
  <2>1. Total(Sizes, QueueSlots) = Sizes[read] + Total(Sizes, others) /\ Total(Sizes, others) \in Int
    BY <1>2, <1>6, SlotsFinite, TotalSplit
  <2>2. Total(new, QueueSlots) = new[read] + Total(new, others)
    BY <1>2, <1>6, SlotsFinite, TotalSplit
  <2>3. Total(new, others) = Total(Sizes, others)
    BY <1>6, SlotsFinite, FS_Subset, TotalSame
  <2>4. Total(durUs, Full) = durUs[read] + Total(durUs, Full \ {read}) /\ Total(durUs, Full \ {read}) \in Int
    <3>1. \A i \in Full : durUs[i] \in Int
      BY <1>2 DEF Full
    <3>2. QED
      BY <1>3, <3>1, SlotsFinite, TotalSplit
  <2>5. durUs[read] \in Int /\ Sizes[read] \in Int
    BY <1>2, <1>6
  <2>6. QED
    BY <1>6, <1>7, <2>1, <2>2, <2>3, <2>4, <2>5
<1>9. ASSUME count = 1 PROVE Total(new, QueueSlots) = 0 /\ Total(durUs, full) = 0
  <2>1. \A i \in QueueSlots : packets'[i] = NULL
    <3>1. \A i \in QueueSlots : packets[i] # NULL <=> Turn(i) < 1
      BY <1>1, <1>9 DEF QueueInv, SlotsInOrder
    <3>2. \A i \in QueueSlots : i # read => Turn(i) # 0 /\ Turn(i) \in Nat
      BY <1>2, TurnIs DEF QueueSlots
    <3>3. QED
      BY <1>1, <1>2, <3>1, <3>2
  <2>2. \A i \in QueueSlots : new[i] = 0
    BY <1>4, <2>1 DEF Sizes, NULL
  <2>3. full = {}
    BY <1>5, <2>1 DEF Full
  <2>4. QED
    BY <2>2, <2>3, SlotsFinite, FS_EmptySet, TotalZero
<1>10. totalBytes' = Total(new, QueueSlots) /\ totalDurUs' = Total(durUs, full)
  BY <1>1, <1>2, <1>8, <1>9
<1>11. IsTotal(totalBytes', new, QueueSlots) /\ IsTotal(totalDurUs', durUs, full)
  BY <1>7, <1>10, SlotsFinite, FS_Subset, IsTotalIs
<1>12. QED
  BY <1>1, <1>2, <1>4, <1>5, <1>11 DEF TotalsInv, IsTotal, Sums

\* An empty queue.
NoPackets == \A i \in QueueSlots : packets[i] = NULL
NoTotals == IsTotal(0, Sizes, QueueSlots) /\ IsTotal(0, durUs, Full)

LEMMA NothingIsTotal == NoPackets => NoTotals
<1> SUFFICES ASSUME \A i \in QueueSlots : packets[i] = NULL PROVE NoTotals
  BY DEF NoPackets
<1>1. \A i \in QueueSlots : Sizes[i] = 0
  BY DEF Sizes, NULL
<1>2. Full = {}
  BY DEF Full
<1>3. QED
  BY <1>1, <1>2, SlotsFinite, FS_EmptySet, TotalZero, IsTotalIs DEF NoTotals

LEMMA ClearEndKeepsTotals ==
  ASSUME QueueInv', TotalsInv, ClearEnd
  PROVE  TotalsInv'
<1>1. durUs' = durUs /\ count' = 0 /\ read' = 0 /\ totalBytes' = 0 /\ totalDurUs' = 0 /\ QueueFree'
  BY DEF ClearEnd, QueueFree, NotClearing
<1>2. \A i \in QueueSlots : packets'[i] = NULL
  <2>1. \A i \in QueueSlots : packets'[i] # NULL <=> Turn(i)' < 0
    BY <1>1 DEF QueueInv, SlotsInOrder
  <2>2. \A i \in QueueSlots : ~(Turn(i)' < 0)
    BY <1>1, QueueSizeAssumption DEF Turn, QueueSlots
  <2>3. QED
    BY <2>1, <2>2
<1>3. NoPackets'
  BY <1>2 DEF NoPackets
<1>4. NoTotals'
  BY <1>3, NothingIsTotal, PTL
<1>5. QED
  BY <1>1, <1>4 DEF TotalsInv, NoTotals, IsTotal, Sums

LEMMA TotalsKeep ==
  ASSUME QueueInv, QueueInv', TotalsInv, [QueueNext]_packetVars
  PROVE  TotalsInv'
<1>1. ASSUME NEW d \in Durations, Enqueue(d) PROVE TotalsInv'
  BY <1>1, EnqueueKeepsTotals
<1>2. CASE ClearBegin \/ ClearSlot \/ ClearSkip
  <2>1. durUs' = durUs
    BY <1>2 DEF ClearBegin, ClearSlot, ClearSkip
  <2>2. ~QueueFree'
    BY <1>2, QueueSizeAssumption
       DEF ClearBegin, ClearSlot, ClearSkip, QueueFree, NotClearing, QueueInv, PacketTypes
  <2>3. QED
    BY <2>1, <2>2 DEF TotalsInv
<1>3. ASSUME ClearEnd PROVE TotalsInv'
  BY <1>3, ClearEndKeepsTotals
<1>4. CASE UNCHANGED queueVars
  <2>1. UNCHANGED <<packets, durUs, read, count, totalDurUs, totalBytes, clearing>>
    BY <1>4 DEF queueVars
  <2>2. Sizes' = Sizes /\ Full' = Full /\ QueueFree' = QueueFree
    BY <2>1 DEF Sizes, Full, QueueFree
  <2>3. QED
    BY <2>1, <2>2 DEF TotalsInv, IsTotal, Sums
<1>5. ASSUME NEW n, CloneInRing(n) \/ CloneByReference(n) PROVE UNCHANGED queueVars
  BY <1>5 DEF CloneInRing, CloneByReference
<1>6. ASSUME GiveRegionBack \/ RefusePush \/ RingLoop \/ UNCHANGED packetVars PROVE UNCHANGED queueVars
  BY <1>6 DEF GiveRegionBack, RefusePush, RingLoop, packetVars
<1>7. ASSUME NEW p \in held, FreeHeld(p) PROVE UNCHANGED queueVars
  BY <1>7 DEF FreeHeld
<1>8. QED
  BY <1>1, <1>2, <1>3, <1>4, <1>5, <1>6, <1>7, PopKeepsTotals DEF QueueNext, Push

\* The totals the prebuffer gauge and the byte caps read are the sums over the
\* queued packets, through clamps, casts, pops, refused pushes and clears, for
\* every number of slots.
THEOREM TotalsAreSums == QueueSpec => []TotalsExact
<1>1. QueueInit => TotalsInv
  <2> SUFFICES ASSUME QueueInit PROVE TotalsInv
    OBVIOUS
  <2>1. totalBytes = 0 /\ totalDurUs = 0 /\ durUs \in [QueueSlots -> Int]
        /\ \A i \in QueueSlots : packets[i] = NULL
    BY DEF QueueInit
  <2>2. QED
    BY <2>1, NothingIsTotal DEF TotalsInv, NoPackets, NoTotals
<1>2. QueueInv /\ QueueInv' /\ TotalsInv /\ [QueueNext]_packetVars => TotalsInv'
  BY TotalsKeep
<1>3. QueueInv /\ TotalsInv => TotalsExact
  BY TotalsInvIsExact
<1>4. QED
  BY <1>1, <1>2, <1>3, QueueInvariant, PTL DEF QueueSpec
=============================================================================
