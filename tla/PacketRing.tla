----------------------------- MODULE PacketRing -----------------------------
(***************************************************************************)
(* The packet data ring of media/src/evo_packet_queue.c: one contiguous    *)
(* store in which the demux thread carves a region per packet and from     *)
(* which the decode threads retire regions, in roughly the same order.     *)
(*                                                                         *)
(* Offsets and region sizes are counted in units of RING_ALIGN bytes:      *)
(* every size the code computes is a multiple of it.  The store is         *)
(* represented by the headers that stand in it: hdr is a partial function  *)
(* from offsets to headers, and the payload copied into a region wipes the *)
(* headers that stood under it, as memcpy does.                            *)
(***************************************************************************)
EXTENDS Naturals

CONSTANTS InitSize,       \* units of the store when the ring is created
          GrowSizes,      \* sizes a later malloc may return
          PayloadSizes    \* bytes a packet may hold

RING_HDR == 64
RING_ALIGN == 64
PADDING == 64             \* AV_INPUT_BUFFER_PADDING_SIZE

ASSUME InitSizeAssumption == InitSize \in Nat \ {0}
ASSUME GrowSizesAssumption == GrowSizes \subseteq Nat \ {0}
ASSUME PayloadAssumption == PayloadSizes \subseteq Nat \ {0}

VARIABLES size,      \* r->size
          head,      \* r->head: the next region starts here
          tail,      \* r->tail: the oldest region not retired yet
          used,      \* r->used: units from tail to head, pads included
          hdr,       \* the ring_hdr_t standing in the store, by offset
          mu,        \* r->mu: "free", or "retiring" inside ring_release's loop
          regions    \* history: starts of the regions carved and not retired

ringVars == <<size, head, tail, used, hdr, mu, regions>>

Header == [size : Nat \ {0}, freed : BOOLEAN]

\* The regions a packet still points into: carved and not yet marked freed.
Live == {o \in regions : ~hdr[o].freed}

\* ring_alloc's `need`: header, payload and padding, rounded up.
Need(n) == (RING_HDR + n + PADDING + RING_ALIGN - 1) \div RING_ALIGN

\* An offset that reaches the end of the store is offset 0.
Wrap(o) == IF o = size THEN 0 ELSE o

\* The store after a header is written at o and a payload fills its region.
Stamp(h, o, len, isFreed) ==
  [p \in (DOMAIN h \ (o + 1) .. (o + len - 1)) \cup {o} |->
     IF p = o THEN [size |-> len, freed |-> isFreed] ELSE h[p]]

RingInit == /\ size = InitSize
        /\ head = 0
        /\ tail = 0
        /\ used = 0
        /\ hdr = [p \in {} |-> [size |-> 1, freed |-> TRUE]]
        /\ mu = "free"
        /\ regions = {}
-----------------------------------------------------------------------------
(***************************************************************************)
(* ring_alloc.  The first line of the critical section rewinds an empty    *)
(* ring; the three places a region may then start are exclusive.           *)
(***************************************************************************)
\* An empty ring starts again at offset 0.
CarveEmpty(need) ==
  /\ used = 0
  /\ need <= size
  /\ hdr' = Stamp(hdr, 0, need, FALSE)
  /\ head' = (IF need = size THEN 0 ELSE need)
  /\ tail' = 0
  /\ used' = need
  /\ regions' = regions \cup {0}

\* Faulty variant: one unit past the end of the store counts as room.
FitsAtHeadByOne(need) ==
  IF head > tail THEN size - head >= need - 1
  ELSE head < tail /\ tail - head >= need

\* Room at the head: before the end of the store when head is past tail,
\* before the tail otherwise; a full ring, with head = tail, has none.
FitsAtHead(need) ==
  IF head > tail THEN size - head >= need
  ELSE head < tail /\ tail - head >= need

CarveAtHead(need) ==
  /\ used > 0
  /\ FitsAtHead(need)
  /\ hdr' = Stamp(hdr, head, need, FALSE)
  /\ head' = Wrap(head + need)
  /\ used' = used + need
  /\ regions' = regions \cup {head}
  /\ UNCHANGED tail

\* No room before the end of the store: a freed pad stays there and the
\* region starts again at offset 0.
FitsAfterPad(need) == head > tail /\ size - head < need /\ tail >= need

CarveAfterPad(need) ==
  /\ used > 0
  /\ FitsAfterPad(need)
  /\ hdr' = Stamp(Stamp(hdr, head, size - head, TRUE), 0, need, FALSE)
  /\ head' = Wrap(need)
  /\ used' = used + (size - head) + need
  /\ regions' = regions \cup {head, 0}
  /\ UNCHANGED tail

RingAlloc(n) ==
  /\ mu = "free"
  /\ \/ CarveEmpty(Need(n))
     \/ CarveAtHead(Need(n))
     \/ CarveAfterPad(Need(n))
  /\ UNCHANGED <<size, mu>>

\* Where RingAlloc puts the region it carves.
AllocOffset(need) == IF used = 0 \/ FitsAfterPad(need) THEN 0 ELSE head

\* ring_alloc has room for a payload of n bytes.
HasRoom(n) ==
  /\ Need(n) <= size
  /\ used = 0 \/ FitsAtHead(Need(n)) \/ FitsAfterPad(Need(n))
-----------------------------------------------------------------------------
(***************************************************************************)
(* ring_release.  The region is marked freed under the mutex; each turn of *)
(* the loop retires the region at the tail if it is freed.                 *)
(***************************************************************************)
RingRelease(o) ==
  /\ mu = "free"
  /\ o \in Live
  /\ hdr' = [hdr EXCEPT ![o] = [size |-> @.size, freed |-> TRUE]]
  /\ mu' = "retiring"
  /\ UNCHANGED <<size, head, tail, used, regions>>

RetireTail ==
  /\ mu = "retiring"
  /\ used > 0
  /\ hdr[tail].freed
  /\ used' = used - hdr[tail].size
  /\ tail' = (IF tail + hdr[tail].size >= size THEN 0 ELSE tail + hdr[tail].size)
  /\ regions' = regions \ {tail}
  /\ UNCHANGED <<size, head, hdr, mu>>

\* Faulty variant: one region retired per release, an if for the while.
RetireStopAnyTime ==
  /\ mu = "retiring"
  /\ mu' = "free"
  /\ head' = (IF used = 0 THEN 0 ELSE head)
  /\ tail' = (IF used = 0 THEN 0 ELSE tail)
  /\ UNCHANGED <<size, used, hdr, regions>>

RetireStop ==
  /\ mu = "retiring"
  /\ used > 0 => ~hdr[tail].freed
  /\ mu' = "free"
  /\ head' = (IF used = 0 THEN 0 ELSE head)
  /\ tail' = (IF used = 0 THEN 0 ELSE tail)
  /\ UNCHANGED <<size, used, hdr, regions>>

\* Faulty variant of RingGrow: the ring moves while packets still point into it.
RingGrowInUse ==
  /\ mu = "free"
  /\ \E want \in GrowSizes : want > size /\ size' = want
  /\ head' = 0
  /\ tail' = 0
  /\ hdr' = [p \in {} |-> [size |-> 1, freed |-> TRUE]]
  /\ UNCHANGED <<used, mu, regions>>

(***************************************************************************)
(* packet_queue_use_ring on a ring that exists: an idle ring moves to a    *)
(* larger store.  The halving loop ends at any size malloc grants, as long *)
(* as it is larger than the old one.  The new store holds no header.       *)
(***************************************************************************)
RingGrow ==
  /\ mu = "free"
  /\ used = 0
  /\ \E want \in GrowSizes : want > size /\ size' = want
  /\ head' = 0
  /\ tail' = 0
  /\ hdr' = [p \in {} |-> [size |-> 1, freed |-> TRUE]]
  /\ UNCHANGED <<used, mu, regions>>
-----------------------------------------------------------------------------
Alloc == \E n \in PayloadSizes : RingAlloc(n)
Release == \E o \in Live : RingRelease(o)

RingNext == Alloc \/ Release \/ RetireTail \/ RetireStop \/ RingGrow

RingSpec == RingInit /\ [][RingNext]_ringVars
-----------------------------------------------------------------------------
(* Properties *)

RingTypeOK ==
  /\ size \in Nat \ {0}
  /\ head \in 0 .. (size - 1)
  /\ tail \in 0 .. (size - 1)
  /\ used \in 0 .. size
  /\ mu \in {"free", "retiring"}
  /\ regions \subseteq 0 .. (size - 1)
  /\ regions \subseteq DOMAIN hdr
  /\ \A o \in DOMAIN hdr : hdr[o] \in Header

RegionEnd(o) == o + hdr[o].size

(***************************************************************************)
(* Two packets never share a byte of the store: the regions that hold      *)
(* packets or pads are disjoint and inside it.  Wrong arithmetic at the    *)
(* wrap, or a pad not accounted for, breaks it only after the ring has     *)
(* gone round with the right mix of packet sizes.                          *)
(***************************************************************************)
RegionsDisjoint ==
  /\ \A o \in regions : RegionEnd(o) <= size
  /\ \A o, p \in regions : o # p => RegionEnd(o) <= p \/ RegionEnd(p) <= o

(***************************************************************************)
(* The ring leaks nothing: whenever no thread is inside ring_release, a    *)
(* ring whose packets have all been freed is empty, whatever the order     *)
(* they were freed in, so its pads never pin it.                           *)
(***************************************************************************)
NothingLeaks == (mu = "free" /\ Live = {}) => used = 0

(***************************************************************************)
(* A packet's header and region survive every step until the packet itself *)
(* is released: no later allocation, release or growth disturbs them.      *)
(***************************************************************************)
LivePacketsUndisturbed ==
  [][\A o \in Live : o \in regions' /\ o \in DOMAIN hdr' /\
       hdr'[o].size = hdr[o].size]_ringVars
=============================================================================
