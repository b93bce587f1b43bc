-------------------------- MODULE PacketRing_proofs --------------------------
(***************************************************************************)
(* The packet ring is safe for every size of store and every mix of packet *)
(* sizes.  The argument counts offsets from the tail: seen from there the  *)
(* regions form a chain without gap or overlap that is exactly `used`      *)
(* units long, and the head is where the chain ends.                       *)
(***************************************************************************)
EXTENDS PacketRing, TLAPS

\* Distance of o from the tail t, going round a store of N units.
Rel(N, t, o) == IF o >= t THEN o - t ELSE N - t + o

\* Where a chain of u units that starts at t ends.
ChainEnd(N, t, u) == IF t + u >= N THEN t + u - N ELSE t + u

\* The regions R with headers h form a chain of u units from t.
Chain(N, t, u, R, h) ==
  /\ R \subseteq 0 .. (N - 1)
  /\ R \subseteq DOMAIN h
  /\ \A o \in DOMAIN h : h[o] \in Header
  /\ u = 0 => R = {}
  /\ u > 0 => t \in R
  /\ \A o \in R : o + h[o].size <= N /\ Rel(N, t, o) + h[o].size <= u
  /\ \A o \in R : Rel(N, t, o) + h[o].size < u =>
       (IF o + h[o].size = N THEN 0 ELSE o + h[o].size) \in R
  /\ \A o, p \in R : o # p =>
       \/ Rel(N, t, o) + h[o].size <= Rel(N, t, p)
       \/ Rel(N, t, p) + h[p].size <= Rel(N, t, o)

(* The inductive invariant. *)
RingInv ==
  /\ size \in Nat \ {0}
  /\ tail \in 0 .. (size - 1)
  /\ used \in 0 .. size
  /\ head = ChainEnd(size, tail, used)
  /\ mu \in {"free", "retiring"}
  /\ Chain(size, tail, used, regions, hdr)
  /\ (mu = "free" /\ used > 0) => ~hdr[tail].freed
-----------------------------------------------------------------------------
(* A packet of at least one byte needs at least one unit. *)
LEMMA NeedPositive ==
  ASSUME NEW n \in PayloadSizes
  PROVE  Need(n) \in Nat \ {0}
<1>1. n \in Nat \ {0}
  BY PayloadAssumption
<1> QED
  BY <1>1 DEF Need, RING_HDR, RING_ALIGN, PADDING

(* Stamping a header leaves well-formed headers and stands at its offset. *)
LEMMA StampFacts ==
  ASSUME NEW h, NEW o \in Nat, NEW len \in Nat \ {0}, NEW f \in BOOLEAN,
         \A p \in DOMAIN h : h[p] \in Header
  PROVE  /\ \A p \in DOMAIN Stamp(h, o, len, f) : Stamp(h, o, len, f)[p] \in Header
         /\ o \in DOMAIN Stamp(h, o, len, f)
         /\ Stamp(h, o, len, f)[o] = [size |-> len, freed |-> f]
<1> DEFINE g == Stamp(h, o, len, f)
           D == (DOMAIN h \ (o + 1) .. (o + len - 1)) \cup {o}
<1>1. /\ DOMAIN g = D
      /\ \A p \in D : g[p] = IF p = o THEN [size |-> len, freed |-> f] ELSE h[p]
  BY DEF Stamp
<1>2. [size |-> len, freed |-> f] \in Header
  BY DEF Header
<1> QED
  BY <1>1, <1>2

(* A header outside the stamped region survives. *)
LEMMA StampKeeps ==
  ASSUME NEW h, NEW o \in Nat, NEW len \in Nat \ {0}, NEW f \in BOOLEAN,
         NEW p \in DOMAIN h, p \in Nat, p < o \/ p >= o + len
  PROVE  /\ p \in DOMAIN Stamp(h, o, len, f)
         /\ Stamp(h, o, len, f)[p] = h[p]
<1> DEFINE D == (DOMAIN h \ (o + 1) .. (o + len - 1)) \cup {o}
<1>1. p \in D /\ p # o
  OBVIOUS
<1> QED
  BY <1>1 DEF Stamp

(* A region of len units fits at the end e of the chain; S and g are the  *)
(* regions and the headers once it is carved there.                       *)
Appends(N, t, u, R, h, e, len, f, S, g) ==
  /\ N \in Nat \ {0} /\ t \in 0 .. (N - 1) /\ u \in 1 .. (N - 1)
  /\ e \in Nat /\ len \in Nat \ {0} /\ f \in BOOLEAN
  /\ e = ChainEnd(N, t, u)
  /\ Chain(N, t, u, R, h)
  /\ IF e > t THEN e + len <= N ELSE e + len <= t
  /\ S = R \cup {e}
  /\ g = Stamp(h, e, len, f)

Appended(N, t, u, e, len, S, h, g) ==
  /\ Chain(N, t, u + len, S, g)
  /\ u + len \in 0 .. N
  /\ ChainEnd(N, t, u + len) = (IF e + len = N THEN 0 ELSE e + len)
  /\ g[t] = h[t]

(***************************************************************************)
(* Carving a region at the end of the chain extends the chain by it, as    *)
(* long as the region stops at the end of the store, or at the tail when   *)
(* the chain has already wrapped.                                          *)
(***************************************************************************)
LEMMA AppendRegion ==
  ASSUME NEW N, NEW t, NEW u, NEW R, NEW h, NEW e, NEW len, NEW f, NEW S, NEW g,
         Appends(N, t, u, R, h, e, len, f, S, g)
  PROVE  Appended(N, t, u, e, len, S, h, g)
<1>0. /\ N \in Nat \ {0} /\ t \in 0 .. (N - 1) /\ u \in 1 .. (N - 1)
      /\ e \in Nat /\ len \in Nat \ {0} /\ f \in BOOLEAN
      /\ e = ChainEnd(N, t, u)
      /\ Chain(N, t, u, R, h)
      /\ IF e > t THEN e + len <= N ELSE e + len <= t
      /\ S = R \cup {e}
      /\ g = Stamp(h, e, len, f)
  BY DEF Appends
<1> USE <1>0
<1>1. /\ e \in 0 .. (N - 1)
      /\ e # t
      /\ Rel(N, t, e) = u
  BY DEF ChainEnd, Rel
<1>2. u + len \in 0 .. N /\ ChainEnd(N, t, u + len) = (IF e + len = N THEN 0 ELSE e + len)
  BY <1>1 DEF ChainEnd
<1>3. \A o \in R : /\ o \in 0 .. (N - 1)
                   /\ o \in DOMAIN h
                   /\ h[o].size \in Nat \ {0}
                   /\ o + h[o].size <= N
                   /\ Rel(N, t, o) + h[o].size <= u
                   /\ Rel(N, t, o) \in Nat
  BY DEF Chain, Header, Rel
<1>4. \A o \in R : o < e \/ o >= e + len
  BY <1>1, <1>3 DEF Rel, ChainEnd
<1>5. /\ \A p \in DOMAIN g : g[p] \in Header
      /\ e \in DOMAIN g
      /\ g[e] = [size |-> len, freed |-> f]
      /\ \A o \in R : o \in DOMAIN g /\ g[o] = h[o]
  <2>1. \A p \in DOMAIN h : h[p] \in Header
    BY DEF Chain
  <2>2. e \in Nat
    BY <1>1
  <2>3. ASSUME NEW p \in DOMAIN h, p \in Nat, p < e \/ p >= e + len
        PROVE  p \in DOMAIN g /\ g[p] = h[p]
    BY <1>1, <2>3, StampKeeps
  <2>4. \A o \in R : o \in DOMAIN g /\ g[o] = h[o]
    BY <1>3, <1>4, <2>3
  <2> QED
    BY <2>1, <2>2, <2>4, StampFacts
<1>6. t \in R
  BY DEF Chain
<1>7. g[e].size = len
  BY <1>5
<1>8. \A o \in R : Rel(N, t, o) + h[o].size = u =>
        (IF o + h[o].size = N THEN 0 ELSE o + h[o].size) = e
  BY <1>1, <1>3 DEF Rel, ChainEnd
<1>9. Chain(N, t, u + len, S, g)
  <2>1. S \subseteq 0 .. (N - 1) /\ S \subseteq DOMAIN g /\ t \in S /\ u + len # 0
    BY <1>1, <1>3, <1>5, <1>6
  <2>2. \A o \in S : o + g[o].size <= N /\ Rel(N, t, o) + g[o].size <= u + len
    <3>1. \A o \in R : o + g[o].size <= N /\ Rel(N, t, o) + g[o].size <= u + len
      BY <1>3, <1>5
    <3>2. e + g[e].size <= N /\ Rel(N, t, e) + g[e].size <= u + len
      BY <1>1, <1>7
    <3> QED
      BY <3>1, <3>2
  <2>3. \A o \in S : Rel(N, t, o) + g[o].size < u + len =>
          (IF o + g[o].size = N THEN 0 ELSE o + g[o].size) \in S
    <3>1. ASSUME NEW o \in R
          PROVE  (IF o + g[o].size = N THEN 0 ELSE o + g[o].size) \in S
      <4>1. g[o] = h[o]
        BY <1>5
      <4>2. CASE Rel(N, t, o) + h[o].size = u
        BY <4>1, <4>2, <1>8
      <4>3. CASE Rel(N, t, o) + h[o].size < u
        BY <4>1, <4>3 DEF Chain
      <4> QED
        BY <4>2, <4>3, <1>3
    <3>2. ~(Rel(N, t, e) + g[e].size < u + len)
      BY <1>1, <1>7
    <3> QED
      BY <3>1, <3>2
  <2>4. \A o, p \in S : o # p =>
          \/ Rel(N, t, o) + g[o].size <= Rel(N, t, p)
          \/ Rel(N, t, p) + g[p].size <= Rel(N, t, o)
    <3>1. \A o, p \in R : o # p =>
            \/ Rel(N, t, o) + g[o].size <= Rel(N, t, p)
            \/ Rel(N, t, p) + g[p].size <= Rel(N, t, o)
      BY <1>5 DEF Chain
    <3>2. \A o \in R : Rel(N, t, o) + g[o].size <= Rel(N, t, e)
      BY <1>1, <1>3, <1>5
    <3> QED
      BY <3>1, <3>2
  <2> QED
    BY <2>1, <2>2, <2>3, <2>4, <1>5 DEF Chain
<1> QED
  BY <1>2, <1>5, <1>6, <1>9 DEF Appended
-----------------------------------------------------------------------------
(* An empty ring takes its first region at offset 0. *)
LEMMA CarveEmptyStep ==
  ASSUME RingInv, NEW need \in Nat \ {0}, CarveEmpty(need), UNCHANGED <<size, mu>>
  PROVE  RingInv'
<1> DEFINE f == FALSE
           g == Stamp(hdr, 0, need, f)
<1>1. regions' = {0}
  BY DEF RingInv, Chain, CarveEmpty
<1>3. hdr' = g /\ used' = need /\ tail' = 0 /\ need <= size
  BY DEF CarveEmpty
<1>f. f \in BOOLEAN
  OBVIOUS
<1> HIDE DEF f
<1>h. \A p \in DOMAIN hdr : hdr[p] \in Header
  BY DEF RingInv, Chain
<1>2. /\ \A p \in DOMAIN g : g[p] \in Header
      /\ 0 \in DOMAIN g
      /\ g[0] = [size |-> need, freed |-> f]
  BY <1>f, <1>h, StampFacts
<1> HIDE DEF g
<1>4. Chain(size', tail', used', regions', hdr')
  BY <1>1, <1>2, <1>3 DEF Chain, Rel, RingInv
<1>5. head' = ChainEnd(size', tail', used')
  BY <1>3 DEF ChainEnd, CarveEmpty, RingInv
<1>6. ~hdr'[tail'].freed
  BY <1>2, <1>3 DEF f
<1> QED
  BY <1>3, <1>4, <1>5, <1>6 DEF RingInv

(* A region carved at the head extends the chain. *)
LEMMA CarveAtHeadStep ==
  ASSUME RingInv, mu = "free", NEW need \in Nat \ {0}, CarveAtHead(need),
         UNCHANGED <<size, mu>>
  PROVE  RingInv'
<1>1. /\ size \in Nat \ {0} /\ tail \in 0 .. (size - 1) /\ used \in 1 .. size
      /\ head = ChainEnd(size, tail, used)
      /\ Chain(size, tail, used, regions, hdr)
  BY DEF RingInv, CarveAtHead
<1>2. head # tail /\ (IF head > tail THEN head + need <= size ELSE head + need <= tail)
  BY <1>1 DEF CarveAtHead, FitsAtHead, ChainEnd
<1>3. used \in 1 .. (size - 1)
  BY <1>1, <1>2 DEF ChainEnd
<1> DEFINE f == FALSE
<1>f. f \in BOOLEAN
  OBVIOUS
<1>n. hdr' = Stamp(hdr, head, need, f) /\ regions' = regions \cup {head}
  BY DEF CarveAtHead
<1> HIDE DEF f
<1>h. head \in Nat
  BY <1>1 DEF ChainEnd
<1>4. /\ Chain(size, tail, used + need, regions', hdr')
      /\ used + need \in 0 .. size
      /\ ChainEnd(size, tail, used + need) = (IF head + need = size THEN 0 ELSE head + need)
      /\ hdr'[tail] = hdr[tail]
  <2>1. Appends(size, tail, used, regions, hdr, head, need, f, regions', hdr')
    BY <1>1, <1>2, <1>3, <1>f, <1>n, <1>h DEF Appends
  <2> QED
    BY <2>1, AppendRegion DEF Appended
<1>5. ~hdr[tail].freed
  BY <1>1 DEF RingInv
<1> QED
  BY <1>1, <1>4, <1>5, <1>n DEF RingInv, CarveAtHead, Wrap

(* A pad and a region behind it extend the chain twice. *)
LEMMA CarveAfterPadStep ==
  ASSUME RingInv, mu = "free", NEW need \in Nat \ {0}, CarveAfterPad(need),
         UNCHANGED <<size, mu>>
  PROVE  RingInv'
<1> DEFINE pad == size - head
           padded == TRUE
           live == FALSE
           g == Stamp(hdr, head, pad, padded)
           S == regions \cup {head}
<1>1. /\ size \in Nat \ {0} /\ tail \in 0 .. (size - 1) /\ used \in 1 .. size
      /\ head = ChainEnd(size, tail, used)
      /\ Chain(size, tail, used, regions, hdr)
      /\ ~hdr[tail].freed
  BY DEF RingInv, CarveAfterPad
<1>2. head \in Nat /\ head > tail /\ need <= tail
  BY <1>1 DEF CarveAfterPad, FitsAfterPad, ChainEnd
<1>3. used \in 1 .. (size - 1) /\ head \in 1 .. (size - 1)
  BY <1>1, <1>2 DEF ChainEnd
<1>4. pad \in Nat \ {0} /\ head + pad = size
  BY <1>1, <1>3
<1>5. /\ hdr' = Stamp(g, 0, need, live)
      /\ used' = (used + pad) + need
      /\ regions' = S \cup {0}
      /\ head' = (IF need = size THEN 0 ELSE need)
      /\ tail' = tail
  BY DEF CarveAfterPad, Wrap
<1>6. padded \in BOOLEAN /\ live \in BOOLEAN /\ S = regions \cup {head}
      /\ g = Stamp(hdr, head, pad, padded)
  OBVIOUS
<1> HIDE DEF pad, padded, live, g, S
<1>7. /\ Chain(size, tail, used + pad, S, g)
      /\ ChainEnd(size, tail, used + pad) = (IF head + pad = size THEN 0 ELSE head + pad)
      /\ g[tail] = hdr[tail]
  <2>1. IF head > tail THEN head + pad <= size ELSE head + pad <= tail
    BY <1>1, <1>2, <1>4
  <2>2. Appends(size, tail, used, regions, hdr, head, pad, padded, S, g)
    BY <1>1, <1>2, <1>3, <1>4, <1>6, <2>1 DEF Appends
  <2> QED
    BY <2>2, AppendRegion DEF Appended
<1>8. used + pad \in 1 .. (size - 1)
  BY <1>1, <1>2, <1>3, <1>4 DEF ChainEnd
<1>9. /\ Chain(size, tail, (used + pad) + need, regions', hdr')
      /\ (used + pad) + need \in 0 .. size
      /\ ChainEnd(size, tail, (used + pad) + need) = (IF 0 + need = size THEN 0 ELSE 0 + need)
      /\ hdr'[tail] = g[tail]
  <2>1. 0 = ChainEnd(size, tail, used + pad) /\ 0 \in Nat
    BY <1>4, <1>7
  <2>2. IF 0 > tail THEN 0 + need <= size ELSE 0 + need <= tail
    BY <1>1, <1>2
  <2>3. hdr' = Stamp(g, 0, need, live) /\ regions' = S \cup {0}
    BY <1>5
  <2>4. Appends(size, tail, used + pad, S, g, 0, need, live, regions', hdr')
    BY <1>1, <1>6, <1>7, <1>8, <2>1, <2>2, <2>3, Zenon DEF Appends
  <2> QED
    BY <2>4, AppendRegion DEF Appended
<1> QED
  BY <1>1, <1>5, <1>7, <1>9 DEF RingInv

(* ring_release marks a header; no region moves. *)
LEMMA ReleaseStep ==
  ASSUME RingInv, NEW o \in Live, RingRelease(o)
  PROVE  RingInv'
<1>1. o \in regions /\ o \in DOMAIN hdr
  BY DEF Live, RingInv, Chain
<1>2. /\ DOMAIN hdr' = DOMAIN hdr
      /\ \A p \in DOMAIN hdr : hdr'[p] \in Header /\ hdr'[p].size = hdr[p].size
  BY <1>1 DEF RingRelease, RingInv, Chain, Header
<1>3. Chain(size', tail', used', regions', hdr')
  BY <1>2 DEF RingInv, Chain, RingRelease
<1> QED
  BY <1>3 DEF RingInv, RingRelease

(* Retiring a freed tail takes the first region off the chain. *)
LEMMA RetireTailStep ==
  ASSUME RingInv, RetireTail
  PROVE  RingInv'
<1> DEFINE s == hdr[tail].size
<1>1. /\ size \in Nat \ {0} /\ tail \in 0 .. (size - 1) /\ used \in 1 .. size
      /\ head = ChainEnd(size, tail, used)
      /\ tail \in regions
      /\ \A o \in regions : /\ o \in 0 .. (size - 1)
                            /\ o \in DOMAIN hdr
                            /\ hdr[o].size \in Nat \ {0}
                            /\ o + hdr[o].size <= size
                            /\ Rel(size, tail, o) + hdr[o].size <= used
  BY DEF RingInv, RetireTail, Chain, Header
<1>2. s \in Nat \ {0} /\ tail + s <= size /\ s <= used /\ Rel(size, tail, tail) = 0
  BY <1>1 DEF Rel
<1>3. tail' = (IF tail + s = size THEN 0 ELSE tail + s)
  BY <1>1, <1>2 DEF RetireTail
<1>4. used' = used - s /\ regions' = regions \ {tail} /\ size' = size /\ hdr' = hdr
  BY DEF RetireTail
<1> HIDE DEF s
<1>5. tail' \in 0 .. (size - 1) /\ used' \in 0 .. size
  BY <1>1, <1>2, <1>3, <1>4
<1>6. head' = ChainEnd(size, tail', used')
  BY <1>1, <1>2, <1>3, <1>4 DEF ChainEnd, RetireTail
<1>7. \A o \in regions' : /\ o \in regions
                          /\ Rel(size, tail, o) >= s
                          /\ Rel(size, tail', o) = Rel(size, tail, o) - s
  <2> SUFFICES ASSUME NEW o \in regions, o # tail
               PROVE  /\ Rel(size, tail, o) >= s
                      /\ Rel(size, tail', o) = Rel(size, tail, o) - s
    BY <1>4
  <2>1. Rel(size, tail, o) >= s
    <3>1. \/ Rel(size, tail, o) + hdr[o].size <= Rel(size, tail, tail)
          \/ Rel(size, tail, tail) + hdr[tail].size <= Rel(size, tail, o)
      BY <1>1 DEF RingInv, Chain
    <3>2. Rel(size, tail, o) \in Nat
      BY <1>1 DEF Rel
    <3> QED
      BY <3>1, <3>2, <1>1, <1>2 DEF s
  <2>2. o + hdr[o].size <= size /\ o \in 0 .. (size - 1)
    BY <1>1
  <2> QED
    BY <2>1, <2>2, <1>1, <1>2, <1>3 DEF Rel
<1>8. Chain(size, tail', used', regions', hdr)
  <2>1. regions' \subseteq 0 .. (size - 1) /\ regions' \subseteq DOMAIN hdr
    BY <1>1, <1>4
  <2>2. used' = 0 => regions' = {}
    <3> SUFFICES ASSUME used' = 0, NEW o \in regions'
                 PROVE  FALSE
      OBVIOUS
    <3>1. o \in regions /\ Rel(size, tail, o) >= s
      BY <1>7
    <3>2. hdr[o].size \in Nat \ {0} /\ Rel(size, tail, o) + hdr[o].size <= used
      BY <1>1, <3>1
    <3>3. Rel(size, tail, o) \in Nat
      BY <1>1, <3>1 DEF Rel
    <3> QED
      BY <3>1, <3>2, <3>3, <1>1, <1>2, <1>4
  <2>3. used' > 0 => tail' \in regions'
    <3> SUFFICES ASSUME used' > 0
                 PROVE  tail' \in regions'
      OBVIOUS
    <3>1. Rel(size, tail, tail) + hdr[tail].size < used
      BY <1>1, <1>2, <1>4 DEF s
    <3>2. tail' \in regions
      BY <3>1, <1>1, <1>3 DEF RingInv, Chain, s
    <3>3. tail' # tail
      BY <1>1, <1>2, <1>3, <1>4
    <3> QED
      BY <3>2, <3>3, <1>4
  <2>4. \A o \in regions' : o + hdr[o].size <= size /\ Rel(size, tail', o) + hdr[o].size <= used'
    <3> SUFFICES ASSUME NEW o \in regions'
                 PROVE  o + hdr[o].size <= size /\ Rel(size, tail', o) + hdr[o].size <= used'
      OBVIOUS
    <3>1. /\ o \in regions /\ Rel(size, tail', o) = Rel(size, tail, o) - s
      BY <1>7
    <3>2. /\ o + hdr[o].size <= size /\ hdr[o].size \in Nat
          /\ Rel(size, tail, o) + hdr[o].size <= used
          /\ Rel(size, tail, o) \in Nat
      BY <3>1, <1>1 DEF Rel
    <3> QED
      BY <3>1, <3>2, <1>1, <1>2, <1>4
  <2>5. \A o \in regions' : Rel(size, tail', o) + hdr[o].size < used' =>
          (IF o + hdr[o].size = size THEN 0 ELSE o + hdr[o].size) \in regions'
    <3> SUFFICES ASSUME NEW o \in regions', Rel(size, tail', o) + hdr[o].size < used'
                 PROVE  (IF o + hdr[o].size = size THEN 0 ELSE o + hdr[o].size) \in regions'
      OBVIOUS
    <3> DEFINE nxt == IF o + hdr[o].size = size THEN 0 ELSE o + hdr[o].size
    <3>1. /\ o \in regions /\ Rel(size, tail', o) = Rel(size, tail, o) - s
          /\ Rel(size, tail, o) >= s
      BY <1>7
    <3>2. /\ o \in 0 .. (size - 1) /\ o + hdr[o].size <= size /\ hdr[o].size \in Nat \ {0}
          /\ Rel(size, tail, o) \in Nat
      BY <3>1, <1>1 DEF Rel
    <3>3. Rel(size, tail, o) + hdr[o].size < used
      BY <3>1, <3>2, <1>1, <1>2, <1>4
    <3>4. nxt \in regions
      BY <3>1, <3>3 DEF RingInv, Chain
    <3>5. nxt # tail
      BY <3>1, <3>2, <3>3, <1>1, <1>2 DEF Rel
    <3> QED
      BY <3>4, <3>5, <1>4
  <2>6. \A o, p \in regions' : o # p =>
          \/ Rel(size, tail', o) + hdr[o].size <= Rel(size, tail', p)
          \/ Rel(size, tail', p) + hdr[p].size <= Rel(size, tail', o)
    <3> SUFFICES ASSUME NEW o \in regions', NEW p \in regions', o # p
                 PROVE  \/ Rel(size, tail', o) + hdr[o].size <= Rel(size, tail', p)
                        \/ Rel(size, tail', p) + hdr[p].size <= Rel(size, tail', o)
      OBVIOUS
    <3>1. /\ o \in regions /\ Rel(size, tail', o) = Rel(size, tail, o) - s
          /\ p \in regions /\ Rel(size, tail', p) = Rel(size, tail, p) - s
      BY <1>7
    <3>2. \/ Rel(size, tail, o) + hdr[o].size <= Rel(size, tail, p)
          \/ Rel(size, tail, p) + hdr[p].size <= Rel(size, tail, o)
      BY <3>1 DEF RingInv, Chain
    <3>3. /\ Rel(size, tail, o) \in Nat /\ Rel(size, tail, p) \in Nat
          /\ hdr[o].size \in Nat /\ hdr[p].size \in Nat
      BY <3>1, <1>1 DEF Rel
    <3> QED
      BY <3>1, <3>2, <3>3, <1>2
  <2> QED
    BY <2>1, <2>2, <2>3, <2>4, <2>5, <2>6 DEF RingInv, Chain
<1> QED
  BY <1>4, <1>5, <1>6, <1>8 DEF RingInv, RetireTail

(* Leaving the loop rewinds an empty ring. *)
LEMMA RetireStopStep ==
  ASSUME RingInv, RetireStop
  PROVE  RingInv'
<1>1. CASE used = 0
  BY <1>1 DEF RingInv, RetireStop, Chain, ChainEnd
<1>2. CASE used # 0
  <2>1. used > 0 /\ ~hdr[tail].freed
    BY <1>2 DEF RingInv, RetireStop
  <2> QED
    BY <1>2, <2>1 DEF RingInv, RetireStop
<1> QED
  BY <1>1, <1>2

(* An empty store of any size, at offset 0, satisfies the invariant's parts. *)
LEMMA EmptyStore ==
  ASSUME NEW N \in Nat \ {0}, NEW h, \A o \in DOMAIN h : h[o] \in Header
  PROVE  /\ 0 \in 0 .. (N - 1)
         /\ 0 \in 0 .. N
         /\ 0 = ChainEnd(N, 0, 0)
         /\ Chain(N, 0, 0, {}, h)
<1>1. 0 \in 0 .. (N - 1) /\ 0 \in 0 .. N
  OBVIOUS
<1>2. 0 = ChainEnd(N, 0, 0)
  BY DEF ChainEnd
<1>3. Chain(N, 0, 0, {}, h)
  BY DEF Chain
<1> QED
  BY <1>1, <1>2, <1>3

(* A new store is empty. *)
LEMMA GrowStep ==
  ASSUME RingInv, RingGrow
  PROVE  RingInv'
<1>1. size' \in Nat \ {0}
  BY GrowSizesAssumption DEF RingGrow, RingInv
<1>2. used' = 0 /\ tail' = 0 /\ head' = 0
  BY DEF RingGrow, RingInv
<1>3. regions' = {} /\ mu' = "free"
  BY DEF RingGrow, RingInv, Chain
<1>4. \A o \in DOMAIN hdr' : hdr'[o] \in Header
  BY DEF RingGrow
<1>5. /\ 0 \in 0 .. (size' - 1)
      /\ 0 \in 0 .. size'
      /\ 0 = ChainEnd(size', 0, 0)
      /\ Chain(size', 0, 0, {}, hdr')
  BY <1>1, <1>4, EmptyStore
<1>6. ~(0 > 0)
  OBVIOUS
<1> QED
  BY <1>1, <1>2, <1>3, <1>5, <1>6, Zenon DEF RingInv
-----------------------------------------------------------------------------
(* The invariant is inductive. *)
THEOREM RingInvariant == RingSpec => []RingInv
<1>1. RingInit => RingInv
  BY InitSizeAssumption DEF RingInit, RingInv, Chain, ChainEnd
<1>2. RingInv /\ [RingNext]_ringVars => RingInv'
  <2> SUFFICES ASSUME RingInv, [RingNext]_ringVars
               PROVE  RingInv'
    OBVIOUS
  <2>1. ASSUME NEW n \in PayloadSizes, RingAlloc(n)
        PROVE  RingInv'
    BY <2>1, NeedPositive, CarveEmptyStep, CarveAtHeadStep, CarveAfterPadStep DEF RingAlloc
  <2>2. CASE Release
    BY <2>2, ReleaseStep DEF Release
  <2>3. CASE RetireTail
    BY <2>3, RetireTailStep
  <2>4. CASE RetireStop
    BY <2>4, RetireStopStep
  <2>5. CASE RingGrow
    BY <2>5, GrowStep
  <2>6. CASE UNCHANGED ringVars
    BY <2>6 DEF ringVars, RingInv
  <2> QED
    BY <2>1, <2>2, <2>3, <2>4, <2>5, <2>6 DEF RingNext, Alloc
<1> QED
  BY <1>1, <1>2, PTL DEF RingSpec

(* What the ring promises follows from the chain. *)
LEMMA InvImpliesProperties ==
  ASSUME RingInv
  PROVE  RingTypeOK /\ RegionsDisjoint /\ NothingLeaks
<1>1. \A o \in regions : /\ o \in 0 .. (size - 1)
                         /\ hdr[o].size \in Nat \ {0}
                         /\ o + hdr[o].size <= size
                         /\ Rel(size, tail, o) + hdr[o].size <= used
  BY DEF RingInv, Chain, Header
<1>2. RingTypeOK
  BY DEF RingInv, Chain, ChainEnd, RingTypeOK
<1>3. RegionsDisjoint
  <2>1. \A o \in regions : RegionEnd(o) <= size
    BY <1>1 DEF RegionEnd
  <2>2. ASSUME NEW o \in regions, NEW p \in regions, o # p
        PROVE  RegionEnd(o) <= p \/ RegionEnd(p) <= o
    <3>1. \/ Rel(size, tail, o) + hdr[o].size <= Rel(size, tail, p)
          \/ Rel(size, tail, p) + hdr[p].size <= Rel(size, tail, o)
      BY <2>2 DEF RingInv, Chain
    <3>2. size \in Nat /\ tail \in 0 .. (size - 1) /\ used \in 0 .. size
      BY DEF RingInv
    <3> QED
      BY <3>1, <3>2, <1>1, <2>2 DEF Rel, RegionEnd
  <2> QED
    BY <2>1, <2>2 DEF RegionsDisjoint
<1>4. NothingLeaks
  BY DEF RingInv, Chain, NothingLeaks, Live
<1> QED
  BY <1>2, <1>3, <1>4

(* The variables of the ring stay in their ranges. *)
THEOREM RingTypeCorrect == RingSpec => []RingTypeOK
  BY RingInvariant, InvImpliesProperties, PTL

(***************************************************************************)
(* For every store and every mix of packets, no two packets ever share a   *)
(* byte of the store.                                                      *)
(***************************************************************************)
THEOREM RingDisjoint == RingSpec => []RegionsDisjoint
  BY RingInvariant, InvImpliesProperties, PTL

(* A ring whose packets are all freed is empty again. *)
THEOREM RingLeaksNothing == RingSpec => []NothingLeaks
  BY RingInvariant, InvImpliesProperties, PTL
-----------------------------------------------------------------------------
(* A region lies between tail and head, going round the store. *)
LEMMA RegionWithinUse ==
  ASSUME RingInv, NEW o \in regions
  PROVE  /\ o \in DOMAIN hdr /\ o \in Nat
         /\ head > tail => tail <= o /\ o < head
         /\ (used > 0 /\ head < tail) => o < head \/ o >= tail
<1>1. /\ size \in Nat \ {0} /\ tail \in 0 .. (size - 1) /\ used \in 0 .. size
      /\ head = IF tail + used >= size THEN tail + used - size ELSE tail + used
  BY DEF RingInv, ChainEnd
<1>2. /\ o \in DOMAIN hdr /\ o \in 0 .. (size - 1)
      /\ hdr[o].size \in Nat \ {0}
      /\ Rel(size, tail, o) + hdr[o].size <= used
  BY DEF RingInv, Chain, Header
<1>3. IF o >= tail THEN o - tail + hdr[o].size <= used
                   ELSE size - tail + o + hdr[o].size <= used
  BY <1>1, <1>2 DEF Rel
<1> QED
  BY <1>1, <1>2, <1>3

(* What is carved at the head overwrites no header of a region. *)
LEMMA CarveAtHeadKeeps ==
  ASSUME RingInv, NEW need \in Nat \ {0}, CarveAtHead(need), NEW o \in regions
  PROVE  o \in regions' /\ o \in DOMAIN hdr' /\ hdr'[o] = hdr[o]
<1> DEFINE f == FALSE
<1>1. f \in BOOLEAN /\ hdr' = Stamp(hdr, head, need, f)
  BY DEF CarveAtHead
<1>2. head \in Nat /\ tail \in Nat
  BY DEF RingInv, ChainEnd
<1>3. o < head \/ o >= head + need
  BY <1>2, RegionWithinUse DEF CarveAtHead, FitsAtHead
<1>4. o \in DOMAIN hdr /\ o \in Nat
  BY RegionWithinUse
<1> HIDE DEF f
<1>5. o \in DOMAIN hdr' /\ hdr'[o] = hdr[o]
  BY <1>1, <1>2, <1>3, <1>4, StampKeeps
<1> QED
  BY <1>5 DEF CarveAtHead

(* Nor does a pad followed by a region carved at the start of the store. *)
LEMMA CarveAfterPadKeeps ==
  ASSUME RingInv, NEW need \in Nat \ {0}, CarveAfterPad(need), NEW o \in regions
  PROVE  o \in regions' /\ o \in DOMAIN hdr' /\ hdr'[o] = hdr[o]
<1> DEFINE padded == TRUE
           live == FALSE
           pad == size - head
           start == 0
           g == Stamp(hdr, head, pad, padded)
<1>1. start \in Nat /\ padded \in BOOLEAN /\ live \in BOOLEAN /\ hdr' = Stamp(g, start, need, live)
  BY DEF CarveAfterPad
<1>2. head \in Nat /\ tail \in Nat /\ pad \in Nat \ {0}
  BY DEF RingInv, ChainEnd
<1>3. o < head /\ o >= need
  BY <1>2, RegionWithinUse DEF CarveAfterPad, FitsAfterPad
<1>4. o \in DOMAIN hdr /\ o \in Nat
  BY RegionWithinUse
<1>5. o < start \/ o >= start + need
  BY <1>3
<1> HIDE DEF padded, live, pad, start
<1>6. o \in DOMAIN g /\ g[o] = hdr[o]
  BY <1>1, <1>2, <1>3, <1>4, StampKeeps
<1> HIDE DEF g
<1>7. /\ o \in DOMAIN Stamp(g, start, need, live)
      /\ Stamp(g, start, need, live)[o] = g[o]
  <2>1. start \in Nat /\ live \in BOOLEAN /\ need \in Nat \ {0}
    BY <1>1
  <2> QED
    BY <2>1, <1>4, <1>5, <1>6, StampKeeps
<1>8. o \in DOMAIN hdr' /\ hdr'[o] = g[o]
  BY <1>1, <1>7
<1> QED
  BY <1>6, <1>8 DEF CarveAfterPad

(***************************************************************************)
(* For every store and every mix of packets, no step of the ring disturbs  *)
(* the header or the region of a packet that has not been released.        *)
(***************************************************************************)
THEOREM RingUndisturbed == RingSpec => LivePacketsUndisturbed
<1>1. RingInv /\ [RingNext]_ringVars =>
        [\A o \in Live : o \in regions' /\ o \in DOMAIN hdr' /\
           hdr'[o].size = hdr[o].size]_ringVars
  <2> SUFFICES ASSUME RingInv, RingNext, NEW o \in Live
               PROVE  /\ o \in regions' /\ o \in DOMAIN hdr'
                      /\ hdr'[o].size = hdr[o].size
    OBVIOUS
  <2>1. o \in regions /\ o \in DOMAIN hdr /\ ~hdr[o].freed /\ used # 0
    BY DEF Live, RingInv, Chain
  <2>2. ASSUME NEW n \in PayloadSizes, RingAlloc(n)
        PROVE  o \in regions' /\ o \in DOMAIN hdr' /\ hdr'[o] = hdr[o]
    <3>1. ~CarveEmpty(Need(n))
      BY <2>1 DEF CarveEmpty
    <3> QED
      BY <2>1, <2>2, <3>1, NeedPositive, CarveAtHeadKeeps, CarveAfterPadKeeps DEF RingAlloc
  <2>3. ASSUME NEW p \in Live, RingRelease(p)
        PROVE  o \in regions' /\ o \in DOMAIN hdr' /\ hdr'[o].size = hdr[o].size
    BY <2>1, <2>3 DEF RingRelease
  <2>4. CASE RetireTail
    BY <2>1, <2>4 DEF RetireTail
  <2>5. CASE RetireStop
    BY <2>1, <2>5 DEF RetireStop
  <2>6. ~RingGrow
    BY <2>1 DEF RingGrow
  <2> QED
    BY <2>2, <2>3, <2>4, <2>5, <2>6 DEF RingNext, Alloc, Release
<1> QED
  BY <1>1, RingInvariant, PTL DEF RingSpec, LivePacketsUndisturbed
-----------------------------------------------------------------------------
(***************************************************************************)
(* What each operation does to the regions packets point into: an          *)
(* allocation adds one that was not among them, a release takes one away,  *)
(* and the loop that retires regions and the pads touch none.              *)
(***************************************************************************)
LEMMA RingStartsUnused == RingInit => RingInv /\ Live = {}
BY InitSizeAssumption DEF RingInit, RingInv, Chain, ChainEnd, Live

LEMMA LiveInStore == RingInv => Live \subseteq Nat
BY DEF RingInv, Chain, Live

\* The header carved for a region says that it is not freed.
LEMMA StampedLive ==
  ASSUME NEW h, NEW o \in Nat, NEW len \in Nat \ {0}, NEW f \in BOOLEAN
  PROVE  o \in DOMAIN Stamp(h, o, len, f) /\ Stamp(h, o, len, f)[o].freed = f
<1> DEFINE D == (DOMAIN h \ (o + 1) .. (o + len - 1)) \cup {o}
<1>1. o \in D
  OBVIOUS
<1> QED
  BY <1>1 DEF Stamp

LEMMA CarveEmptyLive ==
  ASSUME RingInv, NEW need \in Nat \ {0}, CarveEmpty(need)
  PROVE  AllocOffset(need) = 0 /\ Live = {} /\ Live' = {0}
<1> DEFINE f == FALSE
           o == 0
<1>1. regions = {} /\ regions' = {o} /\ AllocOffset(need) = 0
  BY DEF RingInv, Chain, CarveEmpty, AllocOffset
<1>2. o \in Nat /\ f \in BOOLEAN /\ hdr' = Stamp(hdr, o, need, f)
  BY DEF CarveEmpty
<1> HIDE DEF f, o
<1>3. hdr'[o].freed = f
  BY <1>2, StampedLive
<1> QED
  BY <1>1, <1>3 DEF Live, f, o

LEMMA CarveAtHeadLive ==
  ASSUME RingInv, NEW need \in Nat \ {0}, CarveAtHead(need)
  PROVE  /\ AllocOffset(need) = head /\ head \in Nat /\ head \notin Live
         /\ Live' = Live \cup {head}
<1> DEFINE f == FALSE
<1>1. /\ size \in Nat \ {0} /\ tail \in 0 .. (size - 1) /\ used \in 0 .. size /\ used > 0
      /\ head = ChainEnd(size, tail, used)
  BY DEF RingInv, CarveAtHead
<1>2. head \in Nat
  BY <1>1 DEF ChainEnd
<1>3. head > tail \/ head < tail
  BY <1>1, <1>2 DEF CarveAtHead, FitsAtHead
<1>4. \A o \in regions : o # head
  BY <1>1, <1>2, <1>3, RegionWithinUse
<1>5. AllocOffset(need) = head
  <2>1. ~FitsAfterPad(need)
    BY <1>1, <1>2 DEF CarveAtHead, FitsAtHead, FitsAfterPad
  <2> QED
    BY <1>1, <2>1 DEF AllocOffset
<1>6. f \in BOOLEAN /\ hdr' = Stamp(hdr, head, need, f)
  BY DEF CarveAtHead
<1> HIDE DEF f
<1>7. hdr'[head].freed = f
  BY <1>2, <1>6, StampedLive
<1>8. \A o \in regions : hdr'[o] = hdr[o]
  BY CarveAtHeadKeeps
<1>9. regions' = regions \cup {head}
  BY DEF CarveAtHead
<1> QED
  BY <1>2, <1>4, <1>5, <1>7, <1>8, <1>9 DEF Live, f

LEMMA CarveAfterPadLive ==
  ASSUME RingInv, NEW need \in Nat \ {0}, CarveAfterPad(need)
  PROVE  /\ AllocOffset(need) = 0 /\ 0 \notin Live
         /\ Live' = Live \cup {0}
<1> DEFINE padded == TRUE
           live == FALSE
           pad == size - head
           start == 0
           g == Stamp(hdr, head, pad, padded)
<1>1. /\ start \in Nat /\ padded \in BOOLEAN /\ live \in BOOLEAN
      /\ hdr' = Stamp(g, start, need, live)
      /\ regions' = regions \cup {head, start}
      /\ AllocOffset(need) = start
  BY DEF CarveAfterPad, AllocOffset
<1>2. head \in Nat /\ tail \in Nat /\ head > tail /\ tail >= need /\ pad \in Nat \ {0}
  BY DEF RingInv, ChainEnd, CarveAfterPad, FitsAfterPad
<1>3. \A o \in regions : o >= need /\ o # 0 /\ hdr'[o] = hdr[o]
  BY <1>2, RegionWithinUse, CarveAfterPadKeeps
<1>4. head # 0 /\ head >= start + need
  BY <1>2
<1>5. \A o \in regions : o # start
  BY <1>3
<1> HIDE DEF padded, live, pad, start
<1>6. head \in DOMAIN g /\ g[head].freed = padded
  BY <1>1, <1>2, StampedLive
<1> HIDE DEF g
<1>7. hdr'[head] = g[head]
  <2>1. start \in Nat /\ live \in BOOLEAN /\ head \in DOMAIN g /\ head \in Nat
    BY <1>1, <1>2, <1>6
  <2>2. Stamp(g, start, need, live)[head] = g[head]
    BY <1>4, <2>1, StampKeeps
  <2> QED
    BY <1>1, <2>2
<1>8. hdr'[start].freed = live
  BY <1>1, StampedLive
<1>9. Live' = Live \cup {start} /\ start \notin Live
  BY <1>1, <1>3, <1>5, <1>6, <1>7, <1>8 DEF Live, padded, live
<1> QED
  BY <1>1, <1>9 DEF start

LEMMA AllocOwns ==
  ASSUME RingInv, NEW n \in PayloadSizes, RingAlloc(n)
  PROVE  /\ RingInv'
         /\ AllocOffset(Need(n)) \in Nat /\ AllocOffset(Need(n)) \notin Live
         /\ Live' = Live \cup {AllocOffset(Need(n))}
<1>1. Need(n) \in Nat \ {0} /\ mu = "free" /\ UNCHANGED <<size, mu>>
  BY NeedPositive DEF RingAlloc
<1>2. CASE CarveEmpty(Need(n))
  BY <1>1, <1>2, CarveEmptyStep, CarveEmptyLive
<1>3. CASE CarveAtHead(Need(n))
  BY <1>1, <1>3, CarveAtHeadStep, CarveAtHeadLive
<1>4. CASE CarveAfterPad(Need(n))
  BY <1>1, <1>4, CarveAfterPadStep, CarveAfterPadLive
<1> QED
  BY <1>2, <1>3, <1>4 DEF RingAlloc

LEMMA ReleaseOwns ==
  ASSUME RingInv, NEW o, RingRelease(o)
  PROVE  RingInv' /\ o \in Live /\ Live' = Live \ {o}
<1>1. o \in Live /\ o \in DOMAIN hdr /\ regions \subseteq DOMAIN hdr
  BY DEF RingRelease, Live, RingInv, Chain
<1>2. RingInv'
  BY <1>1, ReleaseStep
<1>3. hdr'[o].freed /\ \A p \in DOMAIN hdr : p # o => hdr'[p] = hdr[p]
  BY <1>1 DEF RingRelease
<1>4. regions' = regions
  BY DEF RingRelease
<1> QED
  BY <1>1, <1>2, <1>3, <1>4 DEF Live

LEMMA LoopOwns ==
  ASSUME RingInv, RetireTail \/ RetireStop
  PROVE  RingInv' /\ Live' = Live
<1>1. RingInv'
  BY RetireTailStep, RetireStopStep
<1>2. Live' = Live
  BY DEF RetireTail, RetireStop, Live
<1> QED
  BY <1>1, <1>2
=============================================================================
