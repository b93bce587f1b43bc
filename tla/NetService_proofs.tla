-------------------------- MODULE NetService_proofs --------------------------
(***************************************************************************)
(* The add-ons' network service, for any number of callers, jobs,          *)
(* addresses, workers and requests: who frees a connect job, which         *)
(* addresses a call has tried, and who has a request.                      *)
(***************************************************************************)
EXTENDS NetConnect, NetRequests, FiniteSetTheorems, TLAPS
-----------------------------------------------------------------------------
(***************************************************************************)
(* What a sequence keeps when one element comes or goes.                   *)
(***************************************************************************)
\* What RemoveAt returns: the positions before the removed one, and those after
\* it one place lower.
LEMMA RemoveAtIs ==
  ASSUME NEW S, NEW s \in Seq(S), NEW i \in 1..Len(s)
  PROVE  /\ RemoveAt(s, i) \in Seq(S) /\ Len(RemoveAt(s, i)) = Len(s) - 1
         /\ \A k \in 1..(Len(s) - 1) : RemoveAt(s, i)[k] = IF k < i THEN s[k] ELSE s[k + 1]
<1> DEFINE l == SubSeq(s, 1, i - 1)
           r == SubSeq(s, i + 1, Len(s))
<1>1. l \in Seq(S) /\ r \in Seq(S) /\ Len(l) = i - 1 /\ Len(r) = Len(s) - i
  OBVIOUS
<1>2. \A k \in 1..(i - 1) : l[k] = s[k]
  OBVIOUS
<1>3. \A k \in 1..(Len(s) - i) : r[k] = s[i + k]
  OBVIOUS
<1> HIDE DEF l, r
<1>4. l \o r \in Seq(S) /\ Len(l \o r) = Len(s) - 1
  BY <1>1
<1>5. \A k \in 1..(i - 1) : (l \o r)[k] = s[k]
  BY <1>1, <1>2
<1>6. \A k \in i..(Len(s) - 1) : (l \o r)[k] = s[k + 1]
  <2> SUFFICES ASSUME NEW k \in i..(Len(s) - 1) PROVE (l \o r)[k] = s[k + 1]
    OBVIOUS
  <2>1. (l \o r)[k] = r[k - (i - 1)]
    BY <1>1
  <2>2. k - (i - 1) \in 1..(Len(s) - i) /\ i + (k - (i - 1)) = k + 1
    OBVIOUS
  <2>3. QED
    BY <1>3, <2>1, <2>2
<1>7. \A k \in 1..(Len(s) - 1) : (l \o r)[k] = IF k < i THEN s[k] ELSE s[k + 1]
  <2> SUFFICES ASSUME NEW k \in 1..(Len(s) - 1)
               PROVE  (l \o r)[k] = IF k < i THEN s[k] ELSE s[k + 1]
    OBVIOUS
  <2>1. CASE k < i
    <3>1. k \in 1..(i - 1)
      BY <2>1
    <3>2. QED
      BY <1>5, <2>1, <3>1
  <2>2. CASE ~(k < i)
    <3>1. k \in i..(Len(s) - 1)
      BY <2>2
    <3>2. QED
      BY <1>6, <2>2, <3>1
  <2>3. QED
    BY <2>1, <2>2
<1>8. QED
  BY <1>4, <1>7 DEF l, r, RemoveAt

\* It loses nothing but what stands there; and from a sequence with nothing
\* twice it takes exactly that.
LEMMA RemovalKeeps ==
  ASSUME NEW S, NEW s \in Seq(S), NEW i \in 1..Len(s)
  PROVE  /\ \A k \in 1..Len(s) : k # i => s[k] \in ToSet(RemoveAt(s, i))
         /\ IsInjective(s) => /\ IsInjective(RemoveAt(s, i))
                              /\ ToSet(RemoveAt(s, i)) \subseteq ToSet(s) \ {s[i]}
<1> DEFINE u == RemoveAt(s, i)
<1>1. /\ u \in Seq(S) /\ Len(u) = Len(s) - 1
      /\ \A k \in 1..(Len(s) - 1) : u[k] = IF k < i THEN s[k] ELSE s[k + 1]
  BY RemoveAtIs
<1> HIDE DEF u
<1>2. DOMAIN u = 1..(Len(s) - 1)
  BY <1>1
<1>3. ASSUME NEW k \in 1..Len(s), k # i PROVE s[k] \in ToSet(u)
  <2>1. CASE k < i
    <3>1. k \in 1..(Len(s) - 1) /\ u[k] = s[k]
      BY <1>1, <2>1
    <3>2. QED
      BY <1>2, <3>1 DEF ToSet
  <2>2. CASE k > i
    <3>1. k - 1 \in 1..(Len(s) - 1) /\ (k - 1) + 1 = k /\ ~(k - 1 < i)
      BY <2>2
    <3>2. u[k - 1] = s[k]
      BY <1>1, <3>1
    <3>3. QED
      BY <1>2, <3>1, <3>2 DEF ToSet
  <2>3. QED
    BY <1>3, <2>1, <2>2
<1>4. ASSUME IsInjective(s)
      PROVE  IsInjective(u) /\ ToSet(u) \subseteq ToSet(s) \ {s[i]}
  <2> DEFINE from(k) == IF k < i THEN k ELSE k + 1
  <2>1. \A k \in 1..(Len(s) - 1) : from(k) \in 1..Len(s) /\ from(k) # i /\ u[k] = s[from(k)]
    BY <1>1
  <2>2. \A k, m \in 1..(Len(s) - 1) : from(k) = from(m) => k = m
    OBVIOUS
  <2> HIDE DEF from
  <2>3. \A k, m \in 1..Len(s) : s[k] = s[m] => k = m
    BY <1>4 DEF IsInjective
  <2>4. IsInjective(u)
    BY <1>2, <2>1, <2>2, <2>3 DEF IsInjective
  <2>5. \A k \in 1..(Len(s) - 1) : u[k] \in ToSet(s) /\ u[k] # s[i]
    BY <2>1, <2>3 DEF ToSet
  <2>6. QED
    BY <1>2, <2>4, <2>5 DEF ToSet
<1>5. QED
  BY <1>3, <1>4 DEF u

\* What Append and Tail leave of a sequence.
LEMMA AppendedIs ==
  ASSUME NEW S, NEW s \in Seq(S), NEW a \in S
  PROVE  /\ Append(s, a) \in Seq(S) /\ ToSet(Append(s, a)) = ToSet(s) \cup {a}
         /\ IsInjective(s) /\ a \notin ToSet(s) => IsInjective(Append(s, a))
<1> DEFINE u == Append(s, a)
<1>1. /\ u \in Seq(S) /\ Len(u) = Len(s) + 1 /\ u[Len(s) + 1] = a
      /\ \A k \in 1..Len(s) : u[k] = s[k]
  OBVIOUS
<1> HIDE DEF u
<1>2. DOMAIN u = 1..(Len(s) + 1) /\ DOMAIN s = 1..Len(s)
  BY <1>1
<1>3. Len(s) + 1 \in DOMAIN u /\ \A k \in DOMAIN s : k \in DOMAIN u
  BY <1>2
<1>4. \A k \in DOMAIN u : k \in DOMAIN s \/ k = Len(s) + 1
  BY <1>2
<1>5. ToSet(u) = ToSet(s) \cup {a}
  BY <1>1, <1>2, <1>3, <1>4 DEF ToSet
<1>6. ASSUME IsInjective(s), a \notin ToSet(s) PROVE IsInjective(u)
  <2>1. \A k \in DOMAIN s : u[k] = s[k] /\ s[k] # a
    BY <1>1, <1>2, <1>6 DEF ToSet
  <2>2. \A k, m \in DOMAIN u : u[k] = u[m] => k = m
    BY <1>1, <1>4, <1>6, <2>1 DEF IsInjective
  <2>3. QED
    BY <2>2 DEF IsInjective
<1>7. QED
  BY <1>1, <1>5, <1>6 DEF u

LEMMA TailIs ==
  ASSUME NEW S, NEW s \in Seq(S), s # <<>>
  PROVE  /\ Tail(s) \in Seq(S) /\ Head(s) \in S
         /\ ToSet(s) = ToSet(Tail(s)) \cup {Head(s)}
         /\ IsInjective(s) => IsInjective(Tail(s)) /\ Head(s) \notin ToSet(Tail(s))
<1> DEFINE u == Tail(s)
<1>1. /\ u \in Seq(S) /\ Len(u) = Len(s) - 1
      /\ \A k \in 1..(Len(s) - 1) : u[k] = s[k + 1]
  OBVIOUS
<1>2. Len(s) \in Nat \ {0} /\ Head(s) = s[1] /\ Head(s) \in S
  OBVIOUS
<1> HIDE DEF u
<1>3. DOMAIN u = 1..(Len(s) - 1) /\ DOMAIN s = 1..Len(s)
  BY <1>1, <1>2
<1>4. ToSet(s) = ToSet(u) \cup {Head(s)}
  <2>1. ASSUME NEW k \in 1..Len(s) PROVE s[k] = Head(s) \/ s[k] \in ToSet(u)
    <3>1. CASE k = 1
      BY <1>2, <3>1
    <3>2. CASE k # 1
      <4>1. k - 1 \in 1..(Len(s) - 1) /\ (k - 1) + 1 = k
        BY <1>2, <3>2
      <4>2. k - 1 \in DOMAIN u /\ u[k - 1] = s[k]
        BY <1>1, <1>3, <4>1
      <4>3. QED
        BY <4>2 DEF ToSet
    <3>3. QED
      BY <3>1, <3>2
  <2>2. \A k \in 1..(Len(s) - 1) : k + 1 \in 1..Len(s) /\ u[k] = s[k + 1]
    BY <1>1, <1>2
  <2>3. 1 \in 1..Len(s)
    BY <1>2
  <2>4. QED
    BY <1>2, <1>3, <2>1, <2>2, <2>3 DEF ToSet
<1>5. ASSUME IsInjective(s) PROVE IsInjective(u) /\ Head(s) \notin ToSet(u)
  <2>1. \A k, m \in 1..Len(s) : s[k] = s[m] => k = m
    BY <1>3, <1>5 DEF IsInjective
  <2>2. \A k \in 1..(Len(s) - 1) : u[k] = s[k + 1] /\ k + 1 \in 1..Len(s) /\ k + 1 # 1
    BY <1>1, <1>2
  <2>3. \A k, m \in 1..(Len(s) - 1) : k + 1 = m + 1 => k = m
    OBVIOUS
  <2>4. \A k, m \in 1..(Len(s) - 1) : u[k] = u[m] => k = m
    BY <2>1, <2>2, <2>3
  <2>5. 1 \in 1..Len(s)
    BY <1>2
  <2>6. \A k \in 1..(Len(s) - 1) : u[k] # s[1]
    BY <2>1, <2>2, <2>5
  <2>7. QED
    BY <1>2, <1>3, <2>4, <2>6 DEF ToSet, IsInjective
<1>6. QED
  BY <1>1, <1>2, <1>4, <1>5 DEF u

-----------------------------------------------------------------------------
(***************************************************************************)
(* Who frees a connect job.  The invariant adds what the two flags under   *)
(* the job's lock say of the thread: it is still at work until `done`, and *)
(* past `done` it is there only for a job that was abandoned before.       *)
(***************************************************************************)
ConnRecords ==
  [pc : {"outside", "look", "wait", "connected", "failed"}, pass : {0, 1}, at : Nat \ {0},
   timedOut : SUBSET Addresses, job : ConnJobs \cup {NoConnJob}]

JobRecords ==
  [live : BOOLEAN, thread : {"none", "connect", "publish", "orphan"}, sock : BOOLEAN,
   done : BOOLEAN, orphan : BOOLEAN]

ConnTypes == /\ conn \in [Callers -> ConnRecords]
             /\ connJobs \in [ConnJobs -> JobRecords]

WaitersHaveJobs ==
  \A c \in Callers : conn[c].pc = "wait" => conn[c].job \in ConnJobs /\ conn[c].at <= Len(List)

\* What the flags tell of the thread.
FlagsAreTrue ==
  \A j \in ConnJobs : connJobs[j].live =>
    /\ ~connJobs[j].done => connJobs[j].thread \in {"connect", "publish"}
    /\ connJobs[j].done /\ ~connJobs[j].orphan => connJobs[j].thread = "none"
    /\ connJobs[j].thread = "orphan" => connJobs[j].orphan

ConnInv == ConnTypes /\ WaitersHaveJobs /\ FlagsAreTrue /\ JobHasOneOwner

\* The initial state satisfies the invariant.
LEMMA ConnStarts == ConnectInit => ConnInv
<1> SUFFICES ASSUME ConnectInit PROVE ConnInv
  OBVIOUS
<1>1. ConnTypes
  BY DEF ConnectInit, ConnTypes, ConnRecords, JobRecords, Outside, FreeConnJob
<1>2. WaitersHaveJobs /\ FlagsAreTrue
  BY DEF ConnectInit, WaitersHaveJobs, FlagsAreTrue, Outside, FreeConnJob
<1>3. JobHasOneOwner
  BY DEF ConnectInit, JobHasOneOwner, WaitsFor, Outside, FreeConnJob
<1>4. QED
  BY <1>1, <1>2, <1>3 DEF ConnInv

\* The records a caller moves to.
LEMMA NextAddressIs ==
  ASSUME ConnTypes, NEW c \in Callers
  PROVE  /\ NextAddress(c) \in ConnRecords /\ NextAddress(c).pc = "look"
         /\ Connected(c) \in ConnRecords /\ Connected(c).pc = "connected"
<1>1. conn[c] \in ConnRecords /\ conn[c].at + 1 \in Nat \ {0}
  BY DEF ConnTypes, ConnRecords
<1>2. QED
  BY <1>1 DEF ConnRecords, NextAddress, Connected

LEMMA WaitingIs ==
  ASSUME ConnTypes, NEW c \in Callers, NEW j \in ConnJobs
  PROVE  /\ Waiting(c, j) \in ConnRecords /\ Waiting(c, j).pc = "wait"
         /\ Waiting(c, j).job = j /\ Waiting(c, j).at = conn[c].at
<1>1. conn[c] \in ConnRecords
  BY DEF ConnTypes
<1>2. QED
  BY <1>1 DEF ConnRecords, Waiting

\* A caller that waits for nothing, before and after, disturbs no job.
LEMMA IdleCallerKeeps ==
  ASSUME ConnInv, NEW c \in Callers, conn[c].pc # "wait",
         NEW r \in ConnRecords, r.pc # "wait",
         conn' = [conn EXCEPT ![c] = r], UNCHANGED connJobs
  PROVE  ConnInv'
<1>1. ConnTypes'
  BY DEF ConnInv, ConnTypes
<1>2. \A d \in Callers, j \in ConnJobs : WaitsFor(d, j)' = WaitsFor(d, j)
  BY DEF ConnInv, ConnTypes, ConnRecords, WaitsFor
<1>3. WaitersHaveJobs' /\ FlagsAreTrue'
  BY DEF ConnInv, ConnTypes, WaitersHaveJobs, FlagsAreTrue
<1>4. JobHasOneOwner'
  BY <1>2 DEF ConnInv, JobHasOneOwner
<1>5. QED
  BY <1>1, <1>3, <1>4 DEF ConnInv

LEMMA BeginKeeps == ASSUME ConnInv, NEW c \in Callers, ConnectBegin(c) PROVE ConnInv'
<1> DEFINE r == [Outside EXCEPT !.pc = "look"]
<1>1. r \in ConnRecords /\ r.pc # "wait"
  BY DEF ConnRecords, Outside
<1>2. conn[c].pc # "wait" /\ conn' = [conn EXCEPT ![c] = r] /\ UNCHANGED connJobs
  BY DEF ConnectBegin
<1> HIDE DEF r
<1>3. QED
  BY <1>1, <1>2, IdleCallerKeeps

LEMMA LookKeeps ==
  ASSUME ConnInv, NEW c \in Callers, PassOver(c) \/ NextPass(c) \/ RunInline(c)
  PROVE  ConnInv'
<1>1. conn[c].pc # "wait" /\ UNCHANGED connJobs
  BY DEF PassOver, NextPass, RunInline
<1>2. PICK r \in ConnRecords : r.pc # "wait" /\ conn' = [conn EXCEPT ![c] = r]
  <2>1. CASE PassOver(c)
    BY <2>1, NextAddressIs DEF PassOver, ConnInv
  <2>2. CASE RunInline(c)
    BY <2>2, NextAddressIs DEF RunInline, ConnInv
  <2>3. CASE NextPass(c)
    <3> DEFINE r == IF conn[c].pass = 0 THEN [conn[c] EXCEPT !.pass = 1, !.at = 1]
                                        ELSE [conn[c] EXCEPT !.pc = "failed"]
    <3>1. conn[c] \in ConnRecords /\ conn[c].pc = "look"
      BY <2>3 DEF NextPass, ConnInv, ConnTypes
    <3>2. r \in ConnRecords /\ r.pc # "wait"
      <4>1. CASE conn[c].pass = 0
        <5>1. PICK p \in {0, 1}, n \in Nat \ {0} : p = 1 /\ n = 1
          OBVIOUS
        <5>2. [conn[c] EXCEPT !.pass = p, !.at = n] \in ConnRecords
          BY <3>1 DEF ConnRecords
        <5>3. [conn[c] EXCEPT !.pass = 1, !.at = 1].pc = "look"
          BY <3>1 DEF ConnRecords
        <5>4. QED
          BY <4>1, <5>1, <5>2, <5>3
      <4>2. CASE conn[c].pass # 0
        BY <3>1, <4>2 DEF ConnRecords
      <4>3. QED
        BY <4>1, <4>2
    <3>3. conn' = [conn EXCEPT ![c] = r]
      BY <2>3 DEF NextPass
    <3>4. QED
      BY <3>2, <3>3
  <2>4. QED
    BY <2>1, <2>2, <2>3
<1>3. QED
  BY <1>1, <1>2, IdleCallerKeeps

\* A new job is its caller's, who waits for it.
LEMMA StartJobKeeps == ASSUME ConnInv, NEW c \in Callers, StartJob(c) PROVE ConnInv'
<1>1. PICK j \in ConnJobs :
        /\ ~connJobs[j].live
        /\ connJobs' = [connJobs EXCEPT ![j] = NewConnJob]
        /\ conn' = [conn EXCEPT ![c] = Waiting(c, j)]
  BY DEF StartJob
<1>2. conn[c].pc = "look" /\ conn[c].at <= Len(List)
  BY DEF StartJob, InList
<1>3. ConnTypes'
  <2>1. NewConnJob \in JobRecords
    BY DEF JobRecords, NewConnJob, FreeConnJob
  <2>2. connJobs' \in [ConnJobs -> JobRecords]
    BY <1>1, <2>1 DEF ConnInv, ConnTypes
  <2>3. conn' \in [Callers -> ConnRecords]
    BY <1>1, WaitingIs DEF ConnInv, ConnTypes
  <2>4. QED
    BY <2>2, <2>3 DEF ConnTypes
<1>4. \A d \in Callers, i \in ConnJobs :
        WaitsFor(d, i)' <=> (d = c /\ i = j) \/ (d # c /\ WaitsFor(d, i))
  BY <1>1, WaitingIs DEF ConnInv, ConnTypes, WaitsFor
<1>5. WaitersHaveJobs'
  BY <1>1, <1>2, WaitingIs DEF ConnInv, ConnTypes, WaitersHaveJobs
<1>6. FlagsAreTrue'
  BY <1>1 DEF ConnInv, ConnTypes, JobRecords, FlagsAreTrue, NewConnJob, FreeConnJob
<1>7. JobHasOneOwner'
  <2>1. connJobs'[j] = NewConnJob /\ \A i \in ConnJobs : i # j => connJobs'[i] = connJobs[i]
    BY <1>1 DEF ConnInv, ConnTypes
  <2>2. ~\E i \in ConnJobs : WaitsFor(c, i)
    BY <1>2 DEF WaitsFor
  <2>3. \A d \in Callers : ~WaitsFor(d, j)
    BY <1>1 DEF ConnInv, JobHasOneOwner
  <2>4. \A d \in Callers : WaitsFor(d, j)' <=> d = c
    BY <1>4, <2>3
  <2>5. \A d \in Callers, i \in ConnJobs : i # j => (WaitsFor(d, i)' <=> WaitsFor(d, i))
    BY <1>4, <2>2
  <2>6. NewConnJob.live /\ ~NewConnJob.orphan
    BY DEF NewConnJob, FreeConnJob
  <2>7. QED
    BY <2>1, <2>4, <2>5, <2>6 DEF ConnInv, JobHasOneOwner
<1>8. QED
  BY <1>3, <1>5, <1>6, <1>7 DEF ConnInv

\* A caller that stops waiting: what changes of who waits for what.
LEMMA WaitEnds ==
  ASSUME ConnTypes, NEW c \in Callers, NEW r \in ConnRecords, r.pc # "wait",
         conn' = [conn EXCEPT ![c] = r]
  PROVE  /\ conn' \in [Callers -> ConnRecords]
         /\ \A d \in Callers, i \in ConnJobs : WaitsFor(d, i)' <=> d # c /\ WaitsFor(d, i)
         /\ WaitersHaveJobs => WaitersHaveJobs'
<1>1. conn' \in [Callers -> ConnRecords]
  BY DEF ConnTypes
<1>2. conn'[c] = r /\ \A d \in Callers : d # c => conn'[d] = conn[d]
  BY DEF ConnTypes
<1>3. QED
  BY <1>1, <1>2 DEF WaitsFor, WaitersHaveJobs

\* A finished job is freed by its caller, and its thread is gone.
LEMMA TakeResultKeeps == ASSUME ConnInv, NEW c \in Callers, TakeResult(c) PROVE ConnInv'
<1>1. PICK j \in ConnJobs :
        /\ WaitsFor(c, j) /\ connJobs[j].done
        /\ connJobs' = [connJobs EXCEPT ![j] = FreeConnJob]
  BY DEF TakeResult, ConnInv, WaitersHaveJobs, WaitsFor
<1>2. PICK r \in ConnRecords : r.pc # "wait" /\ conn' = [conn EXCEPT ![c] = r]
  BY NextAddressIs DEF TakeResult, ConnInv
<1>3. /\ conn' \in [Callers -> ConnRecords]
      /\ \A d \in Callers, i \in ConnJobs : WaitsFor(d, i)' <=> d # c /\ WaitsFor(d, i)
      /\ WaitersHaveJobs'
  BY <1>2, WaitEnds DEF ConnInv
<1>4. FreeConnJob \in JobRecords /\ ~FreeConnJob.live /\ FreeConnJob.thread = "none" /\ ~FreeConnJob.sock
  BY DEF JobRecords, FreeConnJob
<1>5. /\ connJobs' \in [ConnJobs -> JobRecords]
      /\ connJobs'[j] = FreeConnJob /\ \A i \in ConnJobs : i # j => connJobs'[i] = connJobs[i]
  BY <1>1, <1>4 DEF ConnInv, ConnTypes
<1>6. FlagsAreTrue'
  BY <1>4, <1>5 DEF ConnInv, FlagsAreTrue
<1>7. \A d \in Callers : ~WaitsFor(d, j)'
  BY <1>1, <1>3 DEF ConnInv, JobHasOneOwner
<1>8. \A i \in ConnJobs, d \in Callers : i # j => (WaitsFor(d, i)' <=> WaitsFor(d, i))
  BY <1>1, <1>3 DEF WaitsFor
<1>9. JobHasOneOwner'
  BY <1>1, <1>4, <1>5, <1>7, <1>8 DEF ConnInv, JobHasOneOwner
<1>10. QED
  BY <1>3, <1>5, <1>6, <1>9 DEF ConnInv, ConnTypes

\* A job that is not done is left to its thread, which is still at work.
LEMMA TimeOutKeeps == ASSUME ConnInv, NEW c \in Callers, TimeOut(c) PROVE ConnInv'
<1> DEFINE r == [NextAddress(c) EXCEPT !.timedOut = @ \cup {Here(c)}]
<1>1. PICK j \in ConnJobs :
        /\ WaitsFor(c, j) /\ ~connJobs[j].done
        /\ connJobs' = [connJobs EXCEPT ![j].orphan = TRUE]
        /\ conn' = [conn EXCEPT ![c] = r]
  BY DEF TimeOut, ConnInv, WaitersHaveJobs, WaitsFor
<1>2. Here(c) \in Addresses
  BY <1>1, ConnectAssumption DEF ConnInv, ConnTypes, ConnRecords, WaitersHaveJobs, WaitsFor, Here
<1>3. r \in ConnRecords /\ r.pc # "wait"
  BY <1>2, NextAddressIs DEF ConnInv, ConnRecords
<1> HIDE DEF r
<1>4. /\ conn' \in [Callers -> ConnRecords]
      /\ \A d \in Callers, i \in ConnJobs : WaitsFor(d, i)' <=> d # c /\ WaitsFor(d, i)
      /\ WaitersHaveJobs'
  BY <1>1, <1>3, WaitEnds DEF ConnInv
<1>5. /\ connJobs' \in [ConnJobs -> JobRecords]
      /\ connJobs'[j].orphan /\ connJobs'[j].thread = connJobs[j].thread
      /\ connJobs'[j].live = connJobs[j].live /\ connJobs'[j].done = connJobs[j].done
      /\ \A i \in ConnJobs : i # j => connJobs'[i] = connJobs[i]
  BY <1>1 DEF ConnInv, ConnTypes, JobRecords
<1>6. connJobs[j].live /\ connJobs[j].thread \in {"connect", "publish"}
  BY <1>1 DEF ConnInv, JobHasOneOwner, FlagsAreTrue
<1>7. FlagsAreTrue'
  BY <1>5, <1>6 DEF ConnInv, FlagsAreTrue
<1>8. \A d \in Callers : ~WaitsFor(d, j)'
  BY <1>1, <1>4 DEF ConnInv, JobHasOneOwner
<1>9. \A i \in ConnJobs, d \in Callers : i # j => (WaitsFor(d, i)' <=> WaitsFor(d, i))
  BY <1>1, <1>4 DEF WaitsFor
<1>10. JobHasOneOwner'
  BY <1>1, <1>5, <1>6, <1>8, <1>9 DEF ConnInv, JobHasOneOwner
<1>11. QED
  BY <1>4, <1>5, <1>7, <1>10 DEF ConnInv, ConnTypes

\* The thread's steps.
LEMMA JobThreadKeeps == ASSUME ConnInv, NEW j \in ConnJobs, JobThread(j) PROVE ConnInv'
<1>1. conn' = conn /\ \A d \in Callers, i \in ConnJobs : WaitsFor(d, i)' <=> WaitsFor(d, i)
  BY DEF JobThread, ConnectReturns, Publish, FreeOrphan, WaitsFor
<1>2. connJobs[j].live
  BY DEF JobThread, ConnectReturns, Publish, FreeOrphan, ConnInv, JobHasOneOwner
<1>3. WaitersHaveJobs'
  BY <1>1 DEF ConnInv, WaitersHaveJobs
<1>4. CASE ConnectReturns(j)
  <2>1. PICK answered \in BOOLEAN :
          connJobs' = [connJobs EXCEPT ![j].thread = "publish", ![j].sock = answered]
    BY <1>4 DEF ConnectReturns
  <2>2. /\ connJobs' \in [ConnJobs -> JobRecords]
        /\ connJobs'[j].thread = "publish" /\ connJobs'[j].live = connJobs[j].live
        /\ connJobs'[j].done = connJobs[j].done /\ connJobs'[j].orphan = connJobs[j].orphan
        /\ \A i \in ConnJobs : i # j => connJobs'[i] = connJobs[i]
    BY <2>1 DEF ConnInv, ConnTypes, JobRecords
  <2>3. connJobs[j].thread = "connect"
    BY <1>4 DEF ConnectReturns
  <2>4. FlagsAreTrue'
    BY <1>2, <2>2, <2>3 DEF ConnInv, FlagsAreTrue
  <2>5. JobHasOneOwner'
    BY <1>1, <1>2, <2>2 DEF ConnInv, JobHasOneOwner
  <2>6. QED
    BY <1>1, <1>3, <2>2, <2>4, <2>5 DEF ConnInv, ConnTypes
<1>5. CASE Publish(j)
  <2>1. /\ connJobs' \in [ConnJobs -> JobRecords]
        /\ connJobs'[j].thread = IF connJobs[j].orphan THEN "orphan" ELSE "none"
        /\ connJobs'[j].done /\ connJobs'[j].live = connJobs[j].live
        /\ connJobs'[j].orphan = connJobs[j].orphan
        /\ \A i \in ConnJobs : i # j => connJobs'[i] = connJobs[i]
    BY <1>5 DEF Publish, ConnInv, ConnTypes, JobRecords
  <2>2. FlagsAreTrue'
    BY <1>2, <2>1 DEF ConnInv, FlagsAreTrue
  <2>3. JobHasOneOwner'
    BY <1>1, <1>2, <2>1 DEF ConnInv, JobHasOneOwner
  <2>4. QED
    BY <1>1, <1>3, <2>1, <2>2, <2>3 DEF ConnInv, ConnTypes
<1>6. CASE FreeOrphan(j)
  <2>1. FreeConnJob \in JobRecords /\ ~FreeConnJob.live /\ FreeConnJob.thread = "none" /\ ~FreeConnJob.sock
    BY DEF JobRecords, FreeConnJob
  <2>2. /\ connJobs' \in [ConnJobs -> JobRecords] /\ connJobs'[j] = FreeConnJob
        /\ \A i \in ConnJobs : i # j => connJobs'[i] = connJobs[i]
    BY <1>6, <2>1 DEF FreeOrphan, ConnInv, ConnTypes
  <2>3. connJobs[j].orphan
    BY <1>2, <1>6 DEF FreeOrphan, ConnInv, FlagsAreTrue
  <2>4. \A d \in Callers : ~WaitsFor(d, j)
    BY <2>3 DEF ConnInv, JobHasOneOwner
  <2>5. FlagsAreTrue'
    BY <2>1, <2>2 DEF ConnInv, FlagsAreTrue
  <2>6. JobHasOneOwner'
    BY <1>1, <2>1, <2>2, <2>4 DEF ConnInv, JobHasOneOwner
  <2>7. QED
    BY <1>1, <1>3, <2>2, <2>5, <2>6 DEF ConnInv, ConnTypes
<1>7. QED
  BY <1>4, <1>5, <1>6 DEF JobThread

LEMMA ConnKeeps == ConnInv /\ [ConnectNext]_connVars => ConnInv'
<1> SUFFICES ASSUME ConnInv, [ConnectNext]_connVars PROVE ConnInv'
  OBVIOUS
<1>1. ASSUME NEW c \in Callers, ConnectBegin(c) \/ Caller(c) PROVE ConnInv'
  BY <1>1, BeginKeeps, LookKeeps, StartJobKeeps, TakeResultKeeps, TimeOutKeeps DEF Caller
<1>2. ASSUME NEW j \in ConnJobs, JobThread(j) PROVE ConnInv'
  BY <1>2, JobThreadKeeps
<1>3. CASE Expire \/ UNCHANGED connVars
  <2>1. conn' = conn /\ connJobs' = connJobs
    BY <1>3 DEF Expire, connVars
  <2>2. QED
    BY <2>1 DEF ConnInv, ConnTypes, WaitersHaveJobs, FlagsAreTrue, JobHasOneOwner, WaitsFor
<1>4. QED
  BY <1>1, <1>2, <1>3 DEF ConnectNext

\* Every connect job has exactly one who frees it and its socket, the caller or
\* the thread, whenever the caller's wait runs out (evo_net.c, conn_job_run and
\* connect_on_thread).
THEOREM JobsAreFreedOnce == ConnectSpec => []JobHasOneOwner
<1>1. ConnInv => JobHasOneOwner
  BY DEF ConnInv
<1>2. QED
  BY <1>1, ConnStarts, ConnKeeps, PTL DEF ConnectSpec
-----------------------------------------------------------------------------
(***************************************************************************)
(* Which addresses a call has tried.  What the calls share is the list of  *)
(* marks, and any of them may change it between two looks of another; so   *)
(* the invariant says of each address behind a call's cursor that it was   *)
(* tried, or is still marked, or lost its mark during the call.            *)
(***************************************************************************)
MarkTypes == /\ bad \in Seq(Addresses)
             /\ tries \in [Callers -> SUBSET Addresses]
             /\ lifted \in [Callers -> SUBSET Addresses]

\* Behind the cursor of the first pass, and everywhere once the second began.
Behind(c, i) == conn[c].pass = 1 \/ i < conn[c].at
Settled(c, a) == a \in tries[c] \/ a \in lifted[c]

SweepSound(c) ==
  /\ \A i \in 1..Len(List) : Behind(c, i) => Settled(c, List[i]) \/ List[i] \in ToSet(bad)
  /\ \A i \in 1..Len(List) : conn[c].pass = 1 /\ i < conn[c].at => Settled(c, List[i])
  /\ conn[c].timedOut \subseteq tries[c]
  /\ conn[c].pc = "wait" => Here(c) \in tries[c]
  /\ conn[c].pc = "failed" => conn[c].pass = 1 /\ conn[c].at > Len(List)

SweepInv == MarkTypes /\ \A c \in Callers : SweepSound(c)

\* No address loses its mark unseen: every call has it among the lifted ones.
MarksKept ==
  /\ bad' \in Seq(Addresses)
  /\ lifted' \in [Callers -> SUBSET Addresses]
  /\ \A d \in Callers : lifted[d] \subseteq lifted'[d]
  /\ \A d \in Callers : \A a \in ToSet(bad) : a \in ToSet(bad') \/ a \in lifted'[d]

LEMMA WithoutIs ==
  ASSUME bad \in Seq(Addresses), NEW a
  PROVE  /\ Without(a) \in Seq(Addresses)
         /\ \A b \in ToSet(bad) : b # a => b \in ToSet(Without(a))
<1>1. CASE a \in ToSet(bad)
  <2>1. Slot(a) \in 1..Len(bad) /\ bad[Slot(a)] = a
    BY <1>1 DEF Slot, ToSet
  <2>2. Without(a) = RemoveAt(bad, Slot(a))
    BY <1>1 DEF Without
  <2>3. /\ RemoveAt(bad, Slot(a)) \in Seq(Addresses)
        /\ \A k \in 1..Len(bad) : k # Slot(a) => bad[k] \in ToSet(RemoveAt(bad, Slot(a)))
    BY <2>1, RemoveAtIs, RemovalKeeps
  <2>4. QED
    BY <2>1, <2>2, <2>3 DEF ToSet
<1>2. CASE a \notin ToSet(bad)
  BY <1>2 DEF Without
<1>3. QED
  BY <1>1, <1>2

LEMMA UnmarkIs == ASSUME MarkTypes, NEW a \in Addresses, Unmark(a) PROVE MarksKept
<1>1. /\ bad' \in Seq(Addresses)
      /\ \A b \in ToSet(bad) : b # a => b \in ToSet(bad')
  BY WithoutIs DEF MarkTypes, Unmark
<1>2. \A d \in Callers : lifted'[d] = lifted[d] \cup (ToSet(bad) \cap {a})
  BY DEF Unmark
<1>3. lifted' \in [Callers -> SUBSET Addresses]
  BY DEF Unmark, MarkTypes
<1>4. QED
  BY <1>1, <1>2, <1>3 DEF MarksKept

LEMMA MarkIs == ASSUME MarkTypes, NEW a \in Addresses, Mark(a) PROVE MarksKept
<1> DEFINE others == Without(a)
<1>1. others \in Seq(Addresses) /\ \A b \in ToSet(bad) : b # a => b \in ToSet(others)
  BY WithoutIs DEF MarkTypes
<1>2. \/ bad' = Append(others, a) /\ UNCHANGED lifted
      \/ /\ Len(others) >= BadMax
         /\ bad' = Append(Tail(others), a)
         /\ lifted' = [c \in Callers |-> lifted[c] \cup {Head(others)}]
  BY <1>1, ConnectAssumption DEF Mark
<1> HIDE DEF others
<1>3. CASE bad' = Append(others, a) /\ UNCHANGED lifted
  <2>1. bad' \in Seq(Addresses) /\ \A b \in ToSet(bad) : b \in ToSet(bad')
    BY <1>1, <1>3, AppendedIs
  <2>2. QED
    BY <1>3, <2>1 DEF MarksKept, MarkTypes
<1>4. CASE /\ Len(others) >= BadMax
           /\ bad' = Append(Tail(others), a)
           /\ lifted' = [c \in Callers |-> lifted[c] \cup {Head(others)}]
  <2>1. others # <<>>
    BY <1>4, ConnectAssumption
  <2>2. /\ Tail(others) \in Seq(Addresses) /\ Head(others) \in Addresses
        /\ \A b \in ToSet(others) : b = Head(others) \/ b \in ToSet(Tail(others))
    BY <1>1, <2>1, TailIs
  <2>3. /\ bad' \in Seq(Addresses) /\ a \in ToSet(bad')
        /\ \A b \in ToSet(Tail(others)) : b \in ToSet(bad')
    <3> DEFINE rest == Tail(others)
    <3>1. rest \in Seq(Addresses) /\ bad' = Append(rest, a)
      BY <1>4, <2>2
    <3> HIDE DEF rest
    <3>2. Append(rest, a) \in Seq(Addresses) /\ ToSet(Append(rest, a)) = ToSet(rest) \cup {a}
      BY <3>1, AppendedIs
    <3>3. QED
      BY <3>1, <3>2 DEF rest
  <2>4. \A d \in Callers : lifted'[d] = lifted[d] \cup {Head(others)}
    BY <1>4
  <2>5. lifted' \in [Callers -> SUBSET Addresses]
    BY <1>4, <2>2 DEF MarkTypes
  <2>6. QED
    BY <1>1, <2>2, <2>3, <2>4, <2>5 DEF MarksKept
<1>5. QED
  BY <1>2, <1>3, <1>4

LEMMA NoMarkIs == ASSUME MarkTypes, UNCHANGED <<bad, lifted>> PROVE MarksKept
BY DEF MarkTypes, MarksKept

\* What another call does to the marks leaves this one's sweep sound.
LEMMA OthersKeepSweep ==
  ASSUME MarksKept, NEW d \in Callers, SweepSound(d), conn'[d] = conn[d],
         tries[d] \subseteq tries'[d]
  PROVE  SweepSound(d)'
<1>1. \A a : Settled(d, a) \/ a \in lifted'[d] => Settled(d, a)'
  BY DEF MarksKept, Settled
<1>2. \A i : Behind(d, i)' <=> Behind(d, i)
  BY DEF Behind
<1>3. \A i \in 1..Len(List) : Behind(d, i)' => Settled(d, List[i])' \/ List[i] \in ToSet(bad')
  <2> SUFFICES ASSUME NEW i \in 1..Len(List), Behind(d, i)'
               PROVE  Settled(d, List[i])' \/ List[i] \in ToSet(bad')
    OBVIOUS
  <2>1. Settled(d, List[i]) \/ List[i] \in ToSet(bad)
    BY <1>2 DEF SweepSound
  <2>2. QED
    BY <1>1, <2>1 DEF MarksKept
<1>4. Here(d)' = Here(d)
  BY DEF Here
<1>5. QED
  BY <1>1, <1>3, <1>4 DEF SweepSound

\* A call that stays at its address: it starts to wait there, or is connected.
LEMMA StayKeepsSweep ==
  ASSUME MarksKept, NEW c \in Callers, SweepSound(c),
         tries[c] \subseteq tries'[c],
         conn'[c].pass = conn[c].pass, conn'[c].at = conn[c].at,
         conn'[c].timedOut = conn[c].timedOut,
         conn'[c].pc # "failed", conn'[c].pc = "wait" => Here(c) \in tries'[c]
  PROVE  SweepSound(c)'
<1>1. \A a : Settled(c, a) \/ a \in lifted'[c] => Settled(c, a)'
  BY DEF MarksKept, Settled
<1>2. \A i : Behind(c, i)' <=> Behind(c, i)
  BY DEF Behind
<1>3. \A i \in 1..Len(List) : Behind(c, i)' => Settled(c, List[i])' \/ List[i] \in ToSet(bad')
  <2> SUFFICES ASSUME NEW i \in 1..Len(List), Behind(c, i)'
               PROVE  Settled(c, List[i])' \/ List[i] \in ToSet(bad')
    OBVIOUS
  <2>1. Settled(c, List[i]) \/ List[i] \in ToSet(bad)
    BY <1>2 DEF SweepSound
  <2>2. QED
    BY <1>1, <2>1 DEF MarksKept
<1>4. \A i \in 1..Len(List) : (conn[c].pass = 1 /\ i < conn[c].at)' => Settled(c, List[i])'
  BY <1>1 DEF SweepSound
<1>5. Here(c)' = Here(c)
  BY DEF Here
<1>6. QED
  BY <1>3, <1>4, <1>5 DEF SweepSound

\* A call that goes on to the next address leaves one that is tried, or had
\* its mark lifted, or in the first pass is marked.
LEMMA AdvanceKeepsSweep ==
  ASSUME ConnTypes, MarksKept, NEW c \in Callers, SweepSound(c), InList(c),
         tries[c] \subseteq tries'[c],
         conn'[c].pass = conn[c].pass, conn'[c].at = conn[c].at + 1,
         conn'[c].timedOut \subseteq tries'[c], conn'[c].pc \in {"look", "connected"},
         \/ Here(c) \in tries'[c] \/ Here(c) \in lifted'[c]
         \/ conn[c].pass = 0 /\ Here(c) \in ToSet(bad')
  PROVE  SweepSound(c)'
<1>1. \A a : Settled(c, a) \/ a \in lifted'[c] \/ a \in tries'[c] => Settled(c, a)'
  BY DEF MarksKept, Settled
<1>2. conn[c].at \in Nat /\ conn[c].pass \in {0, 1}
  BY DEF ConnTypes, ConnRecords
<1>3. \A i \in 1..Len(List) : i < conn'[c].at => i < conn[c].at \/ i = conn[c].at
  BY <1>2
<1>4. \A i \in 1..Len(List) : Behind(c, i)' => Settled(c, List[i])' \/ List[i] \in ToSet(bad')
  <2> SUFFICES ASSUME NEW i \in 1..Len(List), Behind(c, i)'
               PROVE  Settled(c, List[i])' \/ List[i] \in ToSet(bad')
    OBVIOUS
  <2>1. CASE Behind(c, i)
    <3>1. Settled(c, List[i]) \/ List[i] \in ToSet(bad)
      BY <2>1 DEF SweepSound
    <3>2. QED
      BY <1>1, <3>1 DEF MarksKept
  <2>2. CASE ~Behind(c, i)
    <3>1. i = conn[c].at
      BY <1>3, <2>2 DEF Behind
    <3>2. QED
      BY <1>1, <3>1 DEF Here
  <2>3. QED
    BY <2>1, <2>2
<1>5. \A i \in 1..Len(List) : (conn[c].pass = 1 /\ i < conn[c].at)' => Settled(c, List[i])'
  <2> SUFFICES ASSUME NEW i \in 1..Len(List), conn[c].pass = 1, i < conn'[c].at
               PROVE  Settled(c, List[i])'
    OBVIOUS
  <2>1. CASE i < conn[c].at
    BY <1>1, <2>1 DEF SweepSound
  <2>2. CASE i = conn[c].at
    BY <1>1, <2>2 DEF Here
  <2>3. QED
    BY <1>3, <2>1, <2>2
<1>6. QED
  BY <1>4, <1>5 DEF SweepSound

\* The end of a pass: the first leaves marks only, the second nothing.
LEMMA PassEndKeepsSweep ==
  ASSUME ConnTypes, MarkTypes, NEW c \in Callers, SweepSound(c), NextPass(c)
  PROVE  SweepSound(c)'
<1>1. /\ UNCHANGED <<bad, tries, lifted>> /\ conn[c].pass \in {0, 1}
      /\ conn[c].at > Len(List) /\ \A i \in 1..Len(List) : i < conn[c].at
  <2>1. conn[c].at \in Nat /\ Len(List) \in Nat /\ conn[c].pass \in {0, 1}
    BY ConnectAssumption DEF ConnTypes, ConnRecords
  <2>2. ~(conn[c].at <= Len(List)) /\ UNCHANGED <<bad, tries, lifted>>
    BY DEF NextPass, InList
  <2>3. QED
    BY <2>1, <2>2
<1>2. \A a : Settled(c, a)' <=> Settled(c, a)
  BY <1>1 DEF Settled
<1>3. conn[c] \in ConnRecords
  BY DEF ConnTypes
<1>4. CASE conn[c].pass = 0
  <2>1. /\ conn'[c].pass = 1 /\ conn'[c].at = 1
        /\ conn'[c].timedOut = conn[c].timedOut /\ conn'[c].pc = "look"
    BY <1>3, <1>4 DEF NextPass, ConnTypes, ConnRecords
  <2>2. \A i \in 1..Len(List) : Behind(c, i)
    BY <1>1 DEF Behind
  <2>3. \A i \in 1..Len(List) : ~(i < conn'[c].at)
    BY <2>1
  <2>4. \A i \in 1..Len(List) : Settled(c, List[i])' \/ List[i] \in ToSet(bad')
    BY <1>1, <1>2, <2>2 DEF SweepSound
  <2>5. QED
    BY <1>1, <2>1, <2>3, <2>4 DEF SweepSound
<1>5. CASE conn[c].pass = 1
  <2>1. /\ conn'[c].pass = 1 /\ conn'[c].at = conn[c].at
        /\ conn'[c].timedOut = conn[c].timedOut /\ conn'[c].pc = "failed"
    BY <1>3, <1>5 DEF NextPass, ConnTypes, ConnRecords
  <2>2. \A i \in 1..Len(List) : Settled(c, List[i])'
    BY <1>1, <1>2, <1>5 DEF SweepSound
  <2>3. QED
    BY <1>1, <2>1, <2>2 DEF SweepSound
<1>6. QED
  BY <1>1, <1>4, <1>5

\* The record a call goes on with.
LEMMA NextAddressOf ==
  ASSUME ConnTypes, NEW c \in Callers
  PROVE  /\ NextAddress(c).pass = conn[c].pass /\ NextAddress(c).at = conn[c].at + 1
         /\ NextAddress(c).timedOut = conn[c].timedOut /\ NextAddress(c).pc = "look"
         /\ Connected(c).pass = conn[c].pass /\ Connected(c).at = conn[c].at
         /\ Connected(c).timedOut = conn[c].timedOut /\ Connected(c).pc = "connected"
BY DEF ConnTypes, ConnRecords, NextAddress, Connected

LEMMA HereIs ==
  ASSUME ConnTypes, NEW c \in Callers, InList(c)
  PROVE  Here(c) \in Addresses
BY ConnectAssumption DEF ConnTypes, ConnRecords, InList, Here

\* A call's own step, whatever it does to the marks, keeps its sweep sound and
\* lets no address lose its mark unseen.
LEMMA LookKeepsSweep ==
  ASSUME ConnInv, SweepInv, NEW c \in Callers, PassOver(c) \/ NextPass(c) \/ StartJob(c)
  PROVE  MarksKept /\ SweepSound(c)'
<1>1. ConnTypes /\ MarkTypes /\ SweepSound(c)
  BY DEF ConnInv, SweepInv
<1>2. UNCHANGED <<bad, lifted>>
  BY DEF PassOver, NextPass, StartJob
<1>3. MarksKept
  BY <1>1, <1>2, NoMarkIs
<1>4. CASE PassOver(c)
  <2>1. conn'[c] = NextAddress(c) /\ InList(c) /\ PassedOver(c) /\ tries' = tries
    BY <1>1, <1>4 DEF PassOver, ConnTypes
  <2>2. conn[c].pass \in {0, 1} /\ conn[c].timedOut \subseteq tries[c]
    BY <1>1 DEF ConnTypes, ConnRecords, SweepSound
  <2>3. Here(c) \in tries[c] \/ Here(c) \in lifted[c] \/ Here(c) \in ToSet(bad)
    <3>1. CASE Here(c) \in conn[c].timedOut \/ Here(c) \in ToSet(bad)
      BY <2>2, <3>1
    <3>2. CASE ~(Here(c) \in conn[c].timedOut \/ Here(c) \in ToSet(bad))
      <4>1. conn[c].pass = 1
        BY <2>1, <2>2, <3>2 DEF PassedOver
      <4>2. conn[c].at \in 1..Len(List)
        BY <1>1, <2>1, ConnectAssumption DEF ConnTypes, ConnRecords, InList
      <4>3. Settled(c, List[conn[c].at]) \/ List[conn[c].at] \in ToSet(bad)
        BY <1>1, <4>1, <4>2 DEF SweepSound, Behind
      <4>4. QED
        BY <3>2, <4>3 DEF Settled, Here
    <3>3. QED
      BY <3>1, <3>2
  <2>4. \/ Here(c) \in tries'[c] \/ Here(c) \in lifted'[c]
        \/ conn[c].pass = 0 /\ Here(c) \in ToSet(bad')
    <3>1. CASE conn[c].pass = 0
      BY <1>2, <2>1, <2>3, <3>1
    <3>2. CASE conn[c].pass = 1
      <4>1. Here(c) \in ToSet(bad) => Here(c) \in conn[c].timedOut
        BY <2>1, <3>2 DEF PassedOver
      <4>2. QED
        BY <1>2, <2>1, <2>2, <2>3, <4>1
    <3>3. QED
      BY <2>2, <3>1, <3>2
  <2>5. QED
    BY <1>1, <1>3, <2>1, <2>2, <2>4, NextAddressOf, AdvanceKeepsSweep
<1>5. CASE NextPass(c)
  BY <1>1, <1>3, <1>5, PassEndKeepsSweep
<1>6. CASE StartJob(c)
  <2>1. PICK j \in ConnJobs : conn' = [conn EXCEPT ![c] = Waiting(c, j)]
    BY <1>6 DEF StartJob
  <2>2. /\ Waiting(c, j).pass = conn[c].pass /\ Waiting(c, j).at = conn[c].at
        /\ Waiting(c, j).timedOut = conn[c].timedOut /\ Waiting(c, j).pc = "wait"
    BY <1>1 DEF ConnTypes, ConnRecords, Waiting
  <2>3. conn'[c] = Waiting(c, j)
    BY <1>1, <2>1 DEF ConnTypes
  <2>4. tries'[c] = tries[c] \cup {Here(c)}
    BY <1>1, <1>6 DEF StartJob, MarkTypes
  <2>5. QED
    BY <1>1, <1>3, <2>2, <2>3, <2>4, StayKeepsSweep
<1>7. QED
  BY <1>3, <1>4, <1>5, <1>6

LEMMA AnswerKeepsSweep ==
  ASSUME ConnInv, SweepInv, NEW c \in Callers, RunInline(c) \/ TakeResult(c) \/ TimeOut(c)
  PROVE  MarksKept /\ SweepSound(c)'
<1>1. ConnTypes /\ MarkTypes /\ SweepSound(c)
  BY DEF ConnInv, SweepInv
<1>2. InList(c)
  BY DEF RunInline, TakeResult, TimeOut, InList, ConnInv, WaitersHaveJobs
<1>3. Here(c) \in Addresses
  BY <1>1, <1>2, HereIs
<1>4. tries[c] \subseteq tries'[c] /\ Here(c) \in tries'[c]
  <2>1. CASE RunInline(c)
    BY <1>1, <2>1 DEF RunInline, MarkTypes
  <2>2. CASE TakeResult(c) \/ TimeOut(c)
    BY <1>1, <2>2 DEF TakeResult, TimeOut, SweepSound
  <2>3. QED
    BY <2>1, <2>2
<1>5. \/ conn'[c] = Connected(c) /\ Unmark(Here(c))
      \/ conn'[c] = NextAddress(c) /\ UNCHANGED <<bad, lifted>>
      \/ conn'[c] = [NextAddress(c) EXCEPT !.timedOut = @ \cup {Here(c)}] /\ Mark(Here(c))
  <2>1. \A r : [conn EXCEPT ![c] = r][c] = r
    BY <1>1 DEF ConnTypes
  <2>2. QED
    BY <2>1 DEF RunInline, TakeResult, TimeOut
<1>6. CASE conn'[c] = Connected(c) /\ Unmark(Here(c))
  <2>1. MarksKept
    BY <1>1, <1>3, <1>6, UnmarkIs
  <2>2. QED
    BY <1>1, <1>4, <1>6, <2>1, NextAddressOf, StayKeepsSweep
<1>7. CASE conn'[c] = NextAddress(c) /\ UNCHANGED <<bad, lifted>>
  <2>1. MarksKept
    BY <1>1, <1>7, NoMarkIs
  <2>2. conn[c].timedOut \subseteq tries'[c]
    BY <1>1, <1>4 DEF SweepSound
  <2>3. QED
    BY <1>1, <1>2, <1>4, <1>7, <2>1, <2>2, NextAddressOf, AdvanceKeepsSweep
<1>8. CASE /\ conn'[c] = [NextAddress(c) EXCEPT !.timedOut = @ \cup {Here(c)}]
           /\ Mark(Here(c))
  <2>1. MarksKept
    BY <1>1, <1>3, <1>8, MarkIs
  <2>2. NextAddress(c) \in ConnRecords
    BY <1>1, NextAddressIs
  <2>3. /\ conn'[c].pass = NextAddress(c).pass /\ conn'[c].at = NextAddress(c).at
        /\ conn'[c].pc = NextAddress(c).pc
        /\ conn'[c].timedOut = NextAddress(c).timedOut \cup {Here(c)}
    BY <1>8, <2>2 DEF ConnRecords
  <2>4. conn'[c].timedOut \subseteq tries'[c]
    BY <1>1, <1>4, <2>3, NextAddressOf DEF SweepSound
  <2>5. QED
    BY <1>1, <1>2, <1>4, <2>1, <2>3, <2>4, NextAddressOf, AdvanceKeepsSweep
<1>9. QED
  BY <1>5, <1>6, <1>7, <1>8

LEMMA SweepStarts == ConnectInit => SweepInv
<1> SUFFICES ASSUME ConnectInit PROVE SweepInv
  OBVIOUS
<1>1. MarkTypes
  BY DEF ConnectInit, MarkTypes
<1>2. \A c \in Callers : SweepSound(c)
  BY DEF ConnectInit, SweepSound, Outside, Behind
<1>3. QED
  BY <1>1, <1>2 DEF SweepInv

LEMMA SweepKeeps == ConnInv /\ SweepInv /\ [ConnectNext]_connVars => SweepInv'
<1> SUFFICES ASSUME ConnInv, SweepInv, [ConnectNext]_connVars PROVE SweepInv'
  OBVIOUS
<1>1. ConnTypes /\ MarkTypes
  BY DEF ConnInv, SweepInv
<1>2. ASSUME NEW c \in Callers, Caller(c) PROVE SweepInv'
  <2>1. MarksKept /\ SweepSound(c)'
    BY <1>2, LookKeepsSweep, AnswerKeepsSweep DEF Caller
  <2>2. \A d \in Callers : d # c => conn'[d] = conn[d]
    BY <1>1, <1>2 DEF Caller, PassOver, NextPass, StartJob, RunInline, TakeResult, TimeOut,
                      ConnTypes
  <2>3. tries' = tries \/ tries' = [tries EXCEPT ![c] = @ \cup {Here(c)}]
    BY <1>2 DEF Caller, PassOver, NextPass, StartJob, RunInline, TakeResult, TimeOut
  <2>4. tries' \in [Callers -> SUBSET Addresses] /\ \A d \in Callers : tries[d] \subseteq tries'[d]
    <3>1. CASE tries' = tries
      BY <1>1, <3>1 DEF MarkTypes
    <3>2. CASE tries' # tries
      <4>1. InList(c)
        BY <1>2, <3>2 DEF Caller, PassOver, NextPass, StartJob, RunInline, TakeResult, TimeOut
      <4>2. Here(c) \in Addresses
        BY <1>1, <4>1, HereIs
      <4>3. QED
        BY <1>1, <2>3, <3>2, <4>2 DEF MarkTypes
    <3>3. QED
      BY <3>1, <3>2
  <2>5. \A d \in Callers : SweepSound(d)'
    <3> SUFFICES ASSUME NEW d \in Callers, d # c PROVE SweepSound(d)'
      BY <2>1
    <3>1. SweepSound(d) /\ conn'[d] = conn[d] /\ tries[d] \subseteq tries'[d]
      BY <2>2, <2>4 DEF SweepInv
    <3>2. QED
      BY <2>1, <3>1, OthersKeepSweep
  <2>6. QED
    BY <2>1, <2>4, <2>5 DEF SweepInv, MarkTypes, MarksKept
<1>3. ASSUME NEW c \in Callers, ConnectBegin(c) PROVE SweepInv'
  <2>1. /\ conn'[c] = [Outside EXCEPT !.pc = "look"]
        /\ \A d \in Callers : d # c => conn'[d] = conn[d]
    BY <1>1, <1>3 DEF ConnectBegin, ConnTypes
  <2>2. MarkTypes'
    BY <1>1, <1>3 DEF ConnectBegin, MarkTypes
  <2>3. /\ bad' = bad
        /\ \A d \in Callers : d # c => tries'[d] = tries[d] /\ lifted'[d] = lifted[d]
    BY <1>1, <1>3 DEF ConnectBegin, MarkTypes
  <2>4. SweepSound(c)'
    BY <2>1 DEF SweepSound, Outside, Behind
  <2>5. ASSUME NEW d \in Callers, d # c PROVE SweepSound(d)'
    <3>1. SweepSound(d) /\ conn'[d] = conn[d] /\ tries'[d] = tries[d] /\ lifted'[d] = lifted[d]
      BY <2>1, <2>3, <2>5 DEF SweepInv
    <3>2. QED
      BY <2>3, <3>1 DEF SweepSound, Behind, Settled, Here
  <2>6. QED
    BY <2>2, <2>4, <2>5 DEF SweepInv
<1>4. CASE Expire
  <2>1. /\ Unmark(Head(bad)) /\ Head(bad) \in Addresses
        /\ conn' = conn /\ tries' = tries
    BY <1>1, <1>4, TailIs DEF Expire, MarkTypes
  <2>2. MarksKept
    BY <1>1, <2>1, UnmarkIs
  <2>3. \A d \in Callers : SweepSound(d)'
    BY <2>1, <2>2, OthersKeepSweep DEF SweepInv
  <2>4. QED
    BY <1>1, <2>1, <2>2, <2>3 DEF SweepInv, MarkTypes, MarksKept
<1>5. CASE (\E j \in ConnJobs : JobThread(j)) \/ UNCHANGED connVars
  <2>1. UNCHANGED <<bad, conn, tries, lifted>>
    BY <1>5 DEF JobThread, ConnectReturns, Publish, FreeOrphan, connVars
  <2>2. QED
    BY <2>1 DEF SweepInv, MarkTypes, SweepSound, Behind, Settled, Here
<1>6. QED
  BY <1>2, <1>3, <1>4, <1>5 DEF ConnectNext

\* A call that fails has tried every address whose mark was not lifted while it
\* looked, however the other calls change the marks in between
\* (evo_net_connect_list's two passes over the list).
THEOREM NoAddressIsSkipped == ConnectSpec => []EveryAddressTried
<1>1. ConnInv /\ SweepInv => EveryAddressTried
  <2> SUFFICES ASSUME ConnInv, SweepInv, NEW c \in Callers, conn[c].pc = "failed",
                      NEW a \in Addresses
               PROVE  a \in tries[c] \cup lifted[c]
    BY DEF EveryAddressTried
  <2>1. PICK i \in 1..Len(List) : a = List[i]
    BY ConnectAssumption DEF Addresses, ToSet
  <2>2. conn[c].pass = 1 /\ conn[c].at > Len(List) /\ SweepSound(c)
    BY DEF SweepInv, SweepSound
  <2>3. conn[c].at \in Nat /\ Len(List) \in Nat
    BY ConnectAssumption DEF ConnInv, ConnTypes, ConnRecords
  <2>4. i < conn[c].at
    BY <2>2, <2>3
  <2>5. Settled(c, List[i])
    BY <2>2, <2>4 DEF SweepSound
  <2>6. QED
    BY <2>1, <2>5 DEF Settled
<1>2. QED
  BY <1>1, ConnStarts, ConnKeeps, SweepStarts, SweepKeeps, PTL DEF ConnectSpec
-----------------------------------------------------------------------------
(***************************************************************************)
(* Who has a request of the network service.  The counts of RequestOwned   *)
(* follow from an invariant without counts: no sequence holds a request    *)
(* twice, the places exclude each other, a freed request is in none, and   *)
(* what was allocated is in one or freed.  The last part needs that the    *)
(* service is started again with its arrays empty.                         *)
(***************************************************************************)
NetPcs == {"none", "top", "look", "falling", "asleep", "run", "ended"}

\* Nothing is left of the service once it has been shut down.
StoppedInv ==
  /\ netPc \in [Threads -> NetPcs]
  /\ serving => down = "no"
  /\ down = "done" => /\ pending = <<>> /\ completed = <<>>
                      /\ \A t \in Threads : netPc[t] \in {"none", "ended"}

LEMMA NetStops == NetSpec => []StoppedInv
<1> USE DEF StoppedInv, NetPcs
<1>1. NetInit => StoppedInv
  BY DEF NetInit
<1>2. StoppedInv /\ [NetNext]_netVars => StoppedInv'
  <2> SUFFICES ASSUME StoppedInv, [NetNext]_netVars PROVE StoppedInv'
    OBVIOUS
  <2>1. CASE InitService \/ Poll \/ CallBack
    BY <2>1 DEF InitService, Poll, CallBack
  <2>2. CASE ShutdownFlag \/ ShutdownWakes \/ ShutdownFrees
    BY <2>2 DEF ShutdownFlag, ShutdownWakes, ShutdownFrees, Woken, queueVars
  <2>3. ASSUME NEW r \in Requests, Enqueue(r) \/ Refuse(r) PROVE StoppedInv'
    BY <2>3 DEF Enqueue, Refuse, Woken, queueVars
  <2>4. ASSUME NEW t \in Threads, NetThread(t) PROVE StoppedInv'
    <3>1. netPc[t] \notin {"none", "ended"} /\ UNCHANGED <<serving, down>>
      BY <2>4 DEF NetThread, Top, Leave, Take, FindNothing, FallAsleep, Deliver, Drop
    <3>2. netPc' \in [Threads -> NetPcs]
      BY <2>4 DEF NetThread, Top, Leave, Take, FindNothing, FallAsleep, Deliver, Drop
    <3>3. QED
      BY <3>1, <3>2
  <2>5. CASE UNCHANGED netVars
    BY <2>5 DEF netVars, queueVars
  <2>6. QED
    BY <2>1, <2>2, <2>3, <2>4, <2>5 DEF NetNext, FrameStep, ShutdownStep
<1>3. QED
  BY <1>1, <1>2, PTL DEF NetSpec

NetTypes ==
  /\ pending \in Seq(Requests) /\ completed \in Seq(Requests) /\ ready \in Seq(Requests)
  /\ hand \in [Threads -> Requests \cup {Nobody}]
  /\ netPc \in [Threads -> NetPcs]
  /\ called \in [Requests -> Nat] /\ freed \in [Requests -> Nat]

NoneTwice == IsInjective(pending) /\ IsInjective(completed) /\ IsInjective(ready)

Held(r) == \E t \in Threads : hand[t] = r

\* The places a request can be in exclude each other, a freed one is in none,
\* and an allocated one that is not freed is in one of them.
OnePlace(r) ==
  /\ r \in ToSet(pending) => r \notin ToSet(completed) \cup ToSet(ready) /\ ~Held(r)
  /\ r \in ToSet(completed) => r \notin ToSet(ready) /\ ~Held(r)
  /\ r \in ToSet(ready) => ~Held(r)
  /\ r \in ToSet(pending) \cup ToSet(completed) \cup ToSet(ready) \/ Held(r) => freed[r] = 0
  /\ freed[r] <= 1 /\ called[r] <= freed[r]
  /\ \A t, u \in Threads : hand[t] = r /\ hand[u] = r => t = u
  /\ r \in asked <=>
       r \in ToSet(pending) \cup ToSet(completed) \cup ToSet(ready) \/ Held(r) \/ freed[r] = 1

OwnedInv ==
  /\ NetTypes
  /\ NoneTwice
  /\ \A r \in Requests : OnePlace(r)
  /\ \A t \in Threads : netPc[t] = "run" <=> hand[t] \in Requests

LEMMA NetStarts == NetInit => OwnedInv
<1> SUFFICES ASSUME NetInit PROVE OwnedInv
  OBVIOUS
<1>1. NetTypes
  BY DEF NetInit, NetTypes, NetPcs
<1>2. NoneTwice
  BY DEF NetInit, NoneTwice, IsInjective
<1>3. ToSet(pending) = {} /\ ToSet(completed) = {} /\ ToSet(ready) = {}
  BY DEF NetInit, ToSet
<1>4. \A r \in Requests : ~Held(r) /\ freed[r] = 0 /\ called[r] = 0 /\ r \notin asked
  BY NetAssumption DEF NetInit, Held
<1>5. \A r \in Requests : OnePlace(r)
  BY <1>3, <1>4 DEF OnePlace, Held
<1>6. \A t \in Threads : netPc[t] # "run" /\ hand[t] \notin Requests
  BY NetAssumption DEF NetInit
<1>7. QED
  BY <1>1, <1>2, <1>5, <1>6 DEF OwnedInv

\* A step that moves no request, whatever workers it starts, wakes or stops.
LEMMA NothingMoves ==
  ASSUME OwnedInv, UNCHANGED <<pending, completed, ready, hand, asked, called, freed>>,
         netPc' \in [Threads -> NetPcs],
         \A t \in Threads : netPc'[t] = "run" <=> netPc[t] = "run"
  PROVE  OwnedInv'
BY DEF OwnedInv, NetTypes, NoneTwice, OnePlace, Held

LEMMA WorkerLooks ==
  ASSUME OwnedInv, NEW t \in Threads, Top(t) \/ Leave(t) \/ FindNothing(t) \/ FallAsleep(t)
  PROVE  OwnedInv'
<1>1. UNCHANGED <<pending, completed, ready, hand, asked, called, freed>>
  BY DEF Top, Leave, FindNothing, FallAsleep, queueVars, ghosts
<1>2. \E p \in {"look", "ended", "falling", "asleep"} : netPc' = [netPc EXCEPT ![t] = p]
  BY DEF Top, Leave, FindNothing, FallAsleep
<1>t. netPc[t] # "run"
  BY DEF Top, Leave, FindNothing, FallAsleep
<1>3. /\ netPc' \in [Threads -> NetPcs]
      /\ \A u \in Threads : netPc'[u] = "run" <=> netPc[u] = "run"
  BY <1>2, <1>t DEF OwnedInv, NetTypes, NetPcs
<1>4. QED
  BY <1>1, <1>3, NothingMoves

LEMMA ServiceSwitches ==
  ASSUME OwnedInv, ShutdownFlag \/ ShutdownWakes
  PROVE  OwnedInv'
<1>1. UNCHANGED <<pending, completed, ready, hand, asked, called, freed>>
  BY DEF ShutdownFlag, ShutdownWakes, queueVars, ghosts
<1>2. netPc' = netPc \/ netPc' = Woken
  BY DEF ShutdownFlag, ShutdownWakes
<1>3. /\ netPc' \in [Threads -> NetPcs]
      /\ \A u \in Threads : netPc'[u] = "run" <=> netPc[u] = "run"
  BY <1>2 DEF OwnedInv, NetTypes, NetPcs, Woken
<1>4. QED
  BY <1>1, <1>3, NothingMoves

\* The arrays may be emptied: what was in them is then nowhere.
LEMMA ArraysEmptied ==
  ASSUME pending' = <<>>, completed' = <<>>
  PROVE  /\ pending' \in Seq(Requests) /\ completed' \in Seq(Requests)
         /\ IsInjective(pending') /\ IsInjective(completed')
         /\ ToSet(pending') = {} /\ ToSet(completed') = {}
BY DEF IsInjective, ToSet

LEMMA InitServiceKeeps == ASSUME OwnedInv, StoppedInv, InitService PROVE OwnedInv'
<1>1. /\ pending' \in Seq(Requests) /\ completed' \in Seq(Requests)
      /\ IsInjective(pending') /\ IsInjective(completed')
      /\ ToSet(pending') = {} /\ ToSet(completed') = {}
  BY ArraysEmptied DEF InitService
<1>2. UNCHANGED <<ready, hand, asked, called, freed>>
  BY DEF InitService, ghosts
<1>3. /\ netPc' \in [Threads -> NetPcs]
      /\ \A t \in Threads : netPc'[t] # "run"
  BY DEF InitService, NetPcs
<1>4. NetTypes' /\ NoneTwice'
  BY <1>1, <1>2, <1>3 DEF OwnedInv, NetTypes, NoneTwice
<1>5. ASSUME NEW r \in Requests PROVE OnePlace(r)'
  <2>1. OnePlace(r)
    BY DEF OwnedInv
  <2>2. Held(r)' <=> Held(r)
    BY <1>2 DEF Held
  <2>3. ToSet(pending) = {} /\ ToSet(completed) = {}
    BY DEF InitService, StoppedInv, ToSet
  <2>4. QED
    BY <1>1, <1>2, <2>1, <2>2, <2>3 DEF OnePlace
<1>6. \A t \in Threads : hand'[t] \notin Requests
  BY <1>2 DEF InitService, StoppedInv, OwnedInv
<1>7. QED
  BY <1>3, <1>4, <1>5, <1>6 DEF OwnedInv

\* How often requests were freed.
LEMMA FreedIs ==
  ASSUME NetTypes, NEW rs
  PROVE  /\ Freed(rs) \in [Requests -> Nat]
         /\ \A r \in Requests : Freed(rs)[r] = IF r \in rs THEN freed[r] + 1 ELSE freed[r]
BY DEF NetTypes, Freed

\* A request that is freed where it is, and gone from there, is nowhere.
LEMMA ShutdownFreesKeeps == ASSUME OwnedInv, ShutdownFrees PROVE OwnedInv'
<1>1. /\ pending' \in Seq(Requests) /\ completed' \in Seq(Requests)
      /\ IsInjective(pending') /\ IsInjective(completed')
      /\ ToSet(pending') = {} /\ ToSet(completed') = {}
  BY ArraysEmptied DEF ShutdownFrees
<1>2. UNCHANGED <<ready, hand, asked, called, netPc>> /\ freed' = Freed(ToSet(pending) \cup ToSet(completed))
  BY DEF ShutdownFrees
<1>3. /\ freed' \in [Requests -> Nat]
      /\ \A r \in Requests :
           freed'[r] = IF r \in ToSet(pending) \cup ToSet(completed) THEN freed[r] + 1 ELSE freed[r]
  BY <1>2, FreedIs DEF OwnedInv
<1>4. NetTypes' /\ NoneTwice'
  BY <1>1, <1>2, <1>3 DEF OwnedInv, NetTypes, NoneTwice
<1>5. ASSUME NEW r \in Requests PROVE OnePlace(r)'
  <2>1. OnePlace(r) /\ called[r] \in Nat /\ freed[r] \in Nat
    BY DEF OwnedInv, NetTypes
  <2>2. Held(r)' <=> Held(r)
    BY <1>2 DEF Held
  <2>3. CASE r \in ToSet(pending) \cup ToSet(completed)
    <3>1. freed[r] = 0 /\ r \notin ToSet(ready) /\ ~Held(r) /\ called[r] <= freed[r]
      BY <2>1, <2>3 DEF OnePlace
    <3>2. freed'[r] = 1 /\ called'[r] <= 1
      <4>1. freed'[r] = freed[r] + 1
        BY <1>3, <2>3, Zenon
      <4>2. called'[r] = called[r]
        BY <1>2
      <4>3. QED
        BY <2>1, <3>1, <4>1, <4>2
    <3>3. \A t, u \in Threads : hand'[t] = r /\ hand'[u] = r => t = u
      BY <1>2, <2>1 DEF OnePlace
    <3>4. r \notin ToSet(ready') /\ ~Held(r)'
      BY <1>2, <2>2, <3>1
    <3>5. QED
      BY <1>1, <1>2, <2>1, <2>3, <3>2, <3>3, <3>4 DEF OnePlace
  <2>4. CASE r \notin ToSet(pending) \cup ToSet(completed)
    <3>1. freed'[r] = freed[r] /\ called'[r] = called[r]
      BY <1>2, <1>3, <2>4
    <3>2. UNCHANGED <<ready, hand, asked>>
      BY <1>2
    <3>3. r \in asked' <=> r \in ToSet(ready') \/ Held(r)' \/ freed'[r] = 1
      BY <2>1, <2>2, <2>4, <3>1, <3>2 DEF OnePlace
    <3>4. QED
      BY <1>1, <2>1, <2>2, <3>1, <3>2, <3>3 DEF OnePlace
  <2>5. QED
    BY <2>3, <2>4
<1>6. QED
  BY <1>2, <1>4, <1>5 DEF OwnedInv

\* A request that is just being allocated is nowhere yet.
LEMMA NewIsNowhere ==
  ASSUME OwnedInv, NEW r \in Requests, Allocate(r)
  PROVE  /\ r \notin ToSet(pending) \cup ToSet(completed) \cup ToSet(ready) /\ ~Held(r)
         /\ freed[r] = 0 /\ asked' = asked \cup {r}
<1>1. r \notin asked /\ asked' = asked \cup {r}
  BY DEF Allocate
<1>2. OnePlace(r) /\ freed[r] \in Nat
  BY DEF OwnedInv, NetTypes
<1>3. /\ r \notin ToSet(pending) \cup ToSet(completed) \cup ToSet(ready) /\ ~Held(r)
      /\ freed[r] # 1 /\ freed[r] <= 1
  BY <1>1, <1>2 DEF OnePlace
<1>4. QED
  BY <1>1, <1>2, <1>3

LEMMA EnqueueKeeps == ASSUME OwnedInv, NEW r \in Requests, Enqueue(r) PROVE OwnedInv'
<1>1. r \notin ToSet(pending) \cup ToSet(completed) \cup ToSet(ready) /\ ~Held(r) /\ freed[r] = 0
  BY NewIsNowhere DEF Enqueue
<1>2. /\ pending' \in Seq(Requests) /\ ToSet(pending') = ToSet(pending) \cup {r}
      /\ IsInjective(pending')
  BY <1>1, AppendedIs DEF Enqueue, OwnedInv, NetTypes, NoneTwice
<1>3. UNCHANGED <<completed, ready, hand, called, freed>> /\ netPc' = Woken /\ asked' = asked \cup {r}
  BY DEF Enqueue, Allocate
<1>4. /\ netPc' \in [Threads -> NetPcs]
      /\ \A u \in Threads : netPc'[u] = "run" <=> netPc[u] = "run"
  BY <1>3 DEF OwnedInv, NetTypes, NetPcs, Woken
<1>5. NetTypes' /\ NoneTwice'
  BY <1>2, <1>3, <1>4 DEF OwnedInv, NetTypes, NoneTwice
<1>6. ASSUME NEW q \in Requests PROVE OnePlace(q)'
  <2>1. OnePlace(q)
    BY DEF OwnedInv
  <2>2. Held(q)' <=> Held(q)
    BY <1>3 DEF Held
  <2>3. QED
    BY <1>1, <1>2, <1>3, <2>1, <2>2 DEF OnePlace
<1>7. QED
  BY <1>3, <1>4, <1>5, <1>6 DEF OwnedInv

LEMMA RefuseKeeps == ASSUME OwnedInv, NEW r \in Requests, Refuse(r) PROVE OwnedInv'
<1>1. r \notin ToSet(pending) \cup ToSet(completed) \cup ToSet(ready) /\ ~Held(r) /\ freed[r] = 0
  BY NewIsNowhere DEF Refuse
<1>2. /\ UNCHANGED <<pending, completed, ready, hand, called, netPc>>
      /\ freed' = Freed({r}) /\ asked' = asked \cup {r}
  BY DEF Refuse, Allocate, queueVars
<1>3. /\ freed' \in [Requests -> Nat]
      /\ \A q \in Requests : freed'[q] = IF q = r THEN freed[q] + 1 ELSE freed[q]
  BY <1>2, FreedIs DEF OwnedInv
<1>4. NetTypes' /\ NoneTwice'
  BY <1>2, <1>3 DEF OwnedInv, NetTypes, NoneTwice
<1>5. ASSUME NEW q \in Requests PROVE OnePlace(q)'
  <2>1. OnePlace(q) /\ called[q] \in Nat /\ freed[q] \in Nat
    BY DEF OwnedInv, NetTypes
  <2>2. Held(q)' <=> Held(q)
    BY <1>2 DEF Held
  <2>3. CASE q = r
    <3>1. freed'[q] = 1 /\ called'[q] = 0 /\ q \in asked'
      BY <1>1, <1>2, <1>3, <2>1, <2>3 DEF OnePlace
    <3>2. QED
      BY <1>1, <1>2, <2>1, <2>2, <2>3, <3>1 DEF OnePlace
  <2>4. CASE q # r
    <3>1. freed'[q] = freed[q] /\ (q \in asked' <=> q \in asked)
      BY <1>2, <1>3, <2>4
    <3>2. QED
      BY <1>2, <2>1, <2>2, <3>1 DEF OnePlace
  <2>5. QED
    BY <2>3, <2>4
<1>6. QED
  BY <1>2, <1>4, <1>5 DEF OwnedInv

LEMMA PollKeeps == ASSUME OwnedInv, Poll PROVE OwnedInv'
<1>1. /\ ready' = completed /\ completed' = <<>>
      /\ UNCHANGED <<pending, hand, asked, called, freed, netPc>>
  BY DEF Poll, ghosts
<1>2. ToSet(ready) = {} /\ ToSet(completed') = {} /\ IsInjective(completed')
  BY DEF Poll, ToSet, IsInjective
<1>3. NetTypes' /\ NoneTwice'
  BY <1>1, <1>2 DEF OwnedInv, NetTypes, NoneTwice
<1>4. ASSUME NEW q \in Requests PROVE OnePlace(q)'
  <2>1. OnePlace(q)
    BY DEF OwnedInv
  <2>2. Held(q)' <=> Held(q)
    BY <1>1 DEF Held
  <2>3. QED
    BY <1>1, <1>2, <2>1, <2>2 DEF OnePlace
<1>5. QED
  BY <1>1, <1>3, <1>4 DEF OwnedInv

\* The poll frees a request after it has called it back, and drops it from its list.
LEMMA CallBackKeeps == ASSUME OwnedInv, CallBack PROVE OwnedInv'
<1> DEFINE r == Head(ready)
<1>1. /\ ready' \in Seq(Requests) /\ r \in Requests /\ IsInjective(ready')
      /\ ToSet(ready) = ToSet(ready') \cup {r} /\ r \notin ToSet(ready')
  BY TailIs DEF CallBack, OwnedInv, NetTypes, NoneTwice
<1>2. /\ UNCHANGED <<pending, completed, hand, asked, netPc>>
      /\ freed' = Freed({r}) /\ called' = [called EXCEPT ![r] = @ + 1]
  BY DEF CallBack
<1> HIDE DEF r
<1>3. /\ freed' \in [Requests -> Nat]
      /\ \A q \in Requests : freed'[q] = IF q = r THEN freed[q] + 1 ELSE freed[q]
  BY <1>2, FreedIs DEF OwnedInv
<1>4. /\ called' \in [Requests -> Nat]
      /\ \A q \in Requests : called'[q] = IF q = r THEN called[q] + 1 ELSE called[q]
  BY <1>1, <1>2 DEF OwnedInv, NetTypes
<1>5. NetTypes' /\ NoneTwice'
  BY <1>1, <1>2, <1>3, <1>4 DEF OwnedInv, NetTypes, NoneTwice
<1>6. ASSUME NEW q \in Requests PROVE OnePlace(q)'
  <2>1. OnePlace(q) /\ called[q] \in Nat /\ freed[q] \in Nat
    BY DEF OwnedInv, NetTypes
  <2>2. Held(q)' <=> Held(q)
    BY <1>2 DEF Held
  <2>3. CASE q = r
    <3>1. /\ q \notin ToSet(pending) /\ q \notin ToSet(completed) /\ ~Held(q)
          /\ freed[q] = 0 /\ called[q] <= freed[q]
      BY <1>1, <2>1, <2>3 DEF OnePlace
    <3>2. freed'[q] = 1 /\ called'[q] <= 1
      BY <1>1, <1>3, <1>4, <2>1, <2>3, <3>1
    <3>3. \A t, u \in Threads : hand'[t] = q /\ hand'[u] = q => t = u
      BY <1>2, <2>1 DEF OnePlace
    <3>4. q \notin ToSet(ready') /\ q \notin ToSet(pending') /\ q \notin ToSet(completed') /\ ~Held(q)'
      BY <1>1, <1>2, <2>2, <2>3, <3>1
    <3>5. QED
      BY <1>1, <1>2, <2>1, <2>3, <3>2, <3>3, <3>4 DEF OnePlace
  <2>4. CASE q # r
    <3>1. /\ freed'[q] = freed[q] /\ called'[q] = called[q]
          /\ q \in ToSet(ready') <=> q \in ToSet(ready)
      BY <1>1, <1>3, <1>4, <2>4
    <3>2. QED
      BY <1>2, <2>1, <2>2, <3>1 DEF OnePlace
  <2>5. QED
    BY <2>3, <2>4
<1>7. QED
  BY <1>2, <1>5, <1>6 DEF OwnedInv

\* A worker takes a request out of the queue and has it in hand.
LEMMA TakeKeeps == ASSUME OwnedInv, NEW t \in Threads, Take(t) PROVE OwnedInv'
<1>1. PICK i \in 1..Len(pending) :
        hand' = [hand EXCEPT ![t] = pending[i]] /\ pending' = RemoveAt(pending, i)
  <2>1. PICK i \in Mine(t) :
          hand' = [hand EXCEPT ![t] = pending[i]] /\ pending' = RemoveAt(pending, i)
    BY DEF Take
  <2>2. i \in 1..Len(pending)
    BY DEF Mine, OwnedInv, NetTypes
  <2>3. QED
    BY <2>1, <2>2
<1> DEFINE r == pending[i]
<1>2. r \in Requests /\ r \in ToSet(pending)
  BY DEF OwnedInv, NetTypes, ToSet
<1>3. /\ pending' \in Seq(Requests) /\ IsInjective(pending')
      /\ ToSet(pending') = ToSet(pending) \ {r}
  <2>1. pending \in Seq(Requests) /\ IsInjective(pending)
    BY DEF OwnedInv, NetTypes, NoneTwice
  <2>2. /\ pending' \in Seq(Requests) /\ IsInjective(pending')
        /\ ToSet(pending') \subseteq ToSet(pending) \ {r}
        /\ \A k \in 1..Len(pending) : k # i => pending[k] \in ToSet(pending')
    BY <1>1, <2>1, RemoveAtIs, RemovalKeeps
  <2>3. ToSet(pending) \ {r} \subseteq ToSet(pending')
    BY <2>1, <2>2 DEF ToSet
  <2>4. QED
    BY <2>2, <2>3
<1> HIDE DEF r
<1>4. /\ hand' \in [Threads -> Requests \cup {Nobody}] /\ hand'[t] = r
      /\ \A u \in Threads : u # t => hand'[u] = hand[u]
  BY <1>1, <1>2 DEF r, OwnedInv, NetTypes
<1>5. /\ netPc' \in [Threads -> NetPcs] /\ netPc'[t] = "run"
      /\ \A u \in Threads : u # t => netPc'[u] = netPc[u]
  BY DEF Take, OwnedInv, NetTypes, NetPcs
<1>6. UNCHANGED <<completed, ready, asked, called, freed>>
  BY DEF Take, ghosts
<1>7. NetTypes' /\ NoneTwice'
  BY <1>3, <1>4, <1>5, <1>6 DEF OwnedInv, NetTypes, NoneTwice
<1>8. ASSUME NEW q \in Requests PROVE OnePlace(q)'
  <2>1. OnePlace(q)
    BY DEF OwnedInv
  <2>2. CASE q = r
    <3>1. q \notin ToSet(completed) \cup ToSet(ready) /\ ~Held(q) /\ freed[q] = 0 /\ q \notin ToSet(pending')
      BY <1>2, <1>3, <2>1, <2>2 DEF OnePlace
    <3>2. \A u, v \in Threads : hand'[u] = q /\ hand'[v] = q => u = v
      BY <1>4, <3>1 DEF Held
    <3>3. Held(q)' /\ q \in asked
      BY <1>2, <1>4, <2>1, <2>2 DEF Held, OnePlace
    <3>4. QED
      BY <1>6, <2>1, <3>1, <3>2, <3>3 DEF OnePlace
  <2>3. CASE q # r
    <3>1. Held(q)' <=> Held(q)
      <4>1. hand[t] # q
        BY DEF Take, OwnedInv
      <4>2. QED
        BY <1>4, <2>3, <4>1 DEF Held
    <3>2. \A u, v \in Threads : hand'[u] = q /\ hand'[v] = q => u = v
      BY <1>4, <2>1, <2>3 DEF OnePlace
    <3>3. q \in ToSet(pending') <=> q \in ToSet(pending)
      BY <1>3, <2>3
    <3>4. QED
      BY <1>6, <2>1, <3>1, <3>2, <3>3 DEF OnePlace
  <2>4. QED
    BY <2>2, <2>3
<1>9. \A u \in Threads : netPc'[u] = "run" <=> hand'[u] \in Requests
  BY <1>2, <1>4, <1>5 DEF Take, OwnedInv
<1>10. QED
  BY <1>7, <1>8, <1>9 DEF OwnedInv

\* A worker lets go of the request it has in hand.
LEMMA HandEmptied ==
  ASSUME OwnedInv, NEW t \in Threads, hand' = [hand EXCEPT ![t] = Nobody], hand[t] \in Requests
  PROVE  /\ hand' \in [Threads -> Requests \cup {Nobody}]
         /\ \A u \in Threads : hand'[u] \in Requests => u # t /\ hand'[u] = hand[u]
         /\ \A q \in Requests : Held(q)' <=> Held(q) /\ q # hand[t]
         /\ Held(hand[t])
<1>1. /\ hand' \in [Threads -> Requests \cup {Nobody}] /\ hand'[t] = Nobody
      /\ \A u \in Threads : u # t => hand'[u] = hand[u]
  BY DEF OwnedInv, NetTypes
<1>2. \A u \in Threads : hand'[u] \in Requests => u # t /\ hand'[u] = hand[u]
  BY <1>1, NetAssumption
<1>3. Held(hand[t])
  BY DEF Held
<1>4. ASSUME NEW q \in Requests PROVE Held(q)' <=> Held(q) /\ q # hand[t]
  <2>1. OnePlace(hand[t])
    BY DEF OwnedInv
  <2>2. \A u \in Threads : hand[u] = hand[t] => u = t
    BY <2>1 DEF OnePlace
  <2>3. QED
    BY <1>1, <1>2, <1>4, <2>2 DEF Held
<1>5. QED
  BY <1>1, <1>2, <1>3, <1>4

LEMMA HandOverKeeps == ASSUME OwnedInv, NEW t \in Threads, Deliver(t) \/ Drop(t) PROVE OwnedInv'
<1> DEFINE r == hand[t]
<1>1. r \in Requests /\ hand' = [hand EXCEPT ![t] = Nobody]
  BY DEF Deliver, Drop, OwnedInv
<1>2. /\ hand' \in [Threads -> Requests \cup {Nobody}]
      /\ \A u \in Threads : hand'[u] \in Requests => u # t /\ hand'[u] = hand[u]
      /\ \A q \in Requests : Held(q)' <=> Held(q) /\ q # r
      /\ Held(r)
  BY <1>1, HandEmptied
<1>3. /\ netPc' \in [Threads -> NetPcs]
      /\ netPc'[t] # "run" /\ \A u \in Threads : u # t => netPc'[u] = netPc[u]
  BY DEF Deliver, Drop, OwnedInv, NetTypes, NetPcs
<1>4. UNCHANGED <<pending, ready, asked, called>>
  BY DEF Deliver, Drop, queueVars, ghosts
<1>5. /\ r \notin ToSet(pending) /\ r \notin ToSet(completed) /\ r \notin ToSet(ready)
      /\ freed[r] = 0 /\ called[r] <= freed[r]
  BY <1>1, <1>2 DEF OwnedInv, OnePlace
<1>6. \A u \in Threads : netPc'[u] = "run" <=> hand'[u] \in Requests
  BY <1>1, <1>2, <1>3 DEF OwnedInv, NetTypes
<1>7. ASSUME NEW q \in Requests
      PROVE  \A u, v \in Threads : hand'[u] = q /\ hand'[v] = q => u = v
  <2>1. \A u, v \in Threads : hand[u] = q /\ hand[v] = q => u = v
    BY DEF OwnedInv, OnePlace
  <2>2. QED
    BY <1>2, <2>1
<1>8. \/ /\ completed' = Append(completed, r) /\ freed' = freed
      \/ completed' = completed /\ freed' = Freed({r})
  BY DEF Deliver, Drop, queueVars, ghosts
<1> HIDE DEF r
<1>9. CASE completed' = Append(completed, r) /\ freed' = freed
  <2>1. /\ completed' \in Seq(Requests) /\ ToSet(completed') = ToSet(completed) \cup {r}
        /\ IsInjective(completed')
    BY <1>1, <1>5, <1>9, AppendedIs DEF OwnedInv, NetTypes, NoneTwice
  <2>2. NetTypes' /\ NoneTwice'
    BY <1>2, <1>3, <1>4, <1>9, <2>1 DEF OwnedInv, NetTypes, NoneTwice
  <2>3. ASSUME NEW q \in Requests PROVE OnePlace(q)'
    <3>1. OnePlace(q) /\ (Held(q)' <=> Held(q) /\ q # r)
      BY <1>2 DEF OwnedInv
    <3>2. \A u, v \in Threads : hand'[u] = q /\ hand'[v] = q => u = v
      BY <1>7
    <3>3. q \in asked' <=> \/ q \in ToSet(pending') \cup ToSet(completed') \cup ToSet(ready')
                           \/ Held(q)' \/ freed'[q] = 1
      BY <1>2, <1>4, <1>9, <2>1, <3>1 DEF OnePlace
    <3>4. CASE q = r
      BY <1>4, <1>5, <1>9, <2>1, <3>1, <3>2, <3>3, <3>4 DEF OnePlace
    <3>5. CASE q # r
      BY <1>4, <1>9, <2>1, <3>1, <3>2, <3>3, <3>5 DEF OnePlace
    <3>6. QED
      BY <3>4, <3>5
  <2>4. QED
    BY <1>6, <2>2, <2>3 DEF OwnedInv
<1>10. CASE completed' = completed /\ freed' = Freed({r})
  <2>1. /\ freed' \in [Requests -> Nat]
        /\ \A q \in Requests : freed'[q] = IF q = r THEN freed[q] + 1 ELSE freed[q]
    BY <1>10, FreedIs DEF OwnedInv
  <2>2. NetTypes' /\ NoneTwice'
    BY <1>2, <1>3, <1>4, <1>10, <2>1 DEF OwnedInv, NetTypes, NoneTwice
  <2>3. ASSUME NEW q \in Requests PROVE OnePlace(q)'
    <3>1. OnePlace(q) /\ (Held(q)' <=> Held(q) /\ q # r) /\ called[q] \in Nat /\ freed[q] \in Nat
      BY <1>2 DEF OwnedInv, NetTypes
    <3>2. \A u, v \in Threads : hand'[u] = q /\ hand'[v] = q => u = v
      BY <1>7
    <3>3. freed'[q] = (IF q = r THEN freed[q] + 1 ELSE freed[q])
      BY <2>1
    <3>4. CASE q = r
      <4>1. q \in asked' /\ freed'[q] = 1 /\ ~Held(q)'
        BY <1>2, <1>4, <1>5, <3>1, <3>3, <3>4 DEF OnePlace
      <4>2. QED
        BY <1>4, <1>5, <1>10, <3>1, <3>2, <3>4, <4>1 DEF OnePlace
    <3>5. CASE q # r
      BY <1>4, <1>10, <3>1, <3>2, <3>3, <3>5 DEF OnePlace
    <3>6. QED
      BY <3>4, <3>5
  <2>4. QED
    BY <1>6, <2>2, <2>3 DEF OwnedInv
<1>11. QED
  BY <1>8, <1>9, <1>10

LEMMA NetKeeps == OwnedInv /\ StoppedInv /\ [NetNext]_netVars => OwnedInv'
<1> SUFFICES ASSUME OwnedInv, StoppedInv, [NetNext]_netVars PROVE OwnedInv'
  OBVIOUS
<1>1. CASE InitService \/ Poll \/ CallBack
  BY <1>1, InitServiceKeeps, PollKeeps, CallBackKeeps
<1>2. CASE ShutdownFlag \/ ShutdownWakes \/ ShutdownFrees
  BY <1>2, ServiceSwitches, ShutdownFreesKeeps
<1>3. ASSUME NEW r \in Requests, Enqueue(r) \/ Refuse(r) PROVE OwnedInv'
  BY <1>3, EnqueueKeeps, RefuseKeeps
<1>4. ASSUME NEW t \in Threads, NetThread(t) PROVE OwnedInv'
  BY <1>4, WorkerLooks, TakeKeeps, HandOverKeeps DEF NetThread
<1>5. CASE UNCHANGED netVars
  <2>1. UNCHANGED <<pending, completed, ready, hand, asked, called, freed, netPc>>
    BY <1>5 DEF netVars, queueVars, ghosts
  <2>2. netPc' \in [Threads -> NetPcs]
    BY <2>1 DEF OwnedInv, NetTypes
  <2>3. QED
    BY <2>1, <2>2, NothingMoves
<1>6. QED
  BY <1>1, <1>2, <1>3, <1>4, <1>5 DEF NetNext, FrameStep, ShutdownStep

\* How many copies there are where nothing is twice.
LEMMA CopiesIs ==
  ASSUME NEW s \in Seq(Requests), IsInjective(s), NEW r
  PROVE  Copies(s, r) = IF r \in ToSet(s) THEN 1 ELSE 0
<1>1. CASE r \in ToSet(s)
  <2>1. PICK i \in DOMAIN s : s[i] = r
    BY <1>1 DEF ToSet
  <2>2. {k \in DOMAIN s : s[k] = r} = {i}
    BY <2>1 DEF IsInjective
  <2>3. QED
    BY <1>1, <2>2, FS_Singleton DEF Copies
<1>2. CASE r \notin ToSet(s)
  <2>1. {k \in DOMAIN s : s[k] = r} = {}
    BY <1>2 DEF ToSet
  <2>2. QED
    BY <1>2, <2>1, FS_EmptySet DEF Copies
<1>3. QED
  BY <1>1, <1>2

\* Every request that was allocated is in exactly one place or has been freed,
\* once, and is called back at most once, before that; whichever workers take,
\* drop or deliver, and whenever the service is shut down and started again
\* (evo_net_worker, evo_net_poll).
THEOREM RequestsHaveOneOwner == NetSpec => []RequestOwned
<1>1. OwnedInv => RequestOwned
  <2> SUFFICES ASSUME OwnedInv, NEW r \in Requests
               PROVE  /\ Copies(pending, r) + Copies(completed, r) + Copies(ready, r)
                         + Cardinality({t \in Threads : hand[t] = r}) + freed[r]
                           = IF r \in asked THEN 1 ELSE 0
                      /\ called[r] <= freed[r]
    BY DEF RequestOwned
  <2>1. OnePlace(r) /\ freed[r] \in Nat
    BY DEF OwnedInv, NetTypes
  <2>2. /\ Copies(pending, r) = IF r \in ToSet(pending) THEN 1 ELSE 0
        /\ Copies(completed, r) = IF r \in ToSet(completed) THEN 1 ELSE 0
        /\ Copies(ready, r) = IF r \in ToSet(ready) THEN 1 ELSE 0
    BY CopiesIs DEF OwnedInv, NetTypes, NoneTwice
  <2>3. Cardinality({t \in Threads : hand[t] = r}) = IF Held(r) THEN 1 ELSE 0
    <3>1. CASE Held(r)
      <4>1. PICK t \in Threads : hand[t] = r
        BY <3>1 DEF Held
      <4>2. {u \in Threads : hand[u] = r} = {t}
        BY <2>1, <4>1 DEF OnePlace
      <4>3. QED
        BY <3>1, <4>2, FS_Singleton
    <3>2. CASE ~Held(r)
      <4>1. {u \in Threads : hand[u] = r} = {}
        BY <3>2 DEF Held
      <4>2. QED
        BY <3>2, <4>1, FS_EmptySet
    <3>3. QED
      BY <3>1, <3>2
  <2>4. QED
    BY <2>1, <2>2, <2>3 DEF OnePlace
<1>2. QED
  BY <1>1, NetStarts, NetKeeps, NetStops, PTL DEF NetSpec
=============================================================================
