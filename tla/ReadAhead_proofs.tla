-------------------------- MODULE ReadAhead_proofs --------------------------
(***************************************************************************)
(* Type correctness of the read-ahead and the bound on its queues, for     *)
(* every cap, mark, file and number of seeks.                              *)
(***************************************************************************)
EXTENDS ReadAhead, TLAPS

\* A packet in hand is one the file has.
HandInFile == /\ inHand = "video" => vRead < N
              /\ inHand = "audio" => aRead < N

IInv == TypeOK /\ HandInFile /\ QueuesBounded

USE DEF None, Nothing, Streams

(***************************************************************************)
(* An overshoot adds one packet to a queue below its limit, and a push     *)
(* without one adds it to a queue below its cap.                           *)
(***************************************************************************)
LEMMA PushBounded ==
  ASSUME IInv, NEW s \in Streams, Push(s)
  PROVE  /\ vRead' \in 0 .. N /\ aRead' \in 0 .. N
         /\ vq' \in 0 .. vRead' /\ aq' \in 0 .. aRead'
         /\ vq' <= 2 * VCap /\ aq' <= 2 * ACap
         /\ inHand' = Nothing
<1> USE FileAssumption, CapAssumption
<1>1. CASE s = "video"
  <2>1. vq < 2 * VCap
    BY <1>1 DEF IInv, TypeOK, Push, AtCap, MayOvershoot, BelowLimit
  <2> QED BY <1>1, <2>1 DEF IInv, TypeOK, QueuesBounded, HandInFile, Push
<1>2. CASE s = "audio"
  <2>1. aq < 2 * ACap
    BY <1>2 DEF IInv, TypeOK, Push, AtCap, MayOvershoot, BelowLimit
  <2> QED BY <1>2, <2>1 DEF IInv, TypeOK, QueuesBounded, HandInFile, Push
<1> QED BY <1>1, <1>2

(***************************************************************************)
(* The hold's three flags stay Boolean whichever way the check goes.       *)
(***************************************************************************)
LEMMA HoldBoolean ==
  ASSUME TypeOK, CheckHold \/ LowerHold
  PROVE  hold' \in BOOLEAN /\ rebuffer' \in BOOLEAN /\ expired' \in BOOLEAN
BY DEF TypeOK, CheckHold, LowerHold, holding

THEOREM FlowInit == Init => IInv
<1> SUFFICES ASSUME Init PROVE IInv
  OBVIOUS
<1>1. hold \in BOOLEAN
  BY CapAssumption DEF Init
<1>2. /\ done \in BOOLEAN /\ rebuffer \in BOOLEAN /\ expired \in BOOLEAN
      /\ discarding \in BOOLEAN /\ still \in BOOLEAN
      /\ paused \in BOOLEAN /\ scrub \in BOOLEAN
  BY DEF Init
<1>3. /\ vRead = 0 /\ aRead = 0 /\ vq = 0 /\ aq = 0 /\ pcm = 0 /\ inHand = Nothing
      /\ pending = None /\ target = 0 /\ anchor = None /\ seeks = 0
  BY DEF Init
<1> QED BY <1>1, <1>2, <1>3, FileAssumption, CapAssumption
  DEF IInv, TypeOK, HandInFile, QueuesBounded

(***************************************************************************)
(* The invariant is inductive.                                             *)
(***************************************************************************)
THEOREM FlowStep == IInv /\ [Next]_vars => IInv'
<1> SUFFICES ASSUME IInv, [Next]_vars PROVE IInv'
  OBVIOUS
<1> USE FileAssumption, CapAssumption
<1>1. ASSUME NEW s \in Streams, ReadPacket(s) PROVE IInv'
  <2>1. hold' \in BOOLEAN /\ rebuffer' \in BOOLEAN /\ expired' \in BOOLEAN
    BY <1>1, HoldBoolean DEF ReadPacket, IInv
  <2>2. HandInFile'
    BY <1>1 DEF ReadPacket, MayCome, HandInFile, file
  <2> QED BY <1>1, <2>1, <2>2
    DEF ReadPacket, IInv, TypeOK, QueuesBounded, file, queues, window, ui
<1>2. ASSUME ReadEnds PROVE IInv'
  BY <1>2 DEF ReadEnds, LowerHold, IInv, TypeOK, HandInFile, QueuesBounded,
              file, queues, window, ui
<1>3. ASSUME NEW s \in Streams, ReleaseInWait(s) PROVE IInv'
  BY <1>3 DEF ReleaseInWait, LowerHold, IInv, TypeOK, HandInFile, QueuesBounded,
              file, queues, window, ui
<1>4. ASSUME NEW s \in Streams, Push(s) PROVE IInv'
  <2>1. /\ vRead' \in 0 .. N /\ aRead' \in 0 .. N
        /\ vq' \in 0 .. vRead' /\ aq' \in 0 .. aRead'
        /\ vq' <= 2 * VCap /\ aq' <= 2 * ACap
        /\ inHand' = Nothing
    BY <1>4, PushBounded
  <2>2. UNCHANGED <<pcm, done, holding, pending, window, still, ui>>
    BY <1>4 DEF Push
  <2> QED BY <2>1, <2>2
    DEF IInv, TypeOK, HandInFile, QueuesBounded, holding, window, ui
<1>5. ASSUME DropForSeek PROVE IInv'
  BY <1>5 DEF DropForSeek, IInv, TypeOK, HandInFile, QueuesBounded,
              file, queues, holding, window, ui
<1>6. ASSUME TakeSeek PROVE IInv'
  <2>1. vRead' \in 0 .. N /\ aRead' \in 0 .. N /\ target' \in Targets
    BY <1>6 DEF TakeSeek, IInv, TypeOK
  <2>2. vq' = 0 /\ aq' = 0 /\ pcm' = 0 /\ anchor' = None /\ pending' = None
    BY <1>6 DEF TakeSeek
  <2>3. done' \in BOOLEAN /\ discarding' \in BOOLEAN /\ paused' \in BOOLEAN
    BY <1>6 DEF TakeSeek
  <2>4. UNCHANGED <<inHand, holding, still, scrub, seeks>> /\ inHand = Nothing
    BY <1>6 DEF TakeSeek
  <2> QED BY <2>1, <2>2, <2>3, <2>4
    DEF IInv, TypeOK, HandInFile, QueuesBounded, holding
<1>7. ASSUME ShowFrame PROVE IInv'
  <2>1. vq' \in 0 .. vRead /\ vq' <= 2 * VCap
    BY <1>7 DEF ShowFrame, IInv, TypeOK, QueuesBounded
  <2>2. discarding' \in BOOLEAN /\ still' \in BOOLEAN
    BY <1>7 DEF ShowFrame, IInv, TypeOK
  <2>3. anchor' \in None .. (N - 1)
    BY <1>7 DEF ShowFrame, Shown, IInv, TypeOK
  <2>4. UNCHANGED <<file, aq, pcm, inHand, done, holding, pending, target, ui>>
    BY <1>7 DEF ShowFrame
  <2> QED BY <2>1, <2>2, <2>3, <2>4
    DEF IInv, TypeOK, HandInFile, QueuesBounded, file, holding, ui
<1>8. ASSUME DecodeAudio PROVE IInv'
  BY <1>8 DEF DecodeAudio, IInv, TypeOK, HandInFile, QueuesBounded,
              file, holding, window, ui
<1>9. ASSUME Play PROVE IInv'
  BY <1>9 DEF Play, IInv, TypeOK, HandInFile, QueuesBounded, file, holding, window, ui
<1>10. ASSUME PictureStandsStill \/ ForgetStill PROVE IInv'
  <2>1. still' \in BOOLEAN
    BY <1>10 DEF PictureStandsStill, ForgetStill
  <2>2. UNCHANGED <<file, queues, inHand, done, holding, pending, window, ui>>
    BY <1>10 DEF PictureStandsStill, ForgetStill
  <2> QED BY <2>1, <2>2
    DEF IInv, TypeOK, HandInFile, QueuesBounded, file, queues, holding, window, ui
<1>11. ASSUME DeadlinePasses PROVE IInv'
  BY <1>11 DEF DeadlinePasses, IInv, TypeOK, HandInFile, QueuesBounded,
               file, queues, window, ui
<1>12. ASSUME TogglePause \/ ToggleScrub PROVE IInv'
  <2>1. paused' \in BOOLEAN /\ scrub' \in BOOLEAN
    BY <1>12 DEF TogglePause, ToggleScrub, IInv, TypeOK
  <2>2. UNCHANGED <<file, queues, inHand, done, holding, pending, window, still, seeks>>
    BY <1>12 DEF TogglePause, ToggleScrub
  <2> QED BY <2>1, <2>2 DEF IInv, TypeOK, HandInFile, QueuesBounded,
                            file, queues, holding, window
<1>13. ASSUME NEW t \in Targets, RequestSeek(t) PROVE IInv'
  <2>1. paused' \in BOOLEAN /\ scrub' \in BOOLEAN
    BY <1>13 DEF RequestSeek, IInv, TypeOK
  <2>2. seeks' \in 0 .. MaxSeeks
    BY <1>13 DEF RequestSeek, IInv, TypeOK
  <2> QED BY <1>13, <2>1, <2>2
    DEF RequestSeek, IInv, TypeOK, HandInFile, QueuesBounded, file, queues, holding, window
<1>14. ASSUME UNCHANGED vars PROVE IInv'
  BY <1>14 DEF vars, IInv, TypeOK, HandInFile, QueuesBounded, file, queues,
               holding, window, ui
<1> QED
  BY <1>1, <1>2, <1>3, <1>4, <1>5, <1>6, <1>7, <1>8, <1>9, <1>10, <1>11,
     <1>12, <1>13, <1>14 DEF Next, Demux, AudioOut, User

THEOREM FlowInvariant == Spec => []IInv
BY FlowInit, FlowStep, PTL DEF Spec

(***************************************************************************)
(* Neither packet queue ever holds more than twice its cap.                *)
(***************************************************************************)
THEOREM QueuesStayBounded == Spec => []QueuesBounded
<1>1. IInv => QueuesBounded
  BY DEF IInv
<1> QED BY <1>1, FlowInvariant, PTL

(***************************************************************************)
(* Counters and flags stay in their ranges.                                *)
(***************************************************************************)
THEOREM FlowTypeCorrect == Spec => []TypeOK
<1>1. IInv => TypeOK
  BY DEF IInv
<1> QED BY <1>1, FlowInvariant, PTL
=============================================================================
