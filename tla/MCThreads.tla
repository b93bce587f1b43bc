----------------------------- MODULE MCThreads -----------------------------
(***************************************************************************)
(* Five sets of threads that share no state, each checked alone: a         *)
(* behaviour picks one of them and leaves the others as they start, where  *)
(* their fairness asks for nothing.                                        *)
(***************************************************************************)
EXTENDS NetRequests, DemuxRecovery, SessionThreads, SeekPark, Previews

MCRequests == {"p1", "p2", "i1"}
MCThreadIds == {"tp", "ti"}
MCKind == [x \in MCRequests \cup MCThreadIds |-> IF x \in {"i1", "ti"} THEN "image" ELSE "page"]
MCStarted == {{"tp", "ti"}, {"tp"}}

V(n, key) == [s |-> "v", ts |-> n, key |-> key]
A(n) == [s |-> "a", ts |-> n, key |-> FALSE]
T(n) == [s |-> "t", ts |-> n, key |-> FALSE]
\* Sound first and two key packets; and packets without stamps, length unknown.
MCFiles == {
  [packets |-> <<A(1), V(1, TRUE), V(2, FALSE), A(3), T(3), V(4, TRUE), A(5), V(0, FALSE), V(6, FALSE)>>,
   nearEnd |-> 5],
  [packets |-> <<V(1, TRUE), V(0, FALSE), T(1), A(1), A(0), V(3, FALSE), A(4)>>, nearEnd |-> 0]}

\* Pictures close to each other, and more of them than the cache holds.
MCTimes == 0..2

VARIABLE part

partVars == <<part, netVars, recoveryVars, sessionVars, parkVars, previewVars>>

Init ==
  /\ part \in {"requests", "recovery", "session", "park", "preview"}
  /\ NetInit
  /\ RecoveryInit
  /\ SessionInit
  /\ ParkInit
  /\ part # "park" => ~paused /\ ~otherHold
  /\ PreviewInit

Next ==
  /\ UNCHANGED part
  /\ \/ /\ part = "requests" /\ NetNext
        /\ UNCHANGED <<recoveryVars, sessionVars, parkVars, previewVars>>
     \/ /\ part = "recovery" /\ RecoveryNext
        /\ UNCHANGED <<netVars, sessionVars, parkVars, previewVars>>
     \/ /\ part = "session" /\ SessionNext
        /\ UNCHANGED <<netVars, recoveryVars, parkVars, previewVars>>
     \/ /\ part = "park" /\ ParkNext
        /\ UNCHANGED <<netVars, recoveryVars, sessionVars, previewVars>>
     \/ /\ part = "preview" /\ PreviewNext
        /\ UNCHANGED <<netVars, recoveryVars, sessionVars, parkVars>>

Spec == /\ Init /\ [][Next]_partVars
        /\ NetFairness /\ RecoveryFairness /\ SessionFairness /\ ParkFairness
        /\ PreviewFairness
=============================================================================
