---------------------------- MODULE NetRequests ----------------------------
(***************************************************************************)
(* The request queue of the add-ons' network service, addons/src/evo_net.c *)
(* from evo_net_worker to evo_net_poll.  Workers of two kinds take         *)
(* requests of their kind from one array under g_queue_mutex, run them,    *)
(* and put them into a second array; the frame loop empties that one and   *)
(* calls back.  g_running is read and written without the mutex too.       *)
(***************************************************************************)
EXTENDS Naturals, FiniteSets, SequencesExt

CONSTANTS Requests, Threads,
          Kind,        \* of each request and each thread: "page" or "image"
          QueueMax,    \* EVO_NET_MAX_QUEUE
          StartedSets, \* sets of threads whose creation succeeded
          Nobody,
          MaxInits     \* bound: calls of evo_net_init

ASSUME NetAssumption ==
  /\ Kind \in [Requests \cup Threads -> {"page", "image"}]
  /\ QueueMax \in Nat \ {0}
  /\ Nobody \notin Requests \cup Threads
  /\ \A up \in StartedSets : up \subseteq Threads

VARIABLES serving,            \* g_running
          pending, completed, \* the two arrays
          ready,              \* requests evo_net_poll has copied and not called back yet
          queueMutex,         \* who holds g_queue_mutex across steps
          netPc, hand,        \* each worker: where it is, its request
          down,               \* evo_net_shutdown
          inits,
          asked,              \* history: the requests that were allocated
          called, freed       \* history: how often each request was called back, freed

queueVars == <<pending, completed, ready>>
ghosts == <<asked, called, freed>>
netVars == <<serving, queueVars, queueMutex, netPc, hand, down, inits, ghosts>>

NetInit ==
  /\ serving = FALSE
  /\ pending = <<>> /\ completed = <<>> /\ ready = <<>>
  /\ queueMutex = Nobody
  /\ netPc = [t \in Threads |-> "none"]
  /\ hand = [t \in Threads |-> Nobody]
  /\ down = "done"
  /\ inits = 0
  /\ asked = {}
  /\ called = [r \in Requests |-> 0]
  /\ freed = [r \in Requests |-> 0]

Woken == [t \in Threads |-> IF netPc[t] = "asleep" THEN "look" ELSE netPc[t]]
Freed(rs) == [r \in Requests |-> IF r \in rs THEN freed[r] + 1 ELSE freed[r]]
\* request_async's malloc: a request that was not there before.
Allocate(r) == /\ r \notin asked
               /\ asked' = asked \cup {r}
-----------------------------------------------------------------------------
(***************************************************************************)
(* The UI thread: init, request, poll, shutdown.                           *)
(***************************************************************************)
\* evo_net_init: some page worker has to start.
InitService ==
  /\ ~serving
  /\ down = "done"
  /\ inits < MaxInits
  /\ inits' = inits + 1
  /\ pending' = <<>> /\ completed' = <<>>
  /\ \E up \in StartedSets :
       /\ \E t \in up : Kind[t] = "page"
       /\ netPc' = [t \in Threads |-> IF t \in up THEN "top" ELSE "none"]
  /\ serving' = TRUE
  /\ down' = "no"
  /\ UNCHANGED <<ready, queueMutex, hand, ghosts>>

\* Faulty variant: pthread_cond_signal, which wakes one worker of whatever kind.
EnqueueWakingOne(r) ==
  /\ serving
  /\ queueMutex = Nobody
  /\ Allocate(r)
  /\ Len(pending) < QueueMax
  /\ pending' = Append(pending, r)
  /\ LET sleepers == {t \in Threads : netPc[t] = "asleep"} IN
       IF sleepers = {} THEN UNCHANGED netPc
       ELSE \E t \in sleepers : netPc' = [netPc EXCEPT ![t] = "look"]
  /\ UNCHANGED <<serving, completed, ready, queueMutex, hand, down, inits, called, freed>>

\* request_async with room.
Enqueue(r) ==
  /\ serving
  /\ queueMutex = Nobody
  /\ Allocate(r)
  /\ Len(pending) < QueueMax
  /\ pending' = Append(pending, r)
  /\ netPc' = Woken
  /\ UNCHANGED <<serving, completed, ready, queueMutex, hand, down, inits, called, freed>>

\* EVO_NET_ASYNC_ERR_FULL: the caller is told, the request is freed.
Refuse(r) ==
  /\ serving
  /\ queueMutex = Nobody
  /\ Allocate(r)
  /\ Len(pending) >= QueueMax
  /\ freed' = Freed({r})
  /\ UNCHANGED <<serving, queueVars, queueMutex, netPc, hand, down, inits, called>>

\* Faulty variant: the completed array is copied and not emptied.
PollKeeping ==
  /\ ready = <<>> /\ completed # <<>>
  /\ down = "no"
  /\ queueMutex = Nobody
  /\ ready' = completed
  /\ UNCHANGED <<serving, pending, completed, queueMutex, netPc, hand, down, inits, ghosts>>

\* evo_net_poll's critical section.
Poll ==
  /\ ready = <<>> /\ completed # <<>>
  /\ down = "no"
  /\ queueMutex = Nobody
  /\ ready' = completed
  /\ completed' = <<>>
  /\ UNCHANGED <<serving, pending, queueMutex, netPc, hand, down, inits, ghosts>>

CallBack ==
  /\ ready # <<>>
  /\ called' = [called EXCEPT ![Head(ready)] = @ + 1]
  /\ freed' = Freed({Head(ready)})
  /\ ready' = Tail(ready)
  /\ UNCHANGED <<serving, pending, completed, queueMutex, netPc, hand, down, inits, asked>>

\* evo_net_shutdown, outside evo_net_poll: first the flag, without the mutex.
ShutdownFlag ==
  /\ serving
  /\ ready = <<>>
  /\ serving' = FALSE
  /\ down' = "broadcast"
  /\ UNCHANGED <<queueVars, queueMutex, netPc, hand, inits, ghosts>>

\* Faulty variant: the broadcast does not take the mutex.
ShutdownWakesUnlocked ==
  /\ down = "broadcast"
  /\ netPc' = Woken
  /\ down' = "join"
  /\ UNCHANGED <<serving, queueVars, queueMutex, hand, inits, ghosts>>

ShutdownWakes ==
  /\ down = "broadcast"
  /\ queueMutex = Nobody
  /\ netPc' = Woken
  /\ down' = "join"
  /\ UNCHANGED <<serving, queueVars, queueMutex, hand, inits, ghosts>>

ShutdownFrees ==
  /\ down = "join"
  /\ \A t \in Threads : netPc[t] \in {"none", "ended"}
  /\ freed' = Freed(ToSet(pending) \cup ToSet(completed))
  /\ pending' = <<>> /\ completed' = <<>>
  /\ down' = "done"
  /\ UNCHANGED <<serving, ready, queueMutex, netPc, hand, inits, asked, called>>
-----------------------------------------------------------------------------
(***************************************************************************)
(* evo_net_worker.                                                         *)
(***************************************************************************)
Top(t) ==
  /\ netPc[t] = "top"
  /\ netPc' = [netPc EXCEPT ![t] = IF serving THEN "look" ELSE "ended"]
  /\ UNCHANGED <<serving, queueVars, queueMutex, hand, down, inits, ghosts>>

Mine(t) == {i \in DOMAIN pending : Kind[pending[i]] = Kind[t]}

\* With the mutex: leave, take the first request of the kind, or go to sleep.
Leave(t) ==
  /\ netPc[t] = "look" /\ queueMutex = Nobody
  /\ ~serving
  /\ netPc' = [netPc EXCEPT ![t] = "ended"]
  /\ UNCHANGED <<serving, queueVars, queueMutex, hand, down, inits, ghosts>>

Take(t) ==
  /\ netPc[t] = "look" /\ queueMutex = Nobody
  /\ serving
  /\ \E i \in Mine(t) :
       /\ \A j \in Mine(t) : i <= j
       /\ hand' = [hand EXCEPT ![t] = pending[i]]
       /\ pending' = RemoveAt(pending, i)
  /\ netPc' = [netPc EXCEPT ![t] = "run"]
  /\ UNCHANGED <<serving, completed, ready, queueMutex, down, inits, ghosts>>

FindNothing(t) ==
  /\ netPc[t] = "look" /\ queueMutex = Nobody
  /\ serving
  /\ Mine(t) = {}
  /\ queueMutex' = t
  /\ netPc' = [netPc EXCEPT ![t] = "falling"]
  /\ UNCHANGED <<serving, queueVars, hand, down, inits, ghosts>>

\* pthread_cond_wait, which lets go of the mutex; g_running may have changed.
FallAsleep(t) ==
  /\ netPc[t] = "falling"
  /\ queueMutex' = Nobody
  /\ netPc' = [netPc EXCEPT ![t] = "asleep"]
  /\ UNCHANGED <<serving, queueVars, hand, down, inits, ghosts>>

\* The answer, or its absence, goes to the frame loop while there is room.
Deliver(t) ==
  /\ netPc[t] = "run"
  /\ queueMutex = Nobody
  /\ Len(completed) < QueueMax
  /\ completed' = Append(completed, hand[t])
  /\ hand' = [hand EXCEPT ![t] = Nobody]
  /\ netPc' = [netPc EXCEPT ![t] = "top"]
  /\ UNCHANGED <<serving, pending, ready, queueMutex, down, inits, ghosts>>

\* Faulty variant: what does not fit is forgotten, not freed.
DropForgetting(t) ==
  /\ netPc[t] = "run"
  /\ queueMutex = Nobody
  /\ Len(completed) >= QueueMax
  /\ hand' = [hand EXCEPT ![t] = Nobody]
  /\ netPc' = [netPc EXCEPT ![t] = "top"]
  /\ UNCHANGED <<serving, queueVars, queueMutex, down, inits, ghosts>>

\* "Overflow drop": freed, and never called back.
Drop(t) ==
  /\ netPc[t] = "run"
  /\ queueMutex = Nobody
  /\ Len(completed) >= QueueMax
  /\ freed' = Freed({hand[t]})
  /\ hand' = [hand EXCEPT ![t] = Nobody]
  /\ netPc' = [netPc EXCEPT ![t] = "top"]
  /\ UNCHANGED <<serving, queueVars, queueMutex, down, inits, asked, called>>

NetThread(t) == \/ Top(t) \/ Leave(t) \/ Take(t) \/ FindNothing(t) \/ FallAsleep(t)
                \/ Deliver(t) \/ Drop(t)
ShutdownStep == ShutdownWakes \/ ShutdownFrees
FrameStep == Poll \/ CallBack

NetNext == \/ InitService
           \/ \E r \in Requests : Enqueue(r) \/ Refuse(r)
           \/ FrameStep
           \/ ShutdownFlag \/ ShutdownStep
           \/ \E t \in Threads : NetThread(t)

NetFairness == /\ \A t \in Threads : WF_netVars(NetThread(t))
               /\ WF_netVars(ShutdownStep)
               /\ WF_netVars(FrameStep)

NetSpec == NetInit /\ [][NetNext]_netVars /\ NetFairness
-----------------------------------------------------------------------------
Copies(s, r) == Cardinality({i \in DOMAIN s : s[i] = r})

\* Every request that was allocated has exactly one owner, an array, a worker or
\* the poll, until it is freed, and is freed once: none is lost on the way, in
\* two places, or freed while somebody has it.
RequestOwned ==
  \A r \in Requests :
    LET owners == Copies(pending, r) + Copies(completed, r) + Copies(ready, r)
                  + Cardinality({t \in Threads : hand[t] = r})
    IN /\ owners + freed[r] = IF r \in asked THEN 1 ELSE 0
       /\ called[r] <= freed[r]

Served(r) == \E t \in Threads : netPc[t] \notin {"none", "ended"} /\ Kind[t] = Kind[r]

\* A queued request of a kind some worker serves is called back, unless the
\* completed array was full or the service is shut down: a worker of the right
\* kind always wakes.
RequestAnswered ==
  \A r \in Requests :
    (r \in ToSet(pending) /\ Served(r)) ~> (freed[r] = 1)

\* evo_net_shutdown joins its workers and returns: none of them sleeps through
\* the broadcast.
ShutdownEnds == (down # "done" /\ down # "no") ~> (down = "done")
=============================================================================
