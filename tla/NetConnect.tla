----------------------------- MODULE NetConnect -----------------------------
(***************************************************************************)
(* Connecting to a host with several addresses, addons/src/evo_net.c:      *)
(* evo_net_connect_list tries them one by one, each with a connect() on a  *)
(* thread of its own that the caller stops waiting for after 3 s, and      *)
(* remembers for a while which ones timed out.  Several request workers    *)
(* connect at once and share that memory.  The timed job is also that of   *)
(* the SMB precheck, media/src/evo_smb_io.c.                               *)
(*                                                                         *)
(* Jobs are pieces of memory: one that is free may be allocated again.     *)
(***************************************************************************)
EXTENDS Naturals, SequencesExt

CONSTANTS Callers, ConnJobs,
          List,     \* the host's addresses, in the order of getaddrinfo
          BadMax,   \* EVO_NET_BAD_ADDR_MAX
          NoConnJob,
          MaxCalls  \* bound: calls of each caller

Addresses == ToSet(List)

ASSUME ConnectAssumption ==
  /\ List \in Seq(Addresses) /\ NoConnJob \notin ConnJobs
  /\ BadMax \in Nat \ {0} /\ MaxCalls \in Nat

VARIABLES bad,    \* s_bad_addr: addresses that timed out, the oldest first
          conn,   \* each caller in evo_net_connect_list
          connJobs,   \* each conn_job_t, with the thread that runs it
          tries,  \* history: addresses this call of each caller has tried
          lifted, \* history: addresses unmarked, by whom ever, during the call
          calls

connVars == <<bad, conn, connJobs, tries, lifted, calls>>

\* A conn_job_t: allocated, its detached thread, its socket, and its two flags.
FreeConnJob == [live |-> FALSE, thread |-> "none", sock |-> FALSE, done |-> FALSE, orphan |-> FALSE]
NewConnJob == [FreeConnJob EXCEPT !.live = TRUE, !.thread = "connect"]
Outside == [pc |-> "outside", pass |-> 0, at |-> 1, timedOut |-> {}, job |-> NoConnJob]

ConnectInit ==
  /\ bad = <<>>
  /\ conn = [c \in Callers |-> Outside]
  /\ connJobs = [j \in ConnJobs |-> FreeConnJob]
  /\ tries = [c \in Callers |-> {}]
  /\ lifted = [c \in Callers |-> {}]
  /\ calls = [c \in Callers |-> 0]

\* No two slots hold the same address: addr_note looks for a's before it takes another.
Slot(a) == CHOOSE i \in DOMAIN bad : bad[i] = a
Without(a) == IF a \in ToSet(bad) THEN RemoveAt(bad, Slot(a)) ELSE bad

\* addr_note(a, 0), or the entry's time is up.
Unmark(a) ==
  /\ bad' = Without(a)
  /\ lifted' = [c \in Callers |-> lifted[c] \cup (ToSet(bad) \cap {a})]

\* addr_note(a, 1): in its own slot, a free one, or the one that expires first.
Mark(a) ==
  LET others == Without(a) IN
    IF Len(others) < BadMax
    THEN bad' = Append(others, a) /\ UNCHANGED lifted
    ELSE /\ bad' = Append(Tail(others), a)
         /\ lifted' = [c \in Callers |-> lifted[c] \cup {Head(others)}]

Expire ==
  /\ bad # <<>>
  /\ Unmark(Head(bad))
  /\ UNCHANGED <<conn, connJobs, tries, calls>>
-----------------------------------------------------------------------------
(***************************************************************************)
(* The caller.                                                             *)
(***************************************************************************)
ConnectBegin(c) ==
  /\ conn[c].pc \in {"outside", "connected", "failed"}
  /\ calls[c] < MaxCalls
  /\ calls' = [calls EXCEPT ![c] = @ + 1]
  /\ conn' = [conn EXCEPT ![c] = [Outside EXCEPT !.pc = "look"]]
  /\ tries' = [tries EXCEPT ![c] = {}]
  /\ lifted' = [lifted EXCEPT ![c] = {}]
  /\ UNCHANGED <<bad, connJobs>>

InList(c) == conn[c].at <= Len(List)
Here(c) == List[conn[c].at]
NextAddress(c) == [conn[c] EXCEPT !.pc = "look", !.at = @ + 1, !.job = NoConnJob]
Waiting(c, j) == [conn[c] EXCEPT !.pc = "wait", !.job = j]
Connected(c) == [conn[c] EXCEPT !.pc = "connected", !.job = NoConnJob]

\* Faulty variant: a marked address is passed over in both passes.
PassedOverForGood(c) ==
  \/ Here(c) \in ToSet(bad)
  \/ conn[c].pass = 1 /\ Here(c) \notin ToSet(bad)
  \/ Here(c) \in conn[c].timedOut

\* Pass 0 takes the addresses that are not marked, pass 1 the marked ones.
PassedOver(c) ==
  \/ (conn[c].pass = 0) = (Here(c) \in ToSet(bad))
  \/ Here(c) \in conn[c].timedOut

PassOver(c) ==
  /\ conn[c].pc = "look"
  /\ InList(c) /\ PassedOver(c)
  /\ conn' = [conn EXCEPT ![c] = NextAddress(c)]
  /\ UNCHANGED <<bad, connJobs, tries, lifted, calls>>

NextPass(c) ==
  /\ conn[c].pc = "look"
  /\ ~InList(c)
  /\ conn' = [conn EXCEPT ![c] = IF conn[c].pass = 0 THEN [conn[c] EXCEPT !.pass = 1, !.at = 1]
                                                   ELSE [conn[c] EXCEPT !.pc = "failed"]]
  /\ UNCHANGED <<bad, connJobs, tries, lifted, calls>>

\* connect_on_thread: a job and its detached thread.
StartJob(c) ==
  /\ conn[c].pc = "look"
  /\ InList(c) /\ ~PassedOver(c)
  /\ \E j \in ConnJobs :
       /\ ~connJobs[j].live
       /\ connJobs' = [connJobs EXCEPT ![j] = NewConnJob]
       /\ conn' = [conn EXCEPT ![c] = Waiting(c, j)]
  /\ tries' = [tries EXCEPT ![c] = @ \cup {Here(c)}]
  /\ UNCHANGED <<bad, lifted, calls>>

\* The thread cannot be created: the caller runs the job itself, unbounded.
RunInline(c) ==
  /\ conn[c].pc = "look"
  /\ InList(c) /\ ~PassedOver(c)
  /\ tries' = [tries EXCEPT ![c] = @ \cup {Here(c)}]
  /\ \/ conn' = [conn EXCEPT ![c] = Connected(c)] /\ Unmark(Here(c))
     \/ conn' = [conn EXCEPT ![c] = NextAddress(c)] /\ UNCHANGED <<bad, lifted>>
  /\ UNCHANGED <<connJobs, calls>>

\* The job is done: its socket, if any, is the caller's, who frees the job.
TakeResult(c) ==
  /\ conn[c].pc = "wait"
  /\ connJobs[conn[c].job].done
  /\ connJobs' = [connJobs EXCEPT ![conn[c].job] = FreeConnJob]
  /\ IF connJobs[conn[c].job].sock
     THEN conn' = [conn EXCEPT ![c] = Connected(c)] /\ Unmark(Here(c))
     ELSE conn' = [conn EXCEPT ![c] = NextAddress(c)] /\ UNCHANGED <<bad, lifted>>
  /\ UNCHANGED <<tries, calls>>

\* Faulty variant: the wait that ran out does not look at `done` again.
TimeOutUnchecked(c) ==
  /\ conn[c].pc = "wait"
  /\ connJobs' = [connJobs EXCEPT ![conn[c].job].orphan = TRUE]
  /\ conn' = [conn EXCEPT ![c] = [NextAddress(c) EXCEPT !.timedOut = @ \cup {Here(c)}]]
  /\ Mark(Here(c))
  /\ UNCHANGED <<tries, calls>>

TimeOut(c) ==
  /\ conn[c].pc = "wait"
  /\ ~connJobs[conn[c].job].done
  /\ connJobs' = [connJobs EXCEPT ![conn[c].job].orphan = TRUE]
  /\ conn' = [conn EXCEPT ![c] = [NextAddress(c) EXCEPT !.timedOut = @ \cup {Here(c)}]]
  /\ Mark(Here(c))
  /\ UNCHANGED <<tries, calls>>
-----------------------------------------------------------------------------
(***************************************************************************)
(* conn_job_run.                                                           *)
(***************************************************************************)
ConnectReturns(j) ==
  /\ connJobs[j].thread = "connect"
  /\ \E answered \in BOOLEAN :
       connJobs' = [connJobs EXCEPT ![j].thread = "publish", ![j].sock = answered]
  /\ UNCHANGED <<bad, conn, tries, lifted, calls>>

\* Under the job's lock: the result, and whether anybody still waits for it.
Publish(j) ==
  /\ connJobs[j].thread = "publish"
  /\ connJobs' = [connJobs EXCEPT ![j].done = TRUE,
                                 ![j].thread = IF connJobs[j].orphan THEN "orphan" ELSE "none"]
  /\ UNCHANGED <<bad, conn, tries, lifted, calls>>

\* Nobody does: the thread closes the socket and frees the job.
FreeOrphan(j) ==
  /\ connJobs[j].thread = "orphan"
  /\ connJobs' = [connJobs EXCEPT ![j] = FreeConnJob]
  /\ UNCHANGED <<bad, conn, tries, lifted, calls>>

Caller(c) == \/ PassOver(c) \/ NextPass(c) \/ StartJob(c) \/ RunInline(c) \/ TakeResult(c) \/ TimeOut(c)
JobThread(j) == ConnectReturns(j) \/ Publish(j) \/ FreeOrphan(j)

ConnectNext == \/ \E c \in Callers : ConnectBegin(c) \/ Caller(c)
               \/ \E j \in ConnJobs : JobThread(j)
               \/ Expire

ConnectSpec == ConnectInit /\ [][ConnectNext]_connVars
-----------------------------------------------------------------------------
WaitsFor(c, j) == conn[c].pc = "wait" /\ conn[c].job = j

\* Every job has exactly one who will free it, its caller or its thread, and
\* nobody uses one that is free: at the moment the wait runs out both might
\* take it for theirs, or neither.  A socket goes with its job, so none leaks.
JobHasOneOwner ==
  \A j \in ConnJobs :
    /\ connJobs[j].live /\ ~connJobs[j].orphan => \E c \in Callers : WaitsFor(c, j)
    /\ connJobs[j].live /\ connJobs[j].orphan => connJobs[j].thread # "none"
    /\ ~connJobs[j].live => connJobs[j].thread = "none" /\ ~connJobs[j].sock
    /\ \A c, d \in Callers : WaitsFor(c, j) /\ WaitsFor(d, j) => c = d
    /\ \A c \in Callers : WaitsFor(c, j) => connJobs[j].live /\ ~connJobs[j].orphan

\* A call gives up only after it has tried every address, the marked ones too
\* ("last, not never").  Not so if a mark is lifted during the call: an
\* address marked in the first pass and unmarked in the second is never tried.
EveryAddressTried ==
  \A c \in Callers :
    conn[c].pc = "failed" => Addresses \subseteq tries[c] \cup lifted[c]
=============================================================================
