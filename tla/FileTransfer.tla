---------------------------- MODULE FileTransfer ----------------------------
(***************************************************************************)
(* Copy, move and delete of the file browser:                              *)
(* core/src/services/FileTransferService.cpp.  One worker thread carries   *)
(* out one job at a time; the UI thread starts and cancels it.  Whatever   *)
(* state the worker is stopped in, the files are as `store` says: an       *)
(* invariant over all states is therefore also what a power cut leaves.    *)
(*                                                                         *)
(* A place is a name in a folder.  Data is named by the place it was       *)
(* written to first, so that what became of it can be told.  A job on a    *)
(* folder puts its files into the landing folder `to` ("dst/srcName").     *)
(* The collision policy is AutoRename, the only one the program sets.      *)
(***************************************************************************)
EXTENDS Naturals

CONSTANTS Folders, Names,
          Jobs,      \* [op, from, to, only]: only is one name, or All of the folder
          All, Nothing, Partial,
          FirstFiles,\* places that hold a file at first, each its own data
          MaxJobs    \* bound: jobs started

Places == Folders \X Names
Ops == {"copy", "move", "delete"}

ASSUME PlacesAssumption ==
  /\ FirstFiles \subseteq Places
  /\ All \notin Names
  /\ Nothing # Partial /\ {Nothing, Partial} \cap Places = {}
ASSUME JobsAssumption ==
  Jobs \subseteq [op : Ops, from : Folders, to : Folders, only : Names \cup {All}]

VARIABLES store,       \* the file system: what each place holds
          busy, cancel,\* m_isBusy, m_cancelRequested
          status,      \* m_progress.status
          job,         \* m_activeOp, m_activeSrc, m_activeDst, m_activeIsDir
          wpc,         \* the worker thread
          todo,        \* entries still to copy
          here, dst,   \* entry in hand, and m_currentDestinationPartialFile
          left,        \* names recursiveDelete has still to visit
          promised,    \* history: data the job's scan saw
          unprotected, \* history: data asked to be deleted, or that the code does not look after
          started      \* jobs started so far

workerVars == <<wpc, todo, here, dst, left>>
ghostVars == <<promised, unprotected>>
transferVars == <<store, busy, cancel, status, job, workerVars, ghostVars, started>>

NoJob == [op |-> "none"]

TransferInit ==
  /\ store = [p \in Places |-> IF p \in FirstFiles THEN p ELSE Nothing]
  /\ busy = FALSE /\ cancel = FALSE
  /\ status = "idle"
  /\ job = NoJob
  /\ wpc = "none"
  /\ todo = {} /\ left = {}
  /\ here = Nothing /\ dst = Nothing
  /\ promised = {} /\ unprotected = {}
  /\ started = 0

Held(folder) == {n \in Names : store[<<folder, n>>] # Nothing}

\* The names the job's source stands for.
SourceNames(j) == IF j.only = All THEN Held(j.from) ELSE Held(j.from) \cap {j.only}
DataAt(folder, names) == {store[<<folder, n>>] : n \in names}
-----------------------------------------------------------------------------
(***************************************************************************)
(* The UI thread.                                                          *)
(***************************************************************************)
\* startCopy, startMove, startDelete.  The thread may not be created.
Start(j) ==
  /\ ~busy
  /\ started < MaxJobs
  /\ j.op = "delete" \/ SourceNames(j) # {}
  /\ started' = started + 1
  /\ job' = j
  /\ cancel' = FALSE
  /\ status' = IF j.op = "delete" THEN "transferring" ELSE "scanning"
  /\ \E created \in BOOLEAN :
       /\ busy' = created
       /\ wpc' = IF created THEN "begin" ELSE "none"
  /\ promised' = {}
  /\ unprotected' = IF j.op = "delete"
                    THEN unprotected \cup DataAt(j.from, SourceNames(j)) ELSE unprotected
  /\ UNCHANGED <<store, todo, here, dst, left>>

Cancel ==
  /\ busy
  /\ cancel' = TRUE
  /\ UNCHANGED <<store, busy, status, job, workerVars, ghostVars, started>>

ResetStatus ==
  /\ ~busy
  /\ status' = "idle"
  /\ job' = NoJob
  /\ UNCHANGED <<store, busy, cancel, workerVars, ghostVars, started>>
-----------------------------------------------------------------------------
(***************************************************************************)
(* The worker.                                                             *)
(***************************************************************************)
\* runTransfer's end.
End(success) ==
  /\ status' = IF cancel THEN "cancelled" ELSE IF success THEN "completed" ELSE "failed"
  /\ busy' = FALSE
  /\ wpc' = "none"
  /\ todo' = {} /\ left' = {} /\ here' = Nothing /\ dst' = Nothing

InTheWay(j) ==
  IF j.only = All THEN Held(j.to) # {} \/ j.from = j.to
                  ELSE store[<<j.to, j.only>>] # Nothing

\* executeMove's fast path, which the device may refuse.
Rename ==
  /\ wpc = "begin"
  /\ job.op = "move"
  /\ ~InTheWay(job)
  /\ LET names == SourceNames(job) IN
       /\ names # {}
       /\ store' = [p \in Places |->
                      IF p[1] = job.to /\ p[2] \in names THEN store[<<job.from, p[2]>>]
                      ELSE IF p[1] = job.from /\ p[2] \in names THEN Nothing
                      ELSE store[p]]
       /\ promised' = DataAt(job.from, names)
  /\ End(TRUE)
  /\ UNCHANGED <<cancel, job, unprotected, started>>

\* scanTree.  Entries that cannot be read are passed over, silently.
Scan ==
  /\ wpc = "begin"
  /\ job.op # "delete"
  /\ ~cancel
  /\ \E seen \in SUBSET SourceNames(job) :
       /\ job.only = All \/ seen = {job.only}
       /\ todo' = seen
       /\ promised' = DataAt(job.from, seen)
       /\ unprotected' = IF job.op = "move"
                         THEN unprotected \cup DataAt(job.from, SourceNames(job) \ seen)
                         ELSE unprotected
  /\ wpc' = "next"
  /\ status' = "transferring"
  /\ UNCHANGED <<store, busy, cancel, job, here, dst, left, started>>

\* The scan is cancelled, or the source is gone.
ScanFails ==
  /\ wpc = "begin"
  /\ job.op # "delete"
  /\ cancel \/ SourceNames(job) = {}
  /\ End(FALSE)
  /\ UNCHANGED <<store, cancel, job, ghostVars, started>>

FreeNames(folder) == Names \ Held(folder)

\* Faulty variant: a name that is taken is used all the same.
ResolveDestinationOver(folder, n) == n

\* resolveDestinationCollision.  After the last alternative name: over the file.
ResolveDestination(folder, n) ==
  IF n \in FreeNames(folder) \/ FreeNames(folder) = {} THEN n
  ELSE CHOOSE c \in Names : c \in FreeNames(folder)

\* With no free name left, the file under the name itself is given up.
GivenUp(folder, name) == IF FreeNames(folder) = {} THEN {store[<<folder, name>>]} ELSE {}

\* copySingleFile up to the open of its destination.
OpenFile ==
  /\ wpc = "next"
  /\ ~cancel
  /\ \E n \in todo :
       LET name == ResolveDestination(job.to, n) IN
         /\ here' = n
         /\ dst' = name
         /\ store' = [store EXCEPT ![<<job.to, name>>] = Partial]
         /\ unprotected' = unprotected \cup GivenUp(job.to, name)
  /\ wpc' = "copy"
  /\ UNCHANGED <<busy, cancel, status, job, todo, left, promised, started>>

\* Faulty variant: what cannot be opened is passed over, and the job succeeds.
OpenFailsIgnored ==
  /\ wpc = "next"
  /\ todo # {} \/ cancel
  /\ End(TRUE)
  /\ UNCHANGED <<store, cancel, job, ghostVars, started>>

\* It is cancelled or the folder cannot be made; or a file cannot be opened,
\* and what bears the destination's name is unlinked like a broken copy.
OpenFails ==
  /\ wpc = "next"
  /\ \/ /\ todo # {} \/ cancel
        /\ UNCHANGED <<store, unprotected>>
     \/ \E n \in todo :
          LET name == ResolveDestination(job.to, n) IN
            /\ store' = [store EXCEPT ![<<job.to, name>>] = Nothing]
            /\ unprotected' = unprotected \cup GivenUp(job.to, name)
  /\ End(FALSE)
  /\ UNCHANGED <<cancel, job, promised, started>>

\* The last byte is written, by this process or by the FTP daemon.
FileCopied ==
  /\ wpc = "copy"
  /\ ~cancel
  /\ store[<<job.from, here>>] \in Places
  /\ store' = [store EXCEPT ![<<job.to, dst>>] = store[<<job.from, here>>]]
  /\ todo' = todo \ {here}
  /\ here' = Nothing /\ dst' = Nothing
  /\ wpc' = "next"
  /\ UNCHANGED <<busy, cancel, status, job, left, ghostVars, started>>

\* Faulty variant: a broken copy is left where it is.
GiveUpFileKeeping ==
  /\ wpc = "copy"
  /\ End(FALSE)
  /\ UNCHANGED <<store, cancel, job, ghostVars, started>>

\* A read or write fails in process (after the daemon failed, if it was
\* asked), or the transfer is cancelled: the partial file is unlinked.
GiveUpFile ==
  /\ wpc = "copy"
  /\ store' = [store EXCEPT ![<<job.to, dst>>] = Nothing]
  /\ End(FALSE)
  /\ UNCHANGED <<cancel, job, ghostVars, started>>

AllCopied ==
  /\ wpc = "next"
  /\ todo = {}
  /\ job.op = "copy"
  /\ End(TRUE)
  /\ UNCHANGED <<store, cancel, job, ghostVars, started>>

\* executeDelete, or executeMove once everything is copied.
RemoveBegin ==
  /\ \/ wpc = "begin" /\ job.op = "delete"
     \/ wpc = "next" /\ todo = {} /\ job.op = "move" /\ ~cancel
  /\ wpc' = "remove"
  /\ left' = SourceNames(job)
  /\ UNCHANGED <<store, busy, cancel, status, job, todo, here, dst, ghostVars, started>>

\* recursiveDelete, one entry; a refused unlink is passed over.  No test of the cancel.
RemoveOne ==
  /\ wpc = "remove"
  /\ \E n \in left, unlinked \in BOOLEAN :
       /\ left' = left \ {n}
       /\ store' = IF unlinked THEN [store EXCEPT ![<<job.from, n>>] = Nothing] ELSE store
  /\ UNCHANGED <<busy, cancel, status, job, wpc, todo, here, dst, ghostVars, started>>

\* The folder goes last, and only if it is empty.
RemoveEnd ==
  /\ wpc = "remove"
  /\ left = {}
  /\ End(SourceNames(job) = {})
  /\ UNCHANGED <<store, cancel, job, ghostVars, started>>

TransferWorker == \/ Rename \/ Scan \/ ScanFails \/ OpenFile \/ OpenFails \/ FileCopied
                  \/ GiveUpFile \/ AllCopied \/ RemoveBegin \/ RemoveOne \/ RemoveEnd

TransferNext == \/ \E j \in Jobs : Start(j)
                \/ Cancel
                \/ ResetStatus
                \/ TransferWorker

TransferSpec == TransferInit /\ [][TransferNext]_transferVars /\ WF_transferVars(TransferWorker)
-----------------------------------------------------------------------------
Data == FirstFiles

TransferTypeOK ==
  /\ store \in [Places -> Data \cup {Nothing, Partial}]
  /\ busy \in BOOLEAN /\ cancel \in BOOLEAN
  /\ status \in {"idle", "scanning", "transferring", "completed", "failed", "cancelled"}
  /\ job \in Jobs \cup {NoJob}
  /\ wpc \in {"none", "begin", "next", "copy", "remove"}
  /\ todo \subseteq Names /\ left \subseteq Names
  /\ here \in Names \cup {Nothing} /\ dst \in Names \cup {Nothing}
  /\ started \in Nat

\* Whatever is copied, moved, refused, cancelled or cut off in the middle: a
\* file nobody asked to delete is whole somewhere.  Not so only for what the
\* scan of a move passed over, and a file overwritten for want of a free name
\* (executeMove: "safely remove source").
TransferLosesNothing ==
  \A d \in Data \ unprotected : \E p \in Places : store[p] = d

\* A transfer that reports success has put all its scan saw where it was sent.
CompletedIsThere ==
  status = "completed" /\ job.op # "delete"
    => \A d \in promised \ unprotected : \E n \in Names : store[<<job.to, n>>] = d

\* A copy that failed or was cancelled leaves no broken file behind
\* (copySingleFile: "Clean up partial incomplete file").
NoPartialLeft == ~busy => \A p \in Places : store[p] # Partial
=============================================================================
