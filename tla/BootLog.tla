------------------------------ MODULE BootLog ------------------------------
(***************************************************************************)
(* The log: src/evo_boot_log.c, the copy of the last run's part of it that *)
(* src/evo_prev_run.c saves, and the crash handler's write to it           *)
(* (main.cpp).  Threads emit lines into memory; a writer thread and every  *)
(* thread that calls evo_boot_log_flush put them into the file, which is   *)
(* opened late and rotated when it is big.  The files outlive the runs.    *)
(*                                                                         *)
(* A line is [run, n]; line 0 of a run is its "session start" header.      *)
(* g_q_lock is held for one step at a time, g_io_lock across steps.        *)
(***************************************************************************)
EXTENDS Naturals, SequencesExt

CONSTANTS Flushers,   \* threads that call evo_boot_log_flush
          Opener,     \* the one of them that may find the log not open
          Writer,     \* bl_writer's thread
          BootCap, QueueCap, RotateAt, \* BL_BOOT_CAP, BL_QUEUE_CAP, BL_ROTATE_BYTES
          NoOne,
          MaxRuns, MaxLines            \* bounds: runs, lines of a run

Drainers == Flushers \cup {Writer}

ASSUME LogAssumption ==
  /\ Opener \in Flushers /\ Writer \notin Flushers /\ NoOne \notin Drainers
  /\ {BootCap, QueueCap, RotateAt, MaxRuns, MaxLines} \subseteq Nat \ {0}

VARIABLES log, old, prev,   \* evo.log, evo.log.1, evo.prev.log
          told,             \* s_state of evo_prev_run.c is not EVO_PREV_RUN_NONE
          opened,           \* g_fp is set
          boot, waiting,    \* g_boot, g_q
          taken,            \* bl_drain's copy of the queue
          ioLock,           \* holder of g_io_lock
          logPc,            \* each drainer
          written, copied,  \* g_written; whether bl_rotate's copy could be opened
          dying,            \* the crash handler has run and not exited yet
          run, line,        \* the run, the lines it has emitted
          dropped,          \* history: lines of this run that are gone, and counted
          crashed,          \* history: runs that crashed
          own,              \* history: this run's lines in the log, and whether the crash
                            \* handler wrote any of them before the log was open
          lastRun           \* history: own, of the last run that left lines

files == <<log, old, prev>>
partGhosts == <<own, lastRun>>
logGhosts == <<run, line, dropped, crashed, partGhosts>>
logVars == <<files, told, opened, boot, waiting, taken, ioLock, logPc, written, copied, dying,
             logGhosts>>

Idle == [d \in Drainers |-> "idle"]
NoLines == [lines |-> <<>>, early |-> FALSE]

LogInit ==
  /\ log = <<>> /\ old = <<>> /\ prev = <<>>
  /\ told = FALSE /\ opened = FALSE
  /\ boot = <<>> /\ waiting = <<>> /\ taken = <<>>
  /\ ioLock = NoOne
  /\ logPc = Idle
  /\ written = 0 /\ copied = FALSE
  /\ dying = FALSE
  /\ run = 1 /\ line = 0
  /\ dropped = {} /\ crashed = {}
  /\ own = NoLines /\ lastRun = NoLines

At(n) == [run |-> run, n |-> n]
\* From the last header on; a log without one is the run.
LastSession(s) ==
  LET headers == {i \in DOMAIN s : s[i].n = 0} IN
    IF headers = {} THEN s ELSE SubSeq(s, CHOOSE i \in headers : \A j \in headers : j <= i, Len(s))
-----------------------------------------------------------------------------
\* bl_emit, its second half.
Emit ==
  /\ line < MaxLines
  /\ line' = line + 1
  /\ LET l == At(line + 1) IN
     \/ /\ opened /\ Len(waiting) < QueueCap
        /\ waiting' = Append(waiting, l)
        /\ UNCHANGED <<boot, dropped>>
     \/ /\ ~opened /\ Len(boot) < BootCap
        /\ boot' = Append(boot, l)
        /\ UNCHANGED <<waiting, dropped>>
     \/ /\ IF opened THEN Len(waiting) >= QueueCap ELSE Len(boot) >= BootCap
        /\ dropped' = dropped \cup {l}
        /\ UNCHANGED <<boot, waiting>>
  /\ UNCHANGED <<files, told, opened, taken, ioLock, logPc, written, copied, dying, run, crashed,
                 partGhosts>>
-----------------------------------------------------------------------------
(***************************************************************************)
(* evo_boot_log_flush: opening.                                            *)
(***************************************************************************)
\* The file can be opened for appending; if not, the call returns.
OpenLog ==
  /\ logPc[Opener] = "idle"
  /\ ~opened
  /\ ioLock = NoOne
  /\ ioLock' = Opener
  /\ written' = Len(log)
  /\ logPc' = [logPc EXCEPT ![Opener] = "save"]
  /\ UNCHANGED <<files, told, opened, boot, waiting, taken, copied, dying, logGhosts>>

Rotates(size) == IF size > RotateAt THEN "copy" ELSE "header"

\* Faulty variant: the last run is saved when this run's header is in the file.
SavePrevLate ==
  /\ logPc[Opener] = "save"
  /\ \/ prev' = LastSession(Append(log, At(0))) /\ told' = TRUE
     \/ UNCHANGED prev /\ told' = FALSE
  /\ logPc' = [logPc EXCEPT ![Opener] = Rotates(written)]
  /\ UNCHANGED <<log, old, opened, boot, waiting, taken, ioLock, written, copied, dying, logGhosts>>

\* evo_prev_run_save, which may not be able to write its file.
SavePrev ==
  /\ logPc[Opener] = "save"
  /\ \/ log # <<>> /\ prev' = LastSession(log) /\ told' = TRUE
     \/ UNCHANGED prev /\ told' = FALSE
  /\ logPc' = [logPc EXCEPT ![Opener] = Rotates(written)]
  /\ UNCHANGED <<log, old, opened, boot, waiting, taken, ioLock, written, copied, dying, logGhosts>>

\* The header, then what was held back, with g_q_lock: from here on lines queue.
StartLog ==
  /\ logPc[Opener] = "header"
  /\ log' = log \o <<At(0)>> \o boot
  /\ own' = [own EXCEPT !.lines = @ \o <<At(0)>> \o boot]
  /\ boot' = <<>>
  /\ opened' = TRUE
  /\ ioLock' = NoOne
  /\ logPc' = [logPc EXCEPT ![Opener] = "drain"]
  /\ UNCHANGED <<old, prev, told, waiting, taken, written, copied, dying, run, line, dropped,
                 crashed, lastRun>>
-----------------------------------------------------------------------------
(***************************************************************************)
(* bl_drain, by the writer and by any thread that flushes.                 *)
(***************************************************************************)
Flush(d) ==
  /\ logPc[d] = "idle"
  /\ opened
  /\ logPc' = [logPc EXCEPT ![d] = "drain"]
  /\ UNCHANGED <<files, told, opened, boot, waiting, taken, ioLock, written, copied, dying, logGhosts>>

\* Faulty variant: the queue is taken before it is this drainer's turn to write.
DrainTakeEarly(d) ==
  /\ logPc[d] = "drain"
  /\ ioLock' = d
  /\ taken' = waiting
  /\ waiting' = <<>>
  /\ logPc' = [logPc EXCEPT ![d] = "write"]
  /\ UNCHANGED <<files, told, opened, boot, written, copied, dying, logGhosts>>

DrainTake(d) ==
  /\ logPc[d] = "drain"
  /\ ioLock = NoOne
  /\ ioLock' = d
  /\ taken' = waiting
  /\ waiting' = <<>>
  /\ logPc' = [logPc EXCEPT ![d] = "write"]
  /\ UNCHANGED <<files, told, opened, boot, written, copied, dying, logGhosts>>

Released(d) == /\ ioLock' = NoOne
               /\ logPc' = [logPc EXCEPT ![d] = "idle"]

DrainWrite(d) ==
  /\ logPc[d] = "write"
  /\ log' = log \o taken
  /\ own' = [own EXCEPT !.lines = @ \o taken]
  /\ taken' = <<>>
  /\ written' = written + Len(taken)
  /\ IF written' > RotateAt
     THEN logPc' = [logPc EXCEPT ![d] = "copy"] /\ UNCHANGED ioLock
     ELSE Released(d)
  /\ UNCHANGED <<old, prev, told, opened, boot, waiting, copied, dying, run, line, dropped,
                 crashed, lastRun>>

\* bl_rotate: the copy, if both files open ...
RotateCopy(d) ==
  /\ logPc[d] = "copy"
  /\ copied' \in BOOLEAN
  /\ old' = IF copied' THEN log ELSE old
  /\ dropped' = IF copied' THEN dropped \cup {l \in ToSet(old) : l.run = run} ELSE dropped
  /\ logPc' = [logPc EXCEPT ![d] = "fresh"]
  /\ UNCHANGED <<log, prev, told, opened, boot, waiting, taken, ioLock, written, dying, run, line,
                 crashed, partGhosts>>

\* Faulty variant: the file is emptied whether or not it was copied.
RotateFreshAlways(d) ==
  /\ logPc[d] = "fresh"
  /\ log' = <<>>
  /\ own' = [own EXCEPT !.lines = <<>>]
  /\ written' = 0
  /\ IF opened THEN Released(d)
               ELSE logPc' = [logPc EXCEPT ![d] = "header"] /\ UNCHANGED ioLock
  /\ UNCHANGED <<old, prev, told, opened, boot, waiting, taken, copied, dying, run, line, dropped,
                 crashed, lastRun>>

\* ... and the file emptied, or gone on with.
RotateFresh(d) ==
  /\ logPc[d] = "fresh"
  /\ log' = IF copied THEN <<>> ELSE log
  /\ own' = IF copied THEN [own EXCEPT !.lines = <<>>] ELSE own
  /\ written' = 0
  /\ IF opened THEN Released(d)
               ELSE logPc' = [logPc EXCEPT ![d] = "header"] /\ UNCHANGED ioLock
  /\ UNCHANGED <<old, prev, told, opened, boot, waiting, taken, copied, dying, run, line, dropped,
                 crashed, lastRun>>
-----------------------------------------------------------------------------
\* What evo_boot_log_crash_drain finds to write, without a lock.
Leftover == IF waiting # <<>> THEN waiting ELSE IF ~opened THEN boot ELSE <<>>

\* main.cpp's handler appends that and its own report, the run's next line, if
\* it can open the file.  The other threads run on until it exits.
Crash ==
  /\ ~dying
  /\ dying' = TRUE
  /\ crashed' = crashed \cup {run}
  /\ \/ LET more == Leftover \o <<At(line + 1)>> IN
          /\ log' = log \o more
          /\ own' = [lines |-> own.lines \o more, early |-> ~opened]
          /\ line' = line + 1
     \/ UNCHANGED <<log, own, line>>
  /\ UNCHANGED <<old, prev, told, opened, boot, waiting, taken, ioLock, logPc, written, copied,
                 run, dropped, lastRun>>

\* The end of a run, by a crash or not: the memory is gone, the files stay.
Rerun ==
  /\ run < MaxRuns
  /\ run' = run + 1 /\ line' = 0
  /\ told' = FALSE /\ opened' = FALSE
  /\ boot' = <<>> /\ waiting' = <<>> /\ taken' = <<>>
  /\ ioLock' = NoOne /\ logPc' = Idle
  /\ written' = 0 /\ copied' = FALSE /\ dying' = FALSE
  /\ dropped' = {}
  /\ lastRun' = (IF own.lines = <<>> THEN lastRun ELSE own)
  /\ own' = NoLines
  /\ UNCHANGED <<files, crashed>>

LogNext == \/ Emit
           \/ OpenLog \/ SavePrev \/ StartLog
           \/ \E d \in Drainers :
                Flush(d) \/ DrainTake(d) \/ DrainWrite(d) \/ RotateCopy(d) \/ RotateFresh(d)
           \/ Crash \/ Rerun

LogSpec == LogInit /\ [][LogNext]_logVars
-----------------------------------------------------------------------------
Precedes(k, l) == k.run < l.run \/ (k.run = l.run /\ k.n < l.n)

\* Whatever threads flush and rotate at once: the log and what is on its way to
\* it are in the order the lines were emitted, each of them once, and a line of
\* this run that is neither there nor in the older file was counted as dropped
\* or went with an older file.  Runs that crash are left out: the handler's
\* lines can overtake those a drainer has in hand.
LogInOrder ==
  LET all == log \o taken \o waiting \o boot IN
  /\ \A i, j \in DOMAIN all :
       i < j /\ all[i].run \notin crashed /\ all[j].run \notin crashed => Precedes(all[i], all[j])
  /\ run \notin crashed =>
       {At(n) : n \in 1..line} \subseteq ToSet(all) \cup ToSet(old) \cup dropped

\* Once the log is open, and for the whole run after, rotated or not, the saved
\* file is what the last run that wrote anything has left in the log, all of it
\* and nothing of the runs before it - unless that run's crash handler wrote
\* before its log was open.
LastRunKept == told /\ ~dying /\ ~lastRun.early => prev = lastRun.lines

\* "The last run on its own", whenever that run crashed.  (Violated: lines the
\* handler writes before the header of their run count as the run's before.)
LastRunAlone == told /\ ~dying => prev = lastRun.lines
=============================================================================
