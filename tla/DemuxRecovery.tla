--------------------------- MODULE DemuxRecovery ---------------------------
(***************************************************************************)
(* How the demuxer carries on after a read failed: media/src/evo_demux.c   *)
(* from demux_recover_reset to the loop of demux_thread_func.  It seeks    *)
(* back to the last key packet it has queued and drops what it reads again *)
(* up to the last stamps, one per stream.                                  *)
(*                                                                         *)
(* A file is a sequence of packets [s, ts, key] of the streams "v", "a"    *)
(* and "t" (subtitles); ts is NoTs where the container has no stamp.       *)
(***************************************************************************)
EXTENDS Integers, SequencesExt

CONSTANTS Files,    \* [packets, nearEnd]: nearEnd is media_duration_sec - 3 s, or NoTs
          NoTs,     \* AV_NOPTS_VALUE
          Tries,    \* DEMUX_RECOVER_TRIES
          MaxTurns  \* bound: files opened and seeks of the user

StreamIds == {"v", "a", "t"}
Stamped(p) == p.ts # NoTs

Stamps == Int \cup {NoTs}
FilePackets == [s : StreamIds, ts : Stamps, key : BOOLEAN]

ASSUME FilesAssumption ==
  /\ Tries \in Nat \ {0}
  /\ \A f \in Files : f.packets \in Seq(FilePackets) /\ f.nearEnd \in Stamps
  /\ \A f \in Files : \A i \in DOMAIN f.packets :
       LET p == f.packets[i] IN
       /\ p.s \in StreamIds
       /\ p.key => p.s = "v" /\ Stamped(p)
       /\ \A j \in DOMAIN f.packets :   \* stamps of one stream grow
            LET q == f.packets[j] IN
            i < j /\ p.s = q.s /\ Stamped(p) /\ Stamped(q) => p.ts < q.ts

VARIABLES demuxRuns,        \* demux_thread_running
          file, recovers,   \* the file; pb_rebuffer_enabled and the conditions beside it
          rpos,             \* the packet av_read_frame returns next
          lastV, lastA,     \* demux_last_vdts, demux_last_adts
          catching,         \* the two bits of demux_catching_up
          recoverTries,     \* demux_recover_tries
          done,             \* video_decode_done
          handed,           \* what each stream's consumer was given, by position
          begun, frontier,  \* history: where reading began, and the farthest it got
          owed,             \* history: the first packet the consumers are still owed
          turns

recoveryVars == <<demuxRuns, file, recovers, rpos, lastV, lastA, catching, recoverTries, done, handed,
                  begun, frontier, owed, turns>>
source == <<demuxRuns, file, recovers, owed, turns>>

Packets == file.packets
AtEof == rpos > Len(Packets)
Empty == [s \in StreamIds |-> <<>>]

RecoveryInit ==
  /\ demuxRuns = FALSE
  /\ file = [packets |-> <<>>, nearEnd |-> NoTs]
  /\ recovers = FALSE
  /\ rpos = 1 /\ begun = 1 /\ frontier = 1 /\ owed = 1
  /\ lastV = NoTs /\ lastA = NoTs
  /\ catching = {}
  /\ recoverTries = 0
  /\ done = FALSE
  /\ handed = Empty
  /\ turns = 0

\* demux_recover_reset.
RecoverReset ==
  /\ lastV' = NoTs /\ lastA' = NoTs
  /\ catching' = {}
  /\ recoverTries' = 0

\* demux_thread_func starts on a file, its queues empty.
BeginFile ==
  /\ ~demuxRuns
  /\ turns < MaxTurns
  /\ turns' = turns + 1
  /\ demuxRuns' = TRUE
  /\ file' \in Files /\ recovers' \in BOOLEAN
  /\ rpos' = 1 /\ begun' = 1 /\ frontier' = 1 /\ owed' = 1
  /\ RecoverReset
  /\ done' = FALSE
  /\ handed' = Empty

\* stopPlayback joins the thread; its static variables stay.
EndFile ==
  /\ demuxRuns
  /\ demuxRuns' = FALSE
  /\ UNCHANGED <<file, recovers, rpos, lastV, lastA, catching, recoverTries, done, handed, begun,
                 frontier, owed, turns>>
-----------------------------------------------------------------------------
\* demux_already_have: queued before the failure.
AlreadyHave(p) ==
  /\ catching # {}
  /\ CASE p.s = "v" -> "v" \in catching /\ (~Stamped(p) \/ p.ts <= lastV)
       [] p.s = "a" -> "a" \in catching /\ (~Stamped(p) \/ p.ts <= lastA)
       [] OTHER     -> TRUE

Advance == /\ rpos' = rpos + 1
           /\ frontier' = IF rpos < frontier THEN frontier ELSE rpos + 1

\* Faulty variant: a packet of video counts as progress although it is dropped.
DropAgainCounting ==
  /\ demuxRuns /\ ~AtEof
  /\ AlreadyHave(Packets[rpos])
  /\ Advance
  /\ recoverTries' = IF Packets[rpos].s = "v" THEN 0 ELSE recoverTries
  /\ UNCHANGED <<source, lastV, lastA, catching, done, handed, begun>>

DropAgain ==
  /\ demuxRuns /\ ~AtEof
  /\ AlreadyHave(Packets[rpos])
  /\ Advance
  /\ UNCHANGED <<source, lastV, lastA, catching, recoverTries, done, handed, begun>>

\* A new packet: the stamps, the count of tries, and the push.
Keep ==
  /\ demuxRuns /\ ~AtEof
  /\ LET p == Packets[rpos] IN
       /\ ~AlreadyHave(p)
       /\ catching' = catching \ {p.s}
       /\ lastV' = IF p.s = "v" /\ Stamped(p) THEN p.ts ELSE lastV
       /\ lastA' = IF p.s = "a" /\ Stamped(p) THEN p.ts ELSE lastA
       /\ recoverTries' = IF p.s = "v" THEN 0 ELSE recoverTries
       /\ handed' = [handed EXCEPT ![p.s] = Append(@, rpos)]
  /\ done' = FALSE
  /\ Advance
  /\ UNCHANGED <<source, begun>>

\* demux_read_is_final.  A broken connection may look like the end of the file.
Final(eof) ==
  \/ ~recovers
  \/ lastV = NoTs
  \/ eof /\ file.nearEnd # NoTs /\ lastV >= file.nearEnd
  \/ recoverTries >= Tries

\* What av_read_frame may fail with: the end of the file, or any error.
Failures == {TRUE} \cup (IF AtEof THEN {} ELSE {FALSE})

ReadEnds ==
  /\ demuxRuns
  /\ \E eof \in Failures : Final(eof)
  /\ done' = TRUE
  /\ UNCHANGED <<source, rpos, lastV, lastA, catching, recoverTries, handed, begun, frontier>>

\* The key packets a backward seek to the last stamp of video may land on: the
\* last of them, or none where the file has no such packet.
KeyAt(k) == k \in DOMAIN Packets /\ Packets[k].key
KeysToLast == {k \in 1..Len(Packets) : KeyAt(k) /\ Packets[k].ts <= lastV}
LastKey == {k \in KeysToLast : \A l \in KeysToLast : l <= k}

\* Faulty variant: only the video stream catches up.
RecoverVideoOnly ==
  /\ demuxRuns
  /\ \E eof \in Failures : ~Final(eof)
  /\ recoverTries' = recoverTries + 1
  /\ rpos' \in {rpos} \cup LastKey
  /\ catching' = {"v"}
  /\ UNCHANGED <<source, lastV, lastA, done, handed, begun, frontier>>

\* demux_recover: its seek may fail, and leaves the reader where it was.
Recover ==
  /\ demuxRuns
  /\ \E eof \in Failures : ~Final(eof)
  /\ recoverTries' = recoverTries + 1
  /\ rpos' \in {rpos} \cup LastKey
  /\ catching' = {"v"} \cup (IF lastA = NoTs THEN {} ELSE {"a"})
  /\ UNCHANGED <<source, lastV, lastA, done, handed, begun, frontier>>

\* A seek request: the queues are cleared and the recovery forgotten.
UserSeek ==
  /\ demuxRuns
  /\ turns < MaxTurns
  /\ turns' = turns + 1
  /\ \E k \in 1..Len(Packets) :
       KeyAt(k) /\ rpos' = k /\ begun' = k /\ frontier' = k /\ owed' = k
  /\ RecoverReset
  /\ done' = FALSE
  /\ handed' = Empty
  /\ UNCHANGED <<demuxRuns, file, recovers>>

\* A seek that fails: the queues are cleared all the same, and what they held is
\* lost; the reader, its stamps and a recovery under way stay as they are.
UserSeekFails ==
  /\ demuxRuns
  /\ turns < MaxTurns
  /\ turns' = turns + 1
  /\ done' = FALSE
  /\ handed' = Empty
  /\ owed' = frontier
  /\ UNCHANGED <<demuxRuns, file, recovers, rpos, lastV, lastA, catching, recoverTries, begun,
                 frontier>>

DemuxLoop == DropAgain \/ Keep \/ ReadEnds \/ Recover

RecoveryNext == DemuxLoop \/ UserSeek \/ UserSeekFails \/ BeginFile \/ EndFile

RecoveryFairness == WF_recoveryVars(DemuxLoop)

RecoverySpec == RecoveryInit /\ [][RecoveryNext]_recoveryVars /\ RecoveryFairness
-----------------------------------------------------------------------------
\* The stamped packets of a stream that were read, by position, and which of
\* those its consumer was given are stamped.
Wanted(s) == {k \in owed..(frontier - 1) : Packets[k].s = s /\ Stamped(Packets[k])}
Given(s) == {i \in DOMAIN handed[s] : Stamped(Packets[handed[s][i]])}

\* However often a read fails, and wherever the recovery seek lands, the
\* decoders are given every stamped packet once and in order; a subtitle is
\* not decoded twice.  A user's seek that fails loses what was read before it,
\* and nothing after.
PacketsOnce ==
  /\ \A s \in {"v", "a"} :
       /\ {handed[s][i] : i \in Given(s)} = Wanted(s)
       /\ \A i, j \in Given(s) : i < j => handed[s][i] < handed[s][j]
  /\ \A i, j \in DOMAIN handed["t"] : i < j => handed["t"][i] < handed["t"][j]

\* The film ends, or the player gives up: no pattern of failures keeps the
\* demuxer reading the same stretch for ever, whatever the network does.
EndIsReached == demuxRuns ~> (done \/ ~demuxRuns)
=============================================================================
