---------------------------- MODULE Durable_proofs ---------------------------
(***************************************************************************)
(* What outlives a run of the program, and is right after any number of    *)
(* restarts: the image the self-updater installs, for every set of         *)
(* releases, and the boot log of the run before, for every set of threads. *)
(***************************************************************************)
EXTENDS Updater, BootLog, TLAPS
-----------------------------------------------------------------------------
(***************************************************************************)
(* Updater. Neither property is inductive: the release that is offered     *)
(* must be newer than what is installed for as long as it can still be     *)
(* applied, and the staging file must stay as it was compared until then.  *)
(***************************************************************************)
\* What has been offered and not applied is newer than the installed image.
OfferedIsNewer ==
  updState \in {"available", "downloading", "ready"} => latest > image

\* The threads run one at a time, and only while the state is theirs.
ThreadIsAlone ==
  /\ updPc \in {"open", "stream", "verify", "fail"} => updState = "downloading"
  /\ updPc = "check" => updState = "checking"
  /\ updPc # "none" => updBusy

\* Until an update is applied the program that runs is the installed one.
RunsInstalled == updState # "applied" => image = running

UpdaterInv == /\ UpdaterTypeOK
              /\ ThreadIsAlone
              /\ RunsInstalled
              /\ OfferedIsNewer
              /\ InstalledIsVerified

\* The initial state satisfies the strengthening.
LEMMA UpdaterStarts == UpdaterInit => UpdaterInv
<1> SUFFICES ASSUME UpdaterInit PROVE UpdaterInv
  OBVIOUS
<1>1. UpdaterTypeOK
  BY ReleasesAssumption DEF UpdaterInit, UpdaterTypeOK
<1>2. ThreadIsAlone
  BY DEF UpdaterInit, ThreadIsAlone
<1>3. RunsInstalled /\ OfferedIsNewer /\ InstalledIsVerified
  BY DEF UpdaterInit, RunsInstalled, OfferedIsNewer, InstalledIsVerified
<1>4. QED
  BY <1>1, <1>2, <1>3 DEF UpdaterInv

\* Every step of the user, of a thread and of a restart keeps it.
LEMMA UpdaterKeeps == UpdaterInv /\ [UpdaterNext]_updaterVars => UpdaterInv'
<1> USE ReleasesAssumption
    DEF UpdaterInv, UpdaterTypeOK, ThreadIsAlone, RunsInstalled, OfferedIsNewer,
        InstalledIsVerified
<1> SUFFICES ASSUME UpdaterInv, [UpdaterNext]_updaterVars
             PROVE  UpdaterInv'
  OBVIOUS
<1>1. CASE Check
  BY <1>1 DEF Check, CheckAllowed
<1>2. CASE Download
  BY <1>2 DEF Download, MayDownload
<1>3. CASE CancelDownload
  BY <1>3 DEF CancelDownload, threadVars
<1>4. CASE Apply
  BY <1>4 DEF Apply, threadVars
<1>5. CASE Restart
  <2>1. UpdaterTypeOK'
    <3>1. updBusy' \in BOOLEAN /\ updCancel' \in BOOLEAN /\ whole' \in BOOLEAN
      BY <1>5 DEF Restart
    <3>2. stage' \in Releases \cup {Absent, Other} /\ running' \in Releases /\ latest' \in Releases
      BY <1>5 DEF Restart
    <3>3. restarts' \in Nat
      BY <1>5 DEF Restart
    <3>4. QED
      BY <1>5, <3>1, <3>2, <3>3 DEF Restart
  <2>2. updPc' = "none" /\ updBusy' = FALSE /\ updState' = "idle"
    BY <1>5 DEF Restart
  <2>3. RunsInstalled' /\ OfferedIsNewer' /\ InstalledIsVerified'
    BY <1>5 DEF Restart
  <2>4. ThreadIsAlone'
    BY <2>2
  <2>5. QED
    BY <2>1, <2>3, <2>4
<1>6. CASE CheckEnds
  BY <1>6 DEF CheckEnds
<1>7. CASE ThreadEnds
  BY <1>7 DEF ThreadEnds
<1>8. CASE OpenStage
  BY <1>8 DEF OpenStage
<1>9. CASE Stream
  BY <1>9 DEF Stream
<1>10. CASE Verify
  BY <1>10 DEF Verify, Verified
<1>11. CASE Discard
  BY <1>11 DEF Discard
<1>12. CASE UNCHANGED updaterVars
  BY <1>12 DEF updaterVars, threadVars
<1>q. QED
  BY <1>1, <1>2, <1>3, <1>4, <1>5, <1>6, <1>7, <1>8, <1>9, <1>10, <1>11, <1>12
  DEF UpdaterNext, UpdaterThread

LEMMA UpdaterAlways == UpdaterSpec => []UpdaterInv
  BY UpdaterStarts, UpdaterKeeps, PTL DEF UpdaterSpec

\* Whatever the threads, the user and a crash do in between, only a release
\* whose checksum was compared is ever installed (evo_updater.c, dl_thread and
\* evo_updater_apply).
THEOREM OnlyVerifiedIsInstalled == UpdaterSpec => []InstalledIsVerified
<1>1. UpdaterInv => InstalledIsVerified
  BY DEF UpdaterInv
<1>2. QED
  BY <1>1, UpdaterAlways, PTL

\* No step replaces the installed image by one that is not newer.
THEOREM UpdatesGoForward == UpdaterSpec => NeverDowngrades
<1>1. UpdaterInv /\ [UpdaterNext]_updaterVars => [image' # image => image' > image]_updaterVars
  <2> SUFFICES ASSUME UpdaterInv, UpdaterNext, image' # image
               PROVE  image' > image
    BY DEF updaterVars
  <2>1. Apply
    BY DEF UpdaterNext, UpdaterThread, Check, Download, CancelDownload, Restart, CheckEnds,
           ThreadEnds, OpenStage, Stream, Verify, Discard
  <2>2. image' = stage /\ stage = latest /\ latest > image
    BY <2>1 DEF Apply, UpdaterInv, InstalledIsVerified, OfferedIsNewer
  <2>3. QED
    BY <2>2
<1>2. QED
  BY <1>1, UpdaterAlways, PTL DEF UpdaterSpec, NeverDowngrades
-----------------------------------------------------------------------------
(***************************************************************************)
(* The order of the log.  A line is in one of four places at a time, the   *)
(* file, a drainer's hand, the queue and the buffer before the file is     *)
(* open, and everything in one place was emitted before everything in the  *)
(* next.  Lines of runs in c, those that crashed, are left out.            *)
(***************************************************************************)
Lines == [run : Nat, n : Nat]

\* Until the log is open the opener is the only thread with the file.
OnlyTheOpener ==
  ~opened => /\ logPc[Opener] \in {"idle", "save", "copy", "fresh", "header"}
             /\ \A d \in Drainers : d # Opener => logPc[d] = "idle"

\* The last run is saved, and the header written, before the log is open.
OpeningComesFirst == logPc[Opener] \in {"save", "header"} => ~opened

Sorted(s, c) ==
  \A i, j \in DOMAIN s : i < j /\ s[i].run \notin c /\ s[j].run \notin c => Precedes(s[i], s[j])

Ahead(S, T, c) ==
  \A k \in S, l \in T : k.run \notin c /\ l.run \notin c => Precedes(k, l)

LinesAreTyped ==
  /\ log \in Seq(Lines) /\ old \in Seq(Lines)
  /\ taken \in Seq(Lines) /\ waiting \in Seq(Lines) /\ boot \in Seq(Lines)
  /\ run \in Nat /\ line \in Nat
  /\ logPc \in [Drainers -> {"idle", "save", "copy", "fresh", "header", "drain", "write"}]

\* What is not in the file yet is of this run, and so is nothing in the file
\* before it is open.
LinesAreOfRun ==
  /\ \A l \in ToSet(log) : l.run <= run /\ (l.run = run => l.n <= line)
  /\ \A l \in ToSet(taken) \cup ToSet(waiting) \cup ToSet(boot) : l.run = run /\ l.n \in 1 .. line
  /\ ~opened /\ run \notin crashed => \A l \in ToSet(log) : l.run < run

\* g_io_lock: a drainer past the start has it, and only a holder has lines in hand.
HolderWrites ==
  /\ \A d \in Drainers : logPc[d] \notin {"idle", "drain"} => ioLock = d
  /\ taken # <<>> => \E d \in Drainers : logPc[d] = "write"
  /\ \A d \in Drainers : logPc[d] \in {"drain", "write"} => opened
  /\ opened => boot = <<>>
  /\ ~opened => taken = <<>> /\ waiting = <<>>
  /\ \A d \in Drainers :
       logPc[d] = "fresh" /\ copied /\ run \notin crashed => ToSet(log) \subseteq ToSet(old)

PlacesInOrder ==
  /\ Sorted(log, crashed) /\ Sorted(taken, crashed)
  /\ Sorted(waiting, crashed) /\ Sorted(boot, crashed)
  /\ Ahead(ToSet(log), ToSet(taken) \cup ToSet(waiting) \cup ToSet(boot), crashed)
  /\ Ahead(ToSet(taken), ToSet(waiting), crashed)

NoneIsLost ==
  run \notin crashed =>
    \A n \in 1 .. line :
      \/ At(n) \in ToSet(log) \cup ToSet(taken) \cup ToSet(waiting) \cup ToSet(boot)
      \/ At(n) \in ToSet(old) \cup dropped

OrderInv == /\ LinesAreTyped /\ OnlyTheOpener /\ OpeningComesFirst
            /\ LinesAreOfRun /\ HolderWrites /\ PlacesInOrder /\ NoneIsLost

(* Two sorted pieces, the one ahead of the other, put together. *)
LEMMA JoinedIs ==
  ASSUME NEW c, NEW s \in Seq(Lines), NEW t \in Seq(Lines)
  PROVE  /\ s \o t \in Seq(Lines) /\ ToSet(s \o t) = ToSet(s) \cup ToSet(t)
         /\ Sorted(s, c) /\ Sorted(t, c) /\ Ahead(ToSet(s), ToSet(t), c) => Sorted(s \o t, c)
<1> DEFINE u == s \o t
<1>1. /\ u \in Seq(Lines) /\ Len(u) = Len(s) + Len(t) /\ Len(s) \in Nat /\ Len(t) \in Nat
      /\ \A i \in 1 .. Len(u) : u[i] = IF i <= Len(s) THEN s[i] ELSE t[i - Len(s)]
  OBVIOUS
<1>2. DOMAIN u = 1 .. Len(u) /\ DOMAIN s = 1 .. Len(s) /\ DOMAIN t = 1 .. Len(t)
  BY <1>1
<1> HIDE DEF u
<1>3. \A i \in 1 .. Len(s) : i \in 1 .. Len(u) /\ u[i] = s[i]
  BY <1>1
<1>4. \A i \in 1 .. Len(t) : Len(s) + i \in 1 .. Len(u) /\ u[Len(s) + i] = t[i]
  <2> SUFFICES ASSUME NEW i \in 1 .. Len(t)
               PROVE  Len(s) + i \in 1 .. Len(u) /\ u[Len(s) + i] = t[i]
    OBVIOUS
  <2>1. Len(s) + i \in 1 .. Len(u) /\ ~(Len(s) + i <= Len(s)) /\ (Len(s) + i) - Len(s) = i
    BY <1>1
  <2>2. QED
    BY <1>1, <2>1
<1>5. \A i \in 1 .. Len(u) : i \in 1 .. Len(s) \/ (\E j \in 1 .. Len(t) : i = Len(s) + j)
  <2> SUFFICES ASSUME NEW i \in 1 .. Len(u), i \notin 1 .. Len(s)
               PROVE  \E j \in 1 .. Len(t) : i = Len(s) + j
    OBVIOUS
  <2>1. i - Len(s) \in 1 .. Len(t) /\ i = Len(s) + (i - Len(s))
    BY <1>1
  <2>2. QED
    BY <2>1
<1>6. ToSet(u) = ToSet(s) \cup ToSet(t)
  BY <1>2, <1>3, <1>4, <1>5 DEF ToSet
<1>7. ASSUME Sorted(s, c), Sorted(t, c), Ahead(ToSet(s), ToSet(t), c) PROVE Sorted(u, c)
  <2> SUFFICES ASSUME NEW i \in 1 .. Len(u), NEW j \in 1 .. Len(u), i < j,
                      u[i].run \notin c, u[j].run \notin c
               PROVE  Precedes(u[i], u[j])
    BY <1>2 DEF Sorted
  <2>1. CASE i \in 1 .. Len(s) /\ j \in 1 .. Len(s)
    BY <1>2, <1>3, <1>7, <2>1 DEF Sorted
  <2>2. CASE i \in 1 .. Len(s) /\ j \notin 1 .. Len(s)
    <3>1. u[i] \in ToSet(s) /\ u[j] \in ToSet(t)
      BY <1>2, <1>3, <1>4, <1>5, <2>2 DEF ToSet
    <3>2. QED
      BY <1>7, <3>1 DEF Ahead
  <2>3. CASE i \notin 1 .. Len(s)
    <3>1. PICK k \in 1 .. Len(t) : i = Len(s) + k
      BY <1>5, <2>3
    <3>2. j \notin 1 .. Len(s)
      BY <1>1, <2>3
    <3>3. PICK l \in 1 .. Len(t) : j = Len(s) + l
      BY <1>5, <3>2
    <3>4. k < l /\ u[i] = t[k] /\ u[j] = t[l]
      BY <1>1, <1>4, <3>1, <3>3
    <3>5. QED
      BY <1>2, <1>7, <3>4 DEF Sorted
  <2>4. QED
    BY <2>1, <2>2, <2>3
<1>8. QED
  BY <1>1, <1>6, <1>7 DEF u

LEMMA OneLineIs ==
  ASSUME NEW c, NEW l \in Lines
  PROVE  <<l>> \in Seq(Lines) /\ ToSet(<<l>>) = {l} /\ Sorted(<<l>>, c)
<1>1. DOMAIN <<l>> = {1} /\ <<l>>[1] = l /\ <<l>> \in Seq(Lines)
  OBVIOUS
<1>2. QED
  BY <1>1 DEF ToSet, Sorted

LEMMA NoLineIs == /\ <<>> \in Seq(Lines) /\ ToSet(<<>>) = {} /\ \A c : Sorted(<<>>, c)
BY DEF ToSet, Sorted

LEMMA LinesIn == ASSUME NEW s \in Seq(Lines), NEW l \in ToSet(s) PROVE l \in Lines
BY DEF ToSet

LEMMA OrderStarts == LogInit => OrderInv
<1> SUFFICES ASSUME LogInit PROVE OrderInv
  OBVIOUS
<1>1. LinesAreTyped
  BY NoLineIs DEF LogInit, Idle, LinesAreTyped
<1>2. OnlyTheOpener /\ OpeningComesFirst /\ HolderWrites
  BY LogAssumption DEF LogInit, Idle, OnlyTheOpener, OpeningComesFirst, HolderWrites, Drainers
<1>3. LinesAreOfRun /\ PlacesInOrder /\ NoneIsLost
  BY NoLineIs DEF LogInit, LinesAreOfRun, PlacesInOrder, NoneIsLost, Ahead
<1>4. QED
  BY <1>1, <1>2, <1>3 DEF OrderInv

(* bl_emit: a line is newer than every other, wherever it goes. *)
LEMMA EmitOrdered == ASSUME OrderInv, Emit PROVE OrderInv'
<1> DEFINE l == At(line + 1)
<1>1. /\ line' = line + 1
      /\ UNCHANGED <<log, old, opened, taken, ioLock, logPc, copied, run, crashed>>
  BY DEF Emit, files
<1>2. l \in Lines /\ l.run = run /\ l.n = line + 1 /\ run \in Nat /\ line \in Nat
  BY DEF OrderInv, LinesAreTyped, At, Lines
<1>3. /\ log \in Seq(Lines) /\ taken \in Seq(Lines) /\ waiting \in Seq(Lines) /\ boot \in Seq(Lines)
      /\ old \in Seq(Lines)
  BY DEF OrderInv, LinesAreTyped
<1>4. \A k \in ToSet(log) \cup ToSet(taken) \cup ToSet(waiting) \cup ToSet(boot) : Precedes(k, l)
  <2> SUFFICES ASSUME NEW k \in ToSet(log) \cup ToSet(taken) \cup ToSet(waiting) \cup ToSet(boot)
               PROVE  Precedes(k, l)
    OBVIOUS
  <2>1. k.run \in Nat /\ k.n \in Nat
    BY <1>3, LinesIn DEF Lines
  <2>2. k.run <= run /\ (k.run = run => k.n <= line)
    BY <1>2 DEF OrderInv, LinesAreOfRun
  <2>3. QED
    BY <1>2, <2>1, <2>2 DEF Precedes
<1> HIDE DEF l
<1>5. ASSUME NEW s \in Seq(Lines), s = waiting \/ s = boot
      PROVE  /\ Append(s, l) \in Seq(Lines) /\ ToSet(Append(s, l)) = ToSet(s) \cup {l}
             /\ Sorted(Append(s, l), crashed)
  <2>1. Append(s, l) = s \o <<l>>
    BY <1>2
  <2>2. <<l>> \in Seq(Lines) /\ ToSet(<<l>>) = {l} /\ Sorted(<<l>>, crashed)
    BY <1>2, OneLineIs
  <2>3. Sorted(s, crashed) /\ Ahead(ToSet(s), {l}, crashed)
    BY <1>4, <1>5 DEF OrderInv, PlacesInOrder, Ahead
  <2>4. QED
    BY <2>1, <2>2, <2>3, JoinedIs
\* The line is in the queue, in the buffer, or counted.
<1>6. /\ waiting' \in Seq(Lines) /\ boot' \in Seq(Lines)
      /\ Sorted(waiting', crashed) /\ Sorted(boot', crashed)
      /\ ToSet(waiting') \subseteq ToSet(waiting) \cup {l} /\ ToSet(boot') \subseteq ToSet(boot) \cup {l}
      /\ ToSet(waiting) \subseteq ToSet(waiting') /\ ToSet(boot) \subseteq ToSet(boot')
      /\ dropped \subseteq dropped' /\ l \in ToSet(waiting') \cup ToSet(boot') \cup dropped'
      /\ opened => boot' = boot
      /\ ~opened => waiting' = waiting
  <2>1. Sorted(waiting, crashed) /\ Sorted(boot, crashed)
    BY DEF OrderInv, PlacesInOrder
  <2>2. CASE waiting' = Append(waiting, l) /\ opened /\ UNCHANGED <<boot, dropped>>
    BY <1>3, <1>5, <2>1, <2>2
  <2>3. CASE boot' = Append(boot, l) /\ ~opened /\ UNCHANGED <<waiting, dropped>>
    BY <1>3, <1>5, <2>1, <2>3
  <2>4. CASE dropped' = dropped \cup {l} /\ UNCHANGED <<boot, waiting>>
    BY <1>3, <2>1, <2>4
  <2>5. QED
    BY <2>2, <2>3, <2>4 DEF Emit, l
<1>7. LinesAreTyped'
  BY <1>1, <1>2, <1>3, <1>6 DEF OrderInv, LinesAreTyped
<1>8. OnlyTheOpener' /\ OpeningComesFirst'
  BY <1>1 DEF OrderInv, OnlyTheOpener, OpeningComesFirst
<1>9. HolderWrites'
  BY <1>1, <1>6 DEF OrderInv, HolderWrites
<1>10. LinesAreOfRun'
  <2>1. \A k \in ToSet(log)' : k.run <= run' /\ (k.run = run' => k.n <= line')
    <3> SUFFICES ASSUME NEW k \in ToSet(log) PROVE k.run <= run /\ (k.run = run => k.n <= line + 1)
      BY <1>1
    <3>1. k.run <= run /\ (k.run = run => k.n <= line) /\ k.n \in Nat
      BY <1>3, LinesIn DEF OrderInv, LinesAreOfRun, Lines
    <3>2. QED
      BY <1>2, <3>1
  <2>2. \A k \in ToSet(taken)' \cup ToSet(waiting)' \cup ToSet(boot)' : k.run = run' /\ k.n \in 1 .. line'
    <3> SUFFICES ASSUME NEW k \in ToSet(taken) \cup ToSet(waiting) \cup ToSet(boot) \cup {l}
                 PROVE  k.run = run /\ k.n \in 1 .. (line + 1)
      BY <1>1, <1>6
    <3>1. k = l \/ (k.run = run /\ k.n \in 1 .. line)
      BY DEF OrderInv, LinesAreOfRun
    <3>2. QED
      BY <1>2, <3>1
  <2>3. QED
    BY <1>1, <2>1, <2>2 DEF OrderInv, LinesAreOfRun
<1>11. PlacesInOrder'
  BY <1>1, <1>4, <1>6 DEF OrderInv, PlacesInOrder, Ahead
<1>12. NoneIsLost'
  <2> SUFFICES ASSUME run \notin crashed, NEW n \in 1 .. (line + 1)
               PROVE  \/ At(n) \in ToSet(log) \cup ToSet(taken) \cup ToSet(waiting') \cup ToSet(boot')
                      \/ At(n) \in ToSet(old) \cup dropped'
    BY <1>1 DEF NoneIsLost, At
  <2>1. n \in 1 .. line \/ n = line + 1
    BY <1>2
  <2>2. QED
    BY <1>6, <2>1 DEF OrderInv, NoneIsLost, l
<1>13. QED
  BY <1>7, <1>8, <1>9, <1>10, <1>11, <1>12 DEF OrderInv

(* A step that writes nothing: what is where, and the order, stay. *)
LEMMA PlacesRest ==
  ASSUME OrderInv, UNCHANGED <<log, old, taken, waiting, boot, run, line, crashed, opened>>,
         dropped \subseteq dropped'
  PROVE  LinesAreOfRun' /\ PlacesInOrder' /\ NoneIsLost'
<1>1. \A n : At(n)' = At(n)
  BY DEF At
<1>2. QED
  BY <1>1 DEF OrderInv, LinesAreOfRun, PlacesInOrder, NoneIsLost

LEMMA OpeningOrdered == ASSUME OrderInv, OpenLog \/ SavePrev PROVE OrderInv'
<1>1. /\ UNCHANGED <<log, old, taken, waiting, boot, run, line, crashed, opened, dropped, copied>>
      /\ ~opened /\ Opener \in Drainers
  BY LogAssumption DEF OpenLog, SavePrev, logGhosts, files, OrderInv, OpeningComesFirst, Drainers
<1>2. LinesAreOfRun' /\ PlacesInOrder' /\ NoneIsLost'
  BY <1>1, PlacesRest
<1>3. CASE OpenLog
  <2>1. /\ logPc[Opener] = "idle" /\ ioLock = NoOne /\ ioLock' = Opener
        /\ logPc' = [logPc EXCEPT ![Opener] = "save"]
    BY <1>3 DEF OpenLog
  <2>2. QED
    BY <1>1, <1>2, <2>1, LogAssumption
       DEF OrderInv, LinesAreTyped, OnlyTheOpener, OpeningComesFirst, HolderWrites
<1>4. CASE SavePrev
  <2>1. /\ logPc[Opener] = "save" /\ ioLock' = ioLock
        /\ logPc' = [logPc EXCEPT ![Opener] = Rotates(written)] /\ Rotates(written) \in {"copy", "header"}
    BY <1>4 DEF SavePrev, Rotates
  <2>2. QED
    BY <1>1, <1>2, <2>1
       DEF OrderInv, LinesAreTyped, OnlyTheOpener, OpeningComesFirst, HolderWrites
<1>5. QED
  BY <1>3, <1>4

(* The header and the lines held back, after what earlier runs left. *)
LEMMA StartOrdered == ASSUME OrderInv, StartLog PROVE OrderInv'
<1>1. /\ logPc[Opener] = "header" /\ log' = (log \o <<At(0)>>) \o boot /\ boot' = <<>> /\ opened' = TRUE
      /\ ioLock' = NoOne /\ logPc' = [logPc EXCEPT ![Opener] = "drain"]
      /\ UNCHANGED <<old, waiting, taken, copied, run, line, dropped, crashed>>
      /\ Opener \in Drainers /\ ~opened
  BY LogAssumption DEF StartLog, logGhosts, OrderInv, OpeningComesFirst, Drainers
<1>2. /\ log \in Seq(Lines) /\ boot \in Seq(Lines) /\ taken = <<>> /\ waiting = <<>>
      /\ run \in Nat /\ line \in Nat
  BY <1>1 DEF OrderInv, LinesAreTyped, HolderWrites
<1> DEFINE head == <<At(0)>>
<1>3. /\ At(0) \in Lines /\ At(0).run = run /\ At(0).n = 0
      /\ head \in Seq(Lines) /\ ToSet(head) = {At(0)} /\ Sorted(head, crashed)
  BY <1>2, OneLineIs DEF At, Lines
<1> HIDE DEF head
<1>4. Ahead(ToSet(log), {At(0)}, crashed)
  <2> SUFFICES ASSUME NEW k \in ToSet(log), run \notin crashed PROVE Precedes(k, At(0))
    BY <1>3 DEF Ahead
  <2>1. k.run < run
    BY <1>1 DEF OrderInv, LinesAreOfRun
  <2>2. QED
    BY <1>3, <2>1 DEF Precedes
<1>5. /\ log \o head \in Seq(Lines) /\ ToSet(log \o head) = ToSet(log) \cup {At(0)}
      /\ Sorted(log \o head, crashed)
  BY <1>2, <1>3, <1>4, JoinedIs DEF OrderInv, PlacesInOrder
<1>6. Ahead(ToSet(log \o head), ToSet(boot), crashed)
  <2>1. \A l \in ToSet(boot) : Precedes(At(0), l)
    <3> SUFFICES ASSUME NEW l \in ToSet(boot) PROVE Precedes(At(0), l)
      OBVIOUS
    <3>1. l.run = run /\ l.n \in 1 .. line
      BY DEF OrderInv, LinesAreOfRun
    <3>2. QED
      BY <1>2, <1>3, <3>1 DEF Precedes
  <2>2. QED
    BY <1>5, <2>1 DEF OrderInv, PlacesInOrder, Ahead
<1>7. /\ log' \in Seq(Lines) /\ ToSet(log') = ToSet(log) \cup {At(0)} \cup ToSet(boot)
      /\ Sorted(log', crashed)
  <2>1. log' = (log \o head) \o boot
    BY <1>1 DEF head
  <2>2. Sorted(boot, crashed)
    BY DEF OrderInv, PlacesInOrder
  <2>3. QED
    BY <1>2, <1>5, <1>6, <2>1, <2>2, JoinedIs
<1>8. LinesAreTyped'
  BY <1>1, <1>7, NoLineIs DEF OrderInv, LinesAreTyped
<1>9. OnlyTheOpener' /\ OpeningComesFirst'
  BY <1>1 DEF OrderInv, OnlyTheOpener, OpeningComesFirst, LinesAreTyped
<1>10. HolderWrites'
  <2>1. \A d \in Drainers : d # Opener => logPc[d] = "idle" /\ logPc'[d] = logPc[d]
    BY <1>1 DEF OrderInv, OnlyTheOpener, LinesAreTyped
  <2>2. logPc'[Opener] = "drain"
    BY <1>1 DEF OrderInv, LinesAreTyped
  <2>3. QED
    BY <1>1, <1>2, <2>1, <2>2 DEF HolderWrites
<1>11. LinesAreOfRun'
  <2>1. ASSUME NEW k \in ToSet(log) \cup {At(0)} \cup ToSet(boot)
        PROVE  k.run <= run /\ (k.run = run => k.n <= line)
    <3>1. CASE k \in ToSet(log)
      BY <3>1 DEF OrderInv, LinesAreOfRun
    <3>2. CASE k = At(0)
      BY <1>2, <1>3, <3>2
    <3>3. CASE k \in ToSet(boot)
      <4>1. k.run = run /\ k.n \in 1 .. line
        BY <3>3 DEF OrderInv, LinesAreOfRun
      <4>2. QED
        BY <1>2, <4>1
    <3>4. QED
      BY <2>1, <3>1, <3>2, <3>3
  <2>2. QED
    BY <1>1, <1>2, <1>7, <2>1, NoLineIs DEF LinesAreOfRun
<1>12. PlacesInOrder'
  BY <1>1, <1>2, <1>7, NoLineIs DEF PlacesInOrder, Ahead
<1>13. NoneIsLost'
  <2>1. \A n : At(n)' = At(n)
    BY <1>1 DEF At
  <2>2. QED
    BY <1>1, <1>2, <1>7, <2>1, NoLineIs DEF OrderInv, NoneIsLost
<1>14. QED
  BY <1>8, <1>9, <1>10, <1>11, <1>12, <1>13 DEF OrderInv

(* bl_drain: what is in the queue passes to the drainer's hand, then to the file. *)
LEMMA FlushOrdered == ASSUME OrderInv, NEW d \in Drainers, Flush(d) PROVE OrderInv'
<1>1. /\ UNCHANGED <<log, old, taken, waiting, boot, run, line, crashed, opened, dropped, copied, ioLock>>
      /\ opened /\ logPc' = [logPc EXCEPT ![d] = "drain"]
  BY DEF Flush, files, logGhosts
<1>2. LinesAreOfRun' /\ PlacesInOrder' /\ NoneIsLost'
  BY <1>1, PlacesRest
<1>3. LinesAreTyped' /\ OnlyTheOpener' /\ OpeningComesFirst'
  BY <1>1 DEF OrderInv, LinesAreTyped, OnlyTheOpener, OpeningComesFirst
<1>4. HolderWrites'
  <2>1. logPc'[d] = "drain" /\ \A e \in Drainers : e # d => logPc'[e] = logPc[e]
    BY <1>1 DEF OrderInv, LinesAreTyped
  <2>2. logPc[d] = "idle"
    BY DEF Flush
  <2>3. QED
    BY <1>1, <2>1, <2>2 DEF OrderInv, HolderWrites
<1>5. QED
  BY <1>2, <1>3, <1>4 DEF OrderInv

LEMMA DrainTakeOrdered == ASSUME OrderInv, NEW d \in Drainers, DrainTake(d) PROVE OrderInv'
<1>1. /\ logPc[d] = "drain" /\ ioLock = NoOne /\ ioLock' = d /\ taken' = waiting /\ waiting' = <<>>
      /\ logPc' = [logPc EXCEPT ![d] = "write"]
      /\ UNCHANGED <<log, old, opened, boot, copied, run, line, dropped, crashed>>
  BY DEF DrainTake, files, logGhosts
<1>2. opened /\ waiting \in Seq(Lines)
  BY <1>1 DEF OrderInv, HolderWrites, LinesAreTyped
\* g_io_lock is free, so no other drainer has lines in hand.
<1>3. taken = <<>>
  BY <1>1, LogAssumption DEF OrderInv, HolderWrites
<1>4. logPc'[d] = "write" /\ \A e \in Drainers : e # d => logPc'[e] = logPc[e]
  BY <1>1 DEF OrderInv, LinesAreTyped
<1>5. LinesAreTyped' /\ OnlyTheOpener' /\ OpeningComesFirst'
  BY <1>1, <1>2, NoLineIs DEF OrderInv, LinesAreTyped, OnlyTheOpener, OpeningComesFirst
<1>6. HolderWrites'
  <2>1. \A e \in Drainers : e # d => logPc[e] \in {"idle", "drain"}
    BY <1>1, LogAssumption DEF OrderInv, HolderWrites
  <2>2. QED
    BY <1>1, <1>2, <1>4, <2>1 DEF OrderInv, HolderWrites
<1>7. LinesAreOfRun' /\ PlacesInOrder'
  BY <1>1, <1>2, <1>3, NoLineIs DEF OrderInv, LinesAreOfRun, PlacesInOrder, Ahead
<1>8. NoneIsLost'
  <2>1. \A n : At(n)' = At(n)
    BY <1>1 DEF At
  <2>2. QED
    BY <1>1, <1>3, <2>1, NoLineIs DEF OrderInv, NoneIsLost
<1>9. QED
  BY <1>5, <1>6, <1>7, <1>8 DEF OrderInv

LEMMA DrainWriteOrdered == ASSUME OrderInv, NEW d \in Drainers, DrainWrite(d) PROVE OrderInv'
<1>1. /\ logPc[d] = "write" /\ log' = log \o taken /\ taken' = <<>>
      /\ \/ logPc' = [logPc EXCEPT ![d] = "copy"] /\ ioLock' = ioLock
         \/ logPc' = [logPc EXCEPT ![d] = "idle"] /\ ioLock' = NoOne
      /\ UNCHANGED <<old, opened, waiting, boot, copied, run, line, dropped, crashed>>
  BY DEF DrainWrite, Released, logGhosts
<1>2. /\ log \in Seq(Lines) /\ taken \in Seq(Lines) /\ opened /\ ioLock = d
      /\ Sorted(log, crashed) /\ Sorted(taken, crashed) /\ Ahead(ToSet(log), ToSet(taken), crashed)
  BY <1>1 DEF OrderInv, LinesAreTyped, HolderWrites, PlacesInOrder, Ahead
<1>3. /\ log' \in Seq(Lines) /\ ToSet(log') = ToSet(log) \cup ToSet(taken)
      /\ Sorted(log', crashed)
  BY <1>1, <1>2, JoinedIs
<1>4. LinesAreTyped' /\ OnlyTheOpener' /\ OpeningComesFirst'
  <2>1. \A e \in Drainers : logPc'[e] = logPc[e] \/ logPc'[e] \in {"copy", "idle"}
    BY <1>1 DEF OrderInv, LinesAreTyped
  <2>2. LinesAreTyped'
    BY <1>1, <1>3, NoLineIs DEF OrderInv, LinesAreTyped
  <2>3. Opener \in Drainers
    BY LogAssumption DEF Drainers
  <2>4. OnlyTheOpener' /\ OpeningComesFirst'
    BY <1>1, <1>2, <2>1, <2>3 DEF OrderInv, OnlyTheOpener, OpeningComesFirst
  <2>5. QED
    BY <2>2, <2>4
<1>5. HolderWrites'
  <2>1. \A e \in Drainers : e # d => logPc'[e] = logPc[e] /\ logPc[e] \in {"idle", "drain"}
    BY <1>1, <1>2 DEF OrderInv, HolderWrites, LinesAreTyped
  <2>2. \/ logPc'[d] = "copy" /\ ioLock' = d
        \/ logPc'[d] = "idle"
    BY <1>1, <1>2 DEF OrderInv, LinesAreTyped
  <2>3. QED
    BY <1>1, <1>2, <2>1, <2>2 DEF OrderInv, HolderWrites
<1>6. LinesAreOfRun'
  <2>1. ASSUME NEW k \in ToSet(taken) PROVE k.run <= run /\ k.n <= line
    <3>1. k.run = run /\ k.n \in 1 .. line /\ run \in Nat /\ line \in Nat
      BY DEF OrderInv, LinesAreOfRun, LinesAreTyped
    <3>2. QED
      BY <3>1
  <2>2. QED
    BY <1>1, <1>2, <1>3, <2>1, NoLineIs DEF OrderInv, LinesAreOfRun
<1>7. PlacesInOrder'
  <2>1. boot = <<>>
    BY <1>2 DEF OrderInv, HolderWrites
  <2>2. QED
    BY <1>1, <1>3, <2>1, NoLineIs DEF OrderInv, PlacesInOrder, Ahead
<1>8. NoneIsLost'
  <2>1. \A n : At(n)' = At(n)
    BY <1>1 DEF At
  <2>2. QED
    BY <1>1, <1>3, <2>1 DEF OrderInv, NoneIsLost
<1>9. QED
  BY <1>4, <1>5, <1>6, <1>7, <1>8 DEF OrderInv

(* bl_rotate: the older file gives way to a copy of the file, which is then
   emptied. *)
LEMMA RotateCopyOrdered == ASSUME OrderInv, NEW d \in Drainers, RotateCopy(d) PROVE OrderInv'
<1>1. /\ logPc[d] = "copy" /\ logPc' = [logPc EXCEPT ![d] = "fresh"] /\ copied' \in BOOLEAN
      /\ old' = (IF copied' THEN log ELSE old)
      /\ dropped' = (IF copied' THEN dropped \cup {l \in ToSet(old) : l.run = run} ELSE dropped)
      /\ UNCHANGED <<log, opened, taken, waiting, boot, ioLock, run, line, crashed>>
  BY DEF RotateCopy
<1>2. ioLock = d
  BY <1>1 DEF OrderInv, HolderWrites
<1>3. logPc'[d] = "fresh" /\ \A e \in Drainers : e # d => logPc'[e] = logPc[e]
  BY <1>1 DEF OrderInv, LinesAreTyped
<1>4. LinesAreTyped' /\ OnlyTheOpener' /\ OpeningComesFirst'
  <2>1. Opener \in Drainers
    BY LogAssumption DEF Drainers
  <2>2. LinesAreTyped'
    BY <1>1 DEF OrderInv, LinesAreTyped
  <2>3. OnlyTheOpener' /\ OpeningComesFirst'
    BY <1>1, <1>3, <2>1 DEF OrderInv, OnlyTheOpener, OpeningComesFirst
  <2>4. QED
    BY <2>2, <2>3
<1>5. HolderWrites'
  <2>1. \A e \in Drainers : e # d => logPc[e] \in {"idle", "drain"}
    BY <1>2 DEF OrderInv, HolderWrites
  <2>2. copied' => ToSet(log) = ToSet(old')
    BY <1>1
  <2>3. QED
    BY <1>1, <1>2, <1>3, <2>1, <2>2 DEF OrderInv, HolderWrites
<1>6. LinesAreOfRun' /\ PlacesInOrder'
  BY <1>1 DEF OrderInv, LinesAreOfRun, PlacesInOrder
<1>7. NoneIsLost'
  <2>1. \A n : At(n)' = At(n) /\ At(n).run = run
    BY <1>1 DEF At
  <2>2. ToSet(old) \subseteq ToSet(old') \cup dropped' \cup {l \in ToSet(old) : l.run # run}
    BY <1>1
  <2>3. dropped \subseteq dropped'
    BY <1>1
  <2>4. QED
    BY <1>1, <2>1, <2>2, <2>3 DEF OrderInv, NoneIsLost
<1>8. QED
  BY <1>4, <1>5, <1>6, <1>7 DEF OrderInv

LEMMA RotateFreshOrdered == ASSUME OrderInv, NEW d \in Drainers, RotateFresh(d) PROVE OrderInv'
<1>1. /\ logPc[d] = "fresh" /\ log' = (IF copied THEN <<>> ELSE log)
      /\ \/ opened /\ logPc' = [logPc EXCEPT ![d] = "idle"] /\ ioLock' = NoOne
         \/ ~opened /\ logPc' = [logPc EXCEPT ![d] = "header"] /\ ioLock' = ioLock
      /\ UNCHANGED <<old, opened, taken, waiting, boot, copied, run, line, dropped, crashed>>
  BY DEF RotateFresh, Released, logGhosts
<1>2. /\ ioLock = d /\ log \in Seq(Lines)
      /\ ~opened => d = Opener
      /\ copied /\ run \notin crashed => ToSet(log) \subseteq ToSet(old)
  BY <1>1 DEF OrderInv, HolderWrites, OnlyTheOpener, LinesAreTyped
<1>3. log' \in Seq(Lines) /\ ToSet(log') \subseteq ToSet(log) /\ Sorted(log', crashed)
  BY <1>1, <1>2, NoLineIs DEF OrderInv, PlacesInOrder
<1>4. /\ logPc'[d] \in {"idle", "header"} /\ (logPc'[d] = "header" => ioLock' = d /\ ~opened)
      /\ \A e \in Drainers : e # d => logPc'[e] = logPc[e] /\ logPc[e] \in {"idle", "drain"}
  BY <1>1, <1>2 DEF OrderInv, HolderWrites, LinesAreTyped
<1>5. Opener \in Drainers
  BY LogAssumption DEF Drainers
<1>6. LinesAreTyped'
  BY <1>1, <1>3 DEF OrderInv, LinesAreTyped
<1>7. OnlyTheOpener' /\ OpeningComesFirst'
  BY <1>1, <1>2, <1>4, <1>5 DEF OrderInv, OnlyTheOpener, OpeningComesFirst
<1>8. HolderWrites'
  BY <1>1, <1>4 DEF OrderInv, HolderWrites
<1>9. LinesAreOfRun' /\ PlacesInOrder'
  BY <1>1, <1>3 DEF OrderInv, LinesAreOfRun, PlacesInOrder, Ahead
<1>10. NoneIsLost'
  <2>1. \A n : At(n)' = At(n)
    BY <1>1 DEF At
  <2>2. run \notin crashed => ToSet(log) \subseteq ToSet(log') \cup ToSet(old)
    BY <1>1, <1>2
  <2>3. QED
    BY <1>1, <2>1, <2>2 DEF OrderInv, NoneIsLost
<1>11. QED
  BY <1>6, <1>7, <1>8, <1>9, <1>10 DEF OrderInv

(* The crash handler: its lines are of a run that is left out from then on. *)
LEMMA CrashOrdered == ASSUME OrderInv, Crash PROVE OrderInv'
<1> DEFINE Adds(m) == /\ log' = log \o m /\ line' \in Nat /\ line <= line'
                      /\ \A l \in ToSet(m) : l.run = run /\ l.n <= line'
<1>1. PICK more \in Seq(Lines) : Adds(more)
  <2>1. line \in Nat /\ run \in Nat /\ log \in Seq(Lines)
    BY DEF OrderInv, LinesAreTyped
  <2>2. CASE UNCHANGED <<log, own, line>>
    <3>1. log \o <<>> = log
      BY <2>1
    <3>2. Adds(<<>>)
      BY <2>1, <2>2, <3>1, NoLineIs
    <3>3. QED
      BY <3>2, NoLineIs
  <2>3. CASE log' = log \o (Leftover \o <<At(line + 1)>>) /\ line' = line + 1
    <3> DEFINE m == Leftover \o <<At(line + 1)>>
    <3>1. Leftover = waiting \/ Leftover = boot \/ Leftover = <<>>
      BY DEF Leftover
    <3>2. Leftover \in Seq(Lines) /\ \A l \in ToSet(Leftover) : l.run = run /\ l.n \in 1 .. line
      BY <3>1, NoLineIs DEF OrderInv, LinesAreOfRun, LinesAreTyped
    <3>3. At(line + 1) \in Lines /\ At(line + 1).run = run /\ At(line + 1).n = line + 1
      BY <2>1 DEF At, Lines
    <3>4. <<At(line + 1)>> \in Seq(Lines) /\ ToSet(<<At(line + 1)>>) = {At(line + 1)}
      BY <3>3, OneLineIs
    <3>5. m \in Seq(Lines) /\ ToSet(m) = ToSet(Leftover) \cup {At(line + 1)}
      BY <3>2, <3>4, JoinedIs
    <3>6. log' = log \o m
      BY <2>3
    <3> HIDE DEF m
    <3>7. \A l \in ToSet(Leftover) : l.n <= line'
      BY <2>1, <2>3, <3>2
    <3>8. Adds(m)
      <4>1. \A l \in ToSet(m) : l.run = run /\ l.n <= line'
        BY <2>1, <2>3, <3>2, <3>3, <3>5, <3>7
      <4>2. line' \in Nat /\ line <= line'
        BY <2>1, <2>3
      <4>3. QED
        BY <3>6, <4>1, <4>2
    <3>9. QED
      BY <3>5, <3>8
  <2>4. \/ UNCHANGED <<log, own, line>>
        \/ log' = log \o (Leftover \o <<At(line + 1)>>) /\ line' = line + 1
    BY DEF Crash
  <2>5. QED
    BY <2>2, <2>3, <2>4
<1>2. /\ crashed' = crashed \cup {run} /\ log \in Seq(Lines) /\ line \in Nat
      /\ UNCHANGED <<old, opened, taken, waiting, boot, ioLock, logPc, copied, run, dropped>>
  BY DEF Crash, OrderInv, LinesAreTyped
<1>3. log' \in Seq(Lines) /\ ToSet(log') = ToSet(log) \cup ToSet(more)
  BY <1>1, <1>2, JoinedIs
<1>4. ASSUME NEW s, Sorted(s, crashed) PROVE Sorted(s, crashed')
  BY <1>2, <1>4 DEF Sorted
<1>5. Sorted(log', crashed')
  <2>1. Sorted(log, crashed') /\ Ahead(ToSet(log), ToSet(more), crashed')
    BY <1>1, <1>2, <1>4 DEF OrderInv, PlacesInOrder, Ahead
  <2>2. Sorted(more, crashed')
    <3>1. \A i \in DOMAIN more : more[i].run = run
      BY <1>1 DEF ToSet
    <3>2. QED
      BY <1>2, <3>1 DEF Sorted
  <2>3. QED
    BY <1>1, <1>2, <2>1, <2>2, JoinedIs
<1>6. LinesAreTyped' /\ OnlyTheOpener' /\ OpeningComesFirst' /\ HolderWrites' /\ NoneIsLost'
  BY <1>1, <1>2, <1>3
     DEF OrderInv, LinesAreTyped, OnlyTheOpener, OpeningComesFirst, HolderWrites, NoneIsLost
<1>7. LinesAreOfRun'
  <2>1. ASSUME NEW l \in ToSet(log) PROVE l.run <= run /\ (l.run = run => l.n <= line')
    <3>1. l.run <= run /\ (l.run = run => l.n <= line) /\ l.n \in Nat
      BY <1>2, <2>1, LinesIn DEF OrderInv, LinesAreOfRun, Lines
    <3>2. QED
      BY <1>1, <1>2, <3>1
  <2>2. ASSUME NEW l \in ToSet(more) PROVE l.run <= run /\ l.n <= line'
    BY <1>1, <2>2 DEF OrderInv, LinesAreTyped
  <2>3. ASSUME NEW l \in ToSet(taken) \cup ToSet(waiting) \cup ToSet(boot)
        PROVE  l.run = run /\ l.n \in 1 .. line'
    <3>1. l.run = run /\ l.n \in 1 .. line
      BY <2>3 DEF OrderInv, LinesAreOfRun
    <3>2. QED
      BY <1>1, <1>2, <3>1
  <2>4. QED
    BY <1>2, <1>3, <2>1, <2>2, <2>3 DEF LinesAreOfRun
<1>8. PlacesInOrder'
  <2>1. /\ Ahead(ToSet(taken), ToSet(waiting), crashed')
        /\ Sorted(taken, crashed') /\ Sorted(waiting, crashed') /\ Sorted(boot, crashed')
    BY <1>2, <1>4 DEF OrderInv, PlacesInOrder, Ahead
  <2>2. Ahead(ToSet(log'), ToSet(taken) \cup ToSet(waiting) \cup ToSet(boot), crashed')
    <3>1. \A l \in ToSet(taken) \cup ToSet(waiting) \cup ToSet(boot) : l.run \in crashed'
      BY <1>2 DEF OrderInv, LinesAreOfRun
    <3>2. QED
      BY <3>1 DEF Ahead
  <2>3. QED
    BY <1>2, <1>5, <2>1, <2>2 DEF PlacesInOrder
<1>9. QED
  BY <1>6, <1>7, <1>8 DEF OrderInv

LEMMA RerunOrdered == ASSUME OrderInv, Rerun PROVE OrderInv'
<1>1. /\ run' = run + 1 /\ line' = 0 /\ opened' = FALSE /\ copied' = FALSE
      /\ boot' = <<>> /\ waiting' = <<>> /\ taken' = <<>> /\ logPc' = Idle
      /\ UNCHANGED <<log, old, crashed>>
  BY DEF Rerun, files
<1>2. Opener \in Drainers /\ run \in Nat /\ log \in Seq(Lines)
  BY LogAssumption DEF Drainers, OrderInv, LinesAreTyped
<1>3. LinesAreTyped' /\ OnlyTheOpener' /\ OpeningComesFirst' /\ HolderWrites'
  BY <1>1, <1>2, NoLineIs
     DEF OrderInv, LinesAreTyped, OnlyTheOpener, OpeningComesFirst, HolderWrites, Idle
<1>4. LinesAreOfRun'
  <2>1. \A l \in ToSet(log) : l.run < run'
    <3> SUFFICES ASSUME NEW l \in ToSet(log) PROVE l.run < run'
      OBVIOUS
    <3>1. l.run <= run /\ l.run \in Nat
      BY <1>2, LinesIn DEF OrderInv, LinesAreOfRun, Lines
    <3>2. QED
      BY <1>1, <1>2, <3>1
  <2>2. \A l \in ToSet(log) : l.run # run' /\ l.run <= run'
    <3> SUFFICES ASSUME NEW l \in ToSet(log) PROVE l.run # run' /\ l.run <= run'
      OBVIOUS
    <3>1. l.run < run' /\ l.run \in Nat
      BY <1>2, <2>1, LinesIn DEF Lines
    <3>2. QED
      BY <1>1, <1>2, <3>1
  <2>3. QED
    BY <1>1, <2>1, <2>2, NoLineIs DEF LinesAreOfRun
<1>5. PlacesInOrder'
  BY <1>1, NoLineIs DEF OrderInv, PlacesInOrder, Ahead
<1>6. NoneIsLost'
  BY <1>1 DEF NoneIsLost
<1>7. QED
  BY <1>3, <1>4, <1>5, <1>6 DEF OrderInv

LEMMA OrderKeeps == OrderInv /\ [LogNext]_logVars => OrderInv'
<1> SUFFICES ASSUME OrderInv, [LogNext]_logVars PROVE OrderInv'
  OBVIOUS
<1>1. CASE UNCHANGED logVars
  <2>1. LinesAreOfRun' /\ PlacesInOrder' /\ NoneIsLost'
    BY <1>1, PlacesRest DEF logVars, files, logGhosts, partGhosts
  <2>2. QED
    BY <1>1, <2>1 DEF logVars, files, logGhosts, partGhosts, OrderInv, LinesAreTyped, OnlyTheOpener,
                      OpeningComesFirst, HolderWrites
<1>2. ASSUME NEW d \in Drainers,
             Flush(d) \/ DrainTake(d) \/ DrainWrite(d) \/ RotateCopy(d) \/ RotateFresh(d)
      PROVE  OrderInv'
  BY <1>2, FlushOrdered, DrainTakeOrdered, DrainWriteOrdered, RotateCopyOrdered, RotateFreshOrdered
<1>3. QED
  BY <1>1, <1>2, EmitOrdered, OpeningOrdered, StartOrdered, CrashOrdered, RerunOrdered DEF LogNext

LEMMA OrderAlways == LogSpec => []OrderInv
BY OrderStarts, OrderKeeps, PTL DEF LogSpec

(***************************************************************************)
(* Whatever threads flush and rotate at once, the file and what is on its  *)
(* way to it are in the order the lines were emitted, and none of a run    *)
(* that did not crash is lost but by a full buffer or with an older file,  *)
(* for any number of threads, lines, rotations and runs.                   *)
(***************************************************************************)
THEOREM LogKeepsOrder == LogSpec => []LogInOrder
<1>1. OrderInv => LogInOrder
  <2> SUFFICES ASSUME OrderInv PROVE LogInOrder
    OBVIOUS
  <2> DEFINE a == log \o taken
             b == a \o waiting
             all == b \o boot
  <2>1. /\ log \in Seq(Lines) /\ taken \in Seq(Lines) /\ waiting \in Seq(Lines) /\ boot \in Seq(Lines)
        /\ Sorted(log, crashed) /\ Sorted(taken, crashed)
        /\ Sorted(waiting, crashed) /\ Sorted(boot, crashed)
        /\ Ahead(ToSet(log), ToSet(taken), crashed)
    BY DEF OrderInv, LinesAreTyped, PlacesInOrder, Ahead
  <2>2. a \in Seq(Lines) /\ ToSet(a) = ToSet(log) \cup ToSet(taken) /\ Sorted(a, crashed)
    BY <2>1, JoinedIs
  <2> HIDE DEF a
  <2>3. Ahead(ToSet(a), ToSet(waiting), crashed)
    BY <2>2 DEF OrderInv, PlacesInOrder, Ahead
  <2>4. b \in Seq(Lines) /\ ToSet(b) = ToSet(a) \cup ToSet(waiting) /\ Sorted(b, crashed)
    BY <2>1, <2>2, <2>3, JoinedIs
  <2> HIDE DEF b
  <2>5. Ahead(ToSet(b), ToSet(boot), crashed)
    <3>1. boot = <<>> \/ (taken = <<>> /\ waiting = <<>>)
      BY DEF OrderInv, HolderWrites
    <3>2. ToSet(boot) = {} \/ ToSet(b) = ToSet(log)
      BY <2>2, <2>4, <3>1, NoLineIs
    <3>3. QED
      BY <3>2 DEF OrderInv, PlacesInOrder, Ahead
  <2>6. ToSet(all) = ToSet(b) \cup ToSet(boot) /\ Sorted(all, crashed)
    BY <2>1, <2>4, <2>5, JoinedIs
  <2>7. all = log \o taken \o waiting \o boot
    BY DEF a, b
  <2> HIDE DEF all
  <2>8. \A i, j \in DOMAIN all :
          i < j /\ all[i].run \notin crashed /\ all[j].run \notin crashed => Precedes(all[i], all[j])
    BY <2>6 DEF Sorted
  <2>9. run \notin crashed => {At(n) : n \in 1 .. line} \subseteq ToSet(all) \cup ToSet(old) \cup dropped
    BY <2>2, <2>4, <2>6 DEF OrderInv, NoneIsLost
  <2>10. QED
    BY <2>7, <2>8, <2>9 DEF LogInOrder
<1>2. QED
  BY <1>1, OrderAlways, PTL
-----------------------------------------------------------------------------
(***************************************************************************)
(* The last run's part.  The code finds it by its header; what the run     *)
(* itself wrote is in own.  They agree as long as the run's part begins    *)
(* with its header, or the run has the file for itself since a rotation.   *)
(***************************************************************************)
NoHeaders(s) == \A i \in DOMAIN s : s[i].n # 0

\* The part of a run with its header at its beginning and nowhere else.
Headed(s) == /\ s # <<>> /\ s[1].n = 0
             /\ \A i \in DOMAIN s : i # 1 => s[i].n # 0

\* The lines p can be told from what is before them in f.
Found(f, p) == \/ NoHeaders(p) /\ f = p
               \/ Headed(p) /\ \E e \in Seq(Lines) : f = e \o p

Parts == [lines : Seq(Lines), early : BOOLEAN]

\* Before its log is open a run has nothing in the file, unless its handler wrote.
EarlyIsACrash ==
  /\ ~dying => ~own.early
  /\ ~opened /\ ~own.early => own.lines = <<>>
  /\ own.early /\ own.lines = <<>> => log = <<>>

\* The part of this run once it is there, and of the last run until then.
OwnIsFound == (opened \/ own.lines # <<>>) /\ ~own.early => Found(log, own.lines)

LastIsFound ==
  ~opened /\ own.lines = <<>> /\ log # <<>> /\ ~lastRun.early =>
    Found(log, lastRun.lines) /\ lastRun.lines # <<>>

KeptInv == /\ own \in Parts /\ lastRun \in Parts
           /\ EarlyIsACrash /\ OwnIsFound /\ LastIsFound
           /\ LastRunKept

(* What is found is what the code takes for the last session. *)
LEMMA FoundIsLast ==
  ASSUME NEW f \in Seq(Lines), NEW p \in Seq(Lines), Found(f, p), p # <<>>
  PROVE  LastSession(f) = p
<1> DEFINE headers == {i \in DOMAIN f : f[i].n = 0}
<1>1. CASE NoHeaders(p) /\ f = p
  <2>1. headers = {}
    BY <1>1 DEF NoHeaders
  <2>2. QED
    BY <1>1, <2>1 DEF LastSession
<1>2. ASSUME Headed(p), NEW e \in Seq(Lines), f = e \o p PROVE LastSession(f) = p
  <2>1. /\ Len(f) = Len(e) + Len(p) /\ Len(e) \in Nat /\ Len(p) \in Nat /\ Len(p) # 0
        /\ DOMAIN f = 1 .. Len(f) /\ DOMAIN p = 1 .. Len(p)
    BY <1>2
  <2>2. \A i \in 1 .. Len(p) : Len(e) + i \in 1 .. Len(f) /\ f[Len(e) + i] = p[i]
    <3> SUFFICES ASSUME NEW i \in 1 .. Len(p)
                 PROVE  Len(e) + i \in 1 .. Len(f) /\ f[Len(e) + i] = p[i]
      OBVIOUS
    <3>1. Len(e) + i \in 1 .. Len(f) /\ ~(Len(e) + i <= Len(e)) /\ (Len(e) + i) - Len(e) = i
      BY <2>1
    <3>2. QED
      BY <1>2, <3>1
  <2>3. Len(e) + 1 \in headers
    BY <2>1, <2>2, <1>2 DEF Headed
  <2>4. \A j \in headers : j <= Len(e) + 1
    <3> SUFFICES ASSUME NEW j \in headers, j > Len(e) + 1 PROVE FALSE
      BY <2>1
    <3>1. j - Len(e) \in 1 .. Len(p) /\ j - Len(e) # 1 /\ Len(e) + (j - Len(e)) = j
      BY <2>1
    <3>2. f[j] = p[j - Len(e)]
      BY <2>2, <3>1
    <3>3. QED
      BY <1>2, <2>1, <3>1, <3>2 DEF Headed
  <2>5. (CHOOSE i \in headers : \A j \in headers : j <= i) = Len(e) + 1
    <3> DEFINE c == CHOOSE i \in headers : \A j \in headers : j <= i
    <3>1. c \in headers /\ \A j \in headers : j <= c
      BY <2>3, <2>4
    <3>2. c \in Nat /\ Len(e) + 1 \in Nat
      BY <2>1, <3>1
    <3> HIDE DEF c
    <3>3. c <= Len(e) + 1 /\ Len(e) + 1 <= c
      BY <2>3, <2>4, <3>1
    <3>4. c = Len(e) + 1
      BY <3>2, <3>3
    <3>5. QED
      BY <3>4 DEF c
  <2>6. SubSeq(f, Len(e) + 1, Len(f)) = p
    <3> DEFINE s == SubSeq(f, Len(e) + 1, Len(f))
    <3>1. /\ s \in Seq(Lines) /\ Len(s) = Len(p)
          /\ \A i \in 1 .. Len(p) : s[i] = f[Len(e) + i]
      BY <2>1
    <3> HIDE DEF s
    <3>2. s = p
      BY <2>1, <2>2, <3>1
    <3>3. QED
      BY <3>2 DEF s
  <2>7. QED
    BY <2>3, <2>5, <2>6 DEF LastSession
<1>3. QED
  BY <1>1, <1>2 DEF Found

(* Lines added at the end of the file are added to the part. *)
LEMMA FoundGrows ==
  ASSUME NEW f \in Seq(Lines), NEW p \in Seq(Lines), NEW t \in Seq(Lines),
         Found(f, p), NoHeaders(t)
  PROVE  Found(f \o t, p \o t)
<1> DEFINE q == p \o t
<1>1. /\ q \in Seq(Lines) /\ Len(q) = Len(p) + Len(t) /\ Len(p) \in Nat /\ Len(t) \in Nat
      /\ DOMAIN q = 1 .. Len(q) /\ DOMAIN p = 1 .. Len(p) /\ DOMAIN t = 1 .. Len(t)
      /\ \A i \in 1 .. Len(q) : q[i] = IF i <= Len(p) THEN p[i] ELSE t[i - Len(p)]
  OBVIOUS
<1> HIDE DEF q
<1>2. \A i \in 1 .. Len(q) : \/ i \in 1 .. Len(p) /\ q[i] = p[i]
                             \/ i - Len(p) \in 1 .. Len(t) /\ q[i] = t[i - Len(p)]
  BY <1>1
<1>3. CASE NoHeaders(p) /\ f = p
  <2>1. NoHeaders(q)
    BY <1>1, <1>2, <1>3 DEF NoHeaders
  <2>2. QED
    BY <1>3, <2>1 DEF Found, q
<1>4. ASSUME Headed(p), NEW e \in Seq(Lines), f = e \o p PROVE Found(f \o t, q)
  <2>1. Len(p) # 0 /\ 1 \in 1 .. Len(p) /\ q # <<>>
    BY <1>1, <1>4 DEF Headed
  <2>2. q[1].n = 0
    BY <1>1, <1>4, <2>1 DEF Headed
  <2>3. \A i \in 1 .. Len(q) : i # 1 => q[i].n # 0
    BY <1>1, <1>2, <1>4 DEF Headed, NoHeaders
  <2>4. f \o t = e \o q
    BY <1>4 DEF q
  <2>5. QED
    BY <1>1, <1>4, <2>1, <2>2, <2>3, <2>4 DEF Found, Headed
<1>5. QED
  BY <1>3, <1>4 DEF Found, q

LEMMA NothingIsFound == Found(<<>>, <<>>)
BY DEF Found, NoHeaders

(* The lines on their way to the file are no headers. *)
LEMMA OnTheirWay == ASSUME OrderInv
                    PROVE  NoHeaders(taken) /\ NoHeaders(waiting) /\ NoHeaders(boot)
<1>1. line \in Nat
  BY DEF OrderInv, LinesAreTyped
<1>2. ASSUME NEW s, \A l \in ToSet(s) : l.n \in 1 .. line PROVE NoHeaders(s)
  BY <1>1, <1>2 DEF NoHeaders, ToSet
<1>3. QED
  BY <1>2 DEF OrderInv, LinesAreOfRun
(***************************************************************************)
(* Every step keeps it.                                                    *)
(***************************************************************************)
LEMMA KeptStarts == LogInit => KeptInv
<1> SUFFICES ASSUME LogInit PROVE KeptInv
  OBVIOUS
<1>1. own = NoLines /\ lastRun = NoLines /\ log = <<>> /\ ~opened /\ ~told
  BY DEF LogInit
<1>2. NoLines \in Parts /\ NoLines.lines = <<>> /\ ~NoLines.early
  BY DEF NoLines, Parts
<1>3. QED
  BY <1>1, <1>2 DEF KeptInv, EarlyIsACrash, OwnIsFound, LastIsFound, LastRunKept

(* Steps that leave the file and the ghosts alone, and save nothing. *)
LEMMA KeptRests ==
  ASSUME KeptInv, UNCHANGED <<log, own, lastRun, opened, dying, prev>>, told' = told
  PROVE  KeptInv'
<1>1. own' \in Parts /\ lastRun' \in Parts
  BY DEF KeptInv
<1>2. EarlyIsACrash'
  BY DEF KeptInv, EarlyIsACrash
<1>3. OwnIsFound'
  BY DEF KeptInv, OwnIsFound, Found, NoHeaders, Headed
<1>4. LastIsFound'
  BY DEF KeptInv, LastIsFound, Found, NoHeaders, Headed
<1>5. LastRunKept'
  BY DEF KeptInv, LastRunKept
<1>6. QED
  BY <1>1, <1>2, <1>3, <1>4, <1>5 DEF KeptInv

(* evo_prev_run_save: the log ends with what the last run left. *)
LEMMA SaveKept == ASSUME OrderInv, KeptInv, SavePrev PROVE KeptInv'
<1>1. ~opened /\ log \in Seq(Lines) /\ UNCHANGED <<log, own, lastRun, opened, dying>>
  BY DEF SavePrev, OrderInv, OpeningComesFirst, LinesAreTyped, logGhosts, partGhosts
<1>2. own' \in Parts /\ lastRun' \in Parts /\ EarlyIsACrash'
  BY <1>1 DEF KeptInv, EarlyIsACrash
<1>3. OwnIsFound'
  BY <1>1 DEF KeptInv, OwnIsFound, Found, NoHeaders, Headed
<1>4. LastIsFound'
  BY <1>1 DEF KeptInv, LastIsFound, Found, NoHeaders, Headed
<1>5. LastRunKept'
  <2> SUFFICES ASSUME told', ~dying, ~lastRun.early PROVE prev' = lastRun.lines
    BY <1>1 DEF LastRunKept
  <2>1. log # <<>> /\ prev' = LastSession(log)
    BY DEF SavePrev
  <2>2. own.lines = <<>>
    BY <1>1 DEF KeptInv, EarlyIsACrash
  <2>3. Found(log, lastRun.lines) /\ lastRun.lines # <<>> /\ lastRun.lines \in Seq(Lines)
    BY <1>1, <2>1, <2>2 DEF KeptInv, LastIsFound, Parts
  <2>4. QED
    BY <1>1, <2>1, <2>3, FoundIsLast
<1>6. QED
  BY <1>2, <1>3, <1>4, <1>5 DEF KeptInv

(* The header begins this run's part, whatever was before it. *)
LEMMA StartKept == ASSUME OrderInv, KeptInv, StartLog PROVE KeptInv'
<1> DEFINE h == <<At(0)>>
<1>1. /\ ~opened /\ opened' /\ UNCHANGED <<prev, told, dying, lastRun>>
      /\ log' = log \o h \o boot /\ own' = [own EXCEPT !.lines = own.lines \o h \o boot]
  BY DEF StartLog, OrderInv, OpeningComesFirst
<1>2. log \in Seq(Lines) /\ boot \in Seq(Lines) /\ own.lines \in Seq(Lines) /\ own \in Parts
  BY DEF OrderInv, LinesAreTyped, KeptInv, Parts
<1>3. h \in Seq(Lines) /\ Headed(h)
  BY DEF OrderInv, LinesAreTyped, At, Lines, Headed
<1> HIDE DEF h
<1>4. own' \in Parts /\ own'.early = own.early /\ own'.lines = own.lines \o h \o boot
  <2> DEFINE more == own.lines \o h \o boot
  <2>1. more \in Seq(Lines)
    BY <1>2, <1>3
  <2>2. own' = [own EXCEPT !.lines = more]
    BY <1>1
  <2> HIDE DEF more
  <2>3. own' \in Parts /\ own'.early = own.early /\ own'.lines = more
    BY <1>2, <2>1, <2>2 DEF Parts
  <2>4. QED
    BY <2>3 DEF more
<1>5. own'.lines # <<>>
  <2>1. Len(h) # 0 /\ Len(h) \in Nat
    BY <1>3 DEF Headed
  <2>2. Len(own'.lines) = Len(own.lines) + Len(h) + Len(boot)
    BY <1>2, <1>3, <1>4
  <2>3. QED
    BY <1>2, <2>1, <2>2
<1>6. EarlyIsACrash'
  BY <1>1, <1>4, <1>5 DEF KeptInv, EarlyIsACrash
<1>7. OwnIsFound'
  <2> SUFFICES ASSUME ~own.early PROVE Found(log', own'.lines)
    BY <1>4 DEF OwnIsFound, Found, NoHeaders, Headed
  <2>1. own.lines = <<>>
    BY <1>1 DEF KeptInv, EarlyIsACrash
  <2>2. own'.lines = h \o boot
    BY <1>2, <1>3, <1>4, <2>1
  <2>3. Found(log \o h, h)
    BY <1>2, <1>3 DEF Found
  <2>4. log \o h \in Seq(Lines) /\ NoHeaders(boot)
    BY <1>2, <1>3, OnTheirWay
  <2>5. Found((log \o h) \o boot, h \o boot)
    BY <1>2, <1>3, <2>3, <2>4, FoundGrows
  <2>6. QED
    BY <1>1, <2>2, <2>5
<1>8. LastIsFound' /\ LastRunKept' /\ lastRun' \in Parts
  BY <1>1 DEF KeptInv, LastIsFound, LastRunKept
<1>9. QED
  BY <1>4, <1>6, <1>7, <1>8 DEF KeptInv

(* A drainer adds to the part, and a rotation leaves the file to this run. *)
LEMMA WriteKept == ASSUME OrderInv, KeptInv, NEW d \in Drainers, DrainWrite(d) PROVE KeptInv'
<1>1. /\ opened /\ UNCHANGED <<opened, prev, told, dying, lastRun>>
      /\ log' = log \o taken /\ own' = [own EXCEPT !.lines = own.lines \o taken]
  BY DEF DrainWrite, OrderInv, HolderWrites
<1>2. log \in Seq(Lines) /\ taken \in Seq(Lines) /\ own.lines \in Seq(Lines) /\ own \in Parts
  BY DEF OrderInv, LinesAreTyped, KeptInv, Parts
<1>3. own' \in Parts /\ own'.early = own.early /\ own'.lines = own.lines \o taken
  <2> DEFINE more == own.lines \o taken
  <2>1. more \in Seq(Lines)
    BY <1>2
  <2>2. own' = [own EXCEPT !.lines = more]
    BY <1>1
  <2> HIDE DEF more
  <2>3. own' \in Parts /\ own'.early = own.early /\ own'.lines = more
    BY <1>2, <2>1, <2>2 DEF Parts
  <2>4. QED
    BY <2>3 DEF more
<1>4. EarlyIsACrash'
  <2>1. own'.lines = <<>> => own.lines = <<>> /\ taken = <<>>
    <3>1. \A s, t \in Seq(Lines) : s \o t = <<>> => s = <<>> /\ t = <<>>
      OBVIOUS
    <3>2. QED
      BY <1>2, <1>3, <3>1
  <2>2. own'.early /\ own'.lines = <<>> => log' = <<>>
    BY <1>1, <1>2, <1>3, <2>1 DEF KeptInv, EarlyIsACrash
  <2>3. QED
    BY <1>1, <1>3, <2>2 DEF KeptInv, EarlyIsACrash
<1>5. OwnIsFound'
  <2> SUFFICES ASSUME ~own.early PROVE Found(log', own'.lines)
    BY <1>3 DEF OwnIsFound, Found, NoHeaders, Headed
  <2>1. Found(log, own.lines) /\ NoHeaders(taken)
    BY <1>1, OnTheirWay DEF KeptInv, OwnIsFound
  <2>2. Found(log \o taken, own.lines \o taken)
    BY <1>2, <2>1, FoundGrows
  <2>3. QED
    BY <1>1, <1>3, <2>2
<1>6. LastIsFound' /\ LastRunKept' /\ lastRun' \in Parts
  BY <1>1 DEF KeptInv, LastIsFound, LastRunKept
<1>7. QED
  BY <1>3, <1>4, <1>5, <1>6 DEF KeptInv

LEMMA FreshKept == ASSUME OrderInv, KeptInv, NEW d \in Drainers, RotateFresh(d) PROVE KeptInv'
<1>1. UNCHANGED <<opened, prev, told, dying, lastRun>>
  BY DEF RotateFresh
<1>2. CASE copied
  <2>1. log' = <<>> /\ own' = [own EXCEPT !.lines = <<>>] /\ own \in Parts
    BY <1>2 DEF RotateFresh, KeptInv
  <2>2. own' \in Parts /\ own'.early = own.early /\ own'.lines = <<>>
    BY <2>1, NoLineIs DEF Parts
  <2>3. EarlyIsACrash'
    BY <1>1, <2>1, <2>2 DEF KeptInv, EarlyIsACrash
  <2>4. Found(log', own'.lines)
    BY <2>1, <2>2, NothingIsFound
  <2>5. OwnIsFound'
    BY <2>4 DEF OwnIsFound, Found, NoHeaders, Headed
  <2>6. LastIsFound' /\ LastRunKept' /\ lastRun' \in Parts
    BY <1>1, <2>1 DEF KeptInv, LastIsFound, LastRunKept
  <2>7. QED
    BY <2>2, <2>3, <2>5, <2>6 DEF KeptInv
<1>3. CASE ~copied
  BY <1>1, <1>3, KeptRests DEF RotateFresh
<1>4. QED
  BY <1>2, <1>3

(* The crash handler adds to the part, or writes before there is one. *)
LEMMA CrashKept == ASSUME OrderInv, KeptInv, Crash PROVE KeptInv'
<1> DEFINE more == Leftover \o <<At(line + 1)>>
<1>1. ~dying /\ dying' /\ UNCHANGED <<opened, prev, told, lastRun>>
  BY DEF Crash
<1>2. more \in Seq(Lines) /\ NoHeaders(more) /\ more # <<>>
  <2>1. Leftover \in Seq(Lines) /\ NoHeaders(Leftover)
    BY OnTheirWay, NoLineIs DEF Leftover, OrderInv, LinesAreTyped, NoHeaders
  <2>2. At(line + 1) \in Lines /\ At(line + 1).n # 0
    BY DEF OrderInv, LinesAreTyped, At, Lines
  <2>3. QED
    BY <2>1, <2>2 DEF NoHeaders
<1>3. log \in Seq(Lines) /\ own.lines \in Seq(Lines) /\ own \in Parts
  BY DEF OrderInv, LinesAreTyped, KeptInv, Parts
<1>4. lastRun' \in Parts /\ LastRunKept'
  BY <1>1 DEF KeptInv, LastRunKept
<1>5. CASE log' = log \o more /\ own' = [lines |-> own.lines \o more, early |-> ~opened]
  <2> HIDE DEF more
  <2>1. /\ own' \in Parts /\ own'.lines = own.lines \o more /\ own'.early = ~opened
        /\ own'.lines # <<>>
    BY <1>2, <1>3, <1>5 DEF Parts
  <2>2. EarlyIsACrash'
    BY <1>1, <2>1 DEF KeptInv, EarlyIsACrash
  <2>3. OwnIsFound'
    <3> SUFFICES ASSUME opened PROVE Found(log', own'.lines)
      BY <2>1 DEF OwnIsFound, Found, NoHeaders, Headed
    <3>1. ~own.early
      BY <1>1 DEF KeptInv, EarlyIsACrash
    <3>2. Found(log, own.lines)
      BY <3>1 DEF KeptInv, OwnIsFound
    <3>3. Found(log \o more, own.lines \o more)
      BY <1>2, <1>3, <3>2, FoundGrows
    <3>4. QED
      BY <1>5, <2>1, <3>3
  <2>4. LastIsFound'
    BY <2>1 DEF LastIsFound
  <2>5. QED
    BY <1>4, <2>1, <2>2, <2>3, <2>4 DEF KeptInv
<1>6. CASE UNCHANGED <<log, own>>
  <2>1. EarlyIsACrash'
    BY <1>1, <1>6 DEF KeptInv, EarlyIsACrash
  <2>2. OwnIsFound'
    BY <1>1, <1>6 DEF KeptInv, OwnIsFound, Found, NoHeaders, Headed
  <2>3. LastIsFound'
    BY <1>1, <1>6 DEF KeptInv, LastIsFound, Found, NoHeaders, Headed
  <2>4. QED
    BY <1>4, <1>6, <2>1, <2>2, <2>3 DEF KeptInv
<1>7. QED
  BY <1>5, <1>6 DEF Crash

(* The next run finds this one's part, or, if it left none, the one before. *)
LEMMA RerunKept == ASSUME OrderInv, KeptInv, Rerun PROVE KeptInv'
<1>1. /\ ~opened' /\ ~told' /\ own' = NoLines /\ log' = log
      /\ lastRun' = (IF own.lines = <<>> THEN lastRun ELSE own)
  BY DEF Rerun, files
<1>2. NoLines \in Parts /\ NoLines.lines = <<>> /\ ~NoLines.early
  BY DEF NoLines, Parts
<1>3. own' \in Parts /\ lastRun' \in Parts
  BY <1>1, <1>2 DEF KeptInv
<1>4. EarlyIsACrash' /\ OwnIsFound' /\ LastRunKept'
  BY <1>1, <1>2 DEF EarlyIsACrash, OwnIsFound, LastRunKept
<1>5. LastIsFound'
  <2> SUFFICES ASSUME log # <<>>, ~lastRun'.early
               PROVE  Found(log, lastRun'.lines) /\ lastRun'.lines # <<>>
    BY <1>1 DEF LastIsFound, Found, NoHeaders, Headed
  <2>1. CASE own.lines # <<>>
    BY <1>1, <2>1 DEF KeptInv, OwnIsFound
  <2>2. CASE own.lines = <<>>
    <3>1. ~own.early
      BY <2>2 DEF KeptInv, EarlyIsACrash
    <3>2. ~opened
      BY <2>2, <3>1 DEF KeptInv, OwnIsFound, Found, Headed
    <3>3. QED
      BY <1>1, <2>2, <3>2 DEF KeptInv, LastIsFound
  <2>3. QED
    BY <2>1, <2>2
<1>6. QED
  BY <1>3, <1>4, <1>5 DEF KeptInv

LEMMA KeptKeeps == OrderInv /\ KeptInv /\ [LogNext]_logVars => KeptInv'
<1> SUFFICES ASSUME OrderInv, KeptInv, [LogNext]_logVars PROVE KeptInv'
  OBVIOUS
<1>1. CASE Emit \/ OpenLog \/ UNCHANGED logVars
  BY <1>1, KeptRests DEF Emit, OpenLog, logVars, files, logGhosts, partGhosts
<1>2. ASSUME NEW d \in Drainers, Flush(d) \/ DrainTake(d) \/ RotateCopy(d) PROVE KeptInv'
  BY <1>2, KeptRests DEF Flush, DrainTake, RotateCopy, files, logGhosts, partGhosts
<1>3. ASSUME NEW d \in Drainers, DrainWrite(d) \/ RotateFresh(d) PROVE KeptInv'
  BY <1>3, WriteKept, FreshKept
<1>4. QED
  BY <1>1, <1>2, <1>3, SaveKept, StartKept, CrashKept, RerunKept DEF LogNext

(***************************************************************************)
(* evo.prev.log holds what the last run itself left in the log, all of it  *)
(* and nothing else, for any number of threads, lines, rotations and runs, *)
(* unless that run crashed before its log was open.  The code tells runs   *)
(* apart by their headers only, so the property is about its own lines.    *)
(***************************************************************************)
THEOREM PreviousRunIsKept == LogSpec => []LastRunKept
<1>1. KeptInv => LastRunKept
  BY DEF KeptInv
<1>2. LogSpec => []KeptInv
  BY KeptStarts, KeptKeeps, OrderAlways, PTL DEF LogSpec
<1>3. QED
  BY <1>1, <1>2, PTL
=============================================================================
