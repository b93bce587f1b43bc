------------------------------ MODULE Updater ------------------------------
(***************************************************************************)
(* The self-updater, addons/src/evo_updater.c: a check and a download on   *)
(* detached threads, cancel and apply on the UI thread.  The installed     *)
(* image and the staging file beside it outlive the program; everything    *)
(* else is lost when it exits or crashes.                                  *)
(*                                                                         *)
(* A release is a number, newer ones are larger, and stands for its whole  *)
(* and right image.  Other contents of the staging file are Other.         *)
(***************************************************************************)
EXTENDS Naturals

CONSTANTS Releases,    \* releases GitHub may offer
          Absent,      \* no staging file
          Other,       \* staged bytes that are not the release's image
          MaxRestarts  \* bound: exits and crashes

ASSUME ReleasesAssumption ==
  Releases \subseteq Nat /\ Absent \notin Releases /\ Other \notin Releases

VARIABLES image, stage,           \* the two files
          running,                \* EVO_PLAYER_VERSION of the program that runs
          updState, latest,       \* s_st.state; s_st.latest with its s_url and s_digest
          updBusy, updCancel,     \* s_busy, s_cancel
          updPc,                  \* the worker thread
          whole,                  \* rc and d.failed of the stream
          restarts

threadVars == <<updBusy, updPc, whole>>
updaterVars == <<image, stage, running, updState, latest, updCancel, threadVars, restarts>>

UpdaterInit ==
  /\ image \in Releases
  /\ stage = Absent
  /\ running = image
  /\ updState = "idle"
  /\ latest = image
  /\ updBusy = FALSE /\ updCancel = FALSE
  /\ updPc = "none"
  /\ whole = FALSE
  /\ restarts = 0
-----------------------------------------------------------------------------
(***************************************************************************)
(* The check.                                                              *)
(***************************************************************************)
\* Faulty variant: a check is taken after an update has been applied.
CheckAllowedAlways == ~updBusy /\ updState \notin {"downloading", "ready"}

CheckAllowed == ~updBusy /\ updState \notin {"downloading", "ready", "applied"}

Check ==
  /\ CheckAllowed
  /\ \/ updBusy' = TRUE /\ updPc' = "check" /\ updState' = "checking"
     \/ updState' = "failed" /\ UNCHANGED <<updBusy, updPc>>
  /\ UNCHANGED <<image, stage, running, latest, updCancel, whole, restarts>>

\* The answer: unusable, not newer than the program, or a release to offer.
CheckEnds ==
  /\ updPc = "check"
  /\ \/ updState' \in {"failed", "up_to_date"} /\ UNCHANGED latest
     \/ \E r \in Releases : r > running /\ latest' = r /\ updState' = "available"
  /\ updPc' = "out"
  /\ UNCHANGED <<image, stage, running, updCancel, updBusy, whole, restarts>>

\* The end of either thread, a critical section of its own.
ThreadEnds ==
  /\ updPc = "out"
  /\ updPc' = "none"
  /\ updBusy' = FALSE
  /\ UNCHANGED <<image, stage, running, updState, latest, updCancel, whole, restarts>>
-----------------------------------------------------------------------------
(***************************************************************************)
(* The download.                                                           *)
(***************************************************************************)
MayDownload == ~updBusy /\ updState = "available"

Download ==
  /\ MayDownload
  /\ \/ updBusy' = TRUE /\ updCancel' = FALSE /\ updPc' = "open" /\ updState' = "downloading"
     \/ updState' = "failed" /\ updCancel' \in {FALSE, updCancel} /\ UNCHANGED <<updBusy, updPc>>
  /\ UNCHANGED <<image, stage, running, latest, whole, restarts>>

CancelDownload ==
  /\ updState = "downloading"
  /\ updCancel' = TRUE
  /\ UNCHANGED <<image, stage, running, updState, latest, threadVars, restarts>>

OpenStage ==
  /\ updPc = "open"
  /\ \/ updPc' = "stream" /\ stage' = Other
     \/ updPc' = "fail" /\ UNCHANGED stage
  /\ UNCHANGED <<image, running, updState, latest, updCancel, updBusy, whole, restarts>>

\* evo_avio_stream and dl_sink: the image, something else, or a broken stream.
Stream ==
  /\ updPc = "stream"
  /\ updPc' = "verify"
  /\ stage' \in {latest, Other}
  /\ whole' \in BOOLEAN
  /\ UNCHANGED <<image, running, updState, latest, updCancel, updBusy, restarts>>

\* Faulty variant: the checksum is not compared.
VerifiedBySize == ~updCancel /\ whole

\* Cancel, result, length and checksum.
Verified == ~updCancel /\ whole /\ stage = latest

Verify ==
  /\ updPc = "verify"
  /\ IF Verified THEN updState' = "ready" /\ updPc' = "out"
                 ELSE updPc' = "fail" /\ UNCHANGED updState
  /\ UNCHANGED <<image, stage, running, latest, updCancel, updBusy, whole, restarts>>

Discard ==
  /\ updPc = "fail"
  /\ stage' = Absent
  /\ updState' = IF updCancel THEN "available" ELSE "failed"
  /\ updPc' = "out"
  /\ UNCHANGED <<image, running, latest, updCancel, updBusy, whole, restarts>>
-----------------------------------------------------------------------------
\* evo_updater_apply: one rename, or nothing.
Apply ==
  /\ updState = "ready"
  /\ \/ image' = stage /\ updState' = "applied"
     \/ UNCHANGED image /\ updState' = "failed"
  /\ stage' = Absent
  /\ UNCHANGED <<running, latest, updCancel, threadVars, restarts>>

\* The program exits or crashes at any point and is started again.
Restart ==
  /\ restarts < MaxRestarts
  /\ restarts' = restarts + 1
  /\ running' = image
  /\ updState' = "idle"
  /\ latest' = image
  /\ updBusy' = FALSE /\ updCancel' = FALSE /\ updPc' = "none" /\ whole' = FALSE
  /\ UNCHANGED <<image, stage>>

UpdaterThread == CheckEnds \/ ThreadEnds \/ OpenStage \/ Stream \/ Verify \/ Discard

UpdaterNext == Check \/ Download \/ CancelDownload \/ Apply \/ Restart \/ UpdaterThread

UpdaterSpec == UpdaterInit /\ [][UpdaterNext]_updaterVars
-----------------------------------------------------------------------------
UpdaterTypeOK ==
  /\ stage \in Releases \cup {Absent, Other}
  /\ running \in Releases /\ latest \in Releases
  /\ updState \in {"idle", "checking", "up_to_date", "available", "downloading", "ready",
                   "applied", "failed"}
  /\ updBusy \in BOOLEAN /\ updCancel \in BOOLEAN /\ whole \in BOOLEAN
  /\ updPc \in {"none", "check", "open", "stream", "verify", "fail", "out"}
  /\ restarts \in Nat

\* The console never mounts anything but a whole release whose checksum was
\* compared, and what waits to be applied is the release the user was shown,
\* whatever the threads, the user, a crash and a staging file left by an
\* earlier run do in between ("never leave an unverified image behind").
InstalledIsVerified ==
  /\ image \in Releases
  /\ updState = "ready" => stage = latest

\* An update is newer than what it replaces, also when the release on GitHub
\* is taken back between two checks.
NeverDowngrades == [][image' # image => image' > image]_updaterVars
=============================================================================
