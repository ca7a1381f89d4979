------------------------------ MODULE AppUpdates ------------------------------
(***************************************************************************)
(* The Android self-update (app-update-provider.android, app-update.shared,*)
(* github-release-feed, update-feed-client): one check, one download, one  *)
(* hand-off to the installer, each of which the user may dismiss while it  *)
(* is under way.  A flow is known by its number; only the current one may  *)
(* speak.  A file is what its bytes are: "good" as released, "damaged"     *)
(* with the right size, "short" with another.                              *)
(***************************************************************************)
EXTENDS Naturals

CONSTANTS MaxChecks, MaxFlows, MaxMounts

VARIABLE updates

U == updates
Installed == 1
NoRelease == [code |-> 0, asset |-> "none", sidecar |-> "none"]
\* What the feed may publish: an old or a new version, with or without the parts.
Releases ==
  [code : {1, 2}, asset : {"ours", "foreign"}, sidecar : {"ours", "none"}]
NoFile == "none"

Fresh ==
  [phase |-> "idle", trigger |-> "auto", update |-> NoRelease, checks |-> 0, asked |-> 0,
   flow |-> 0, of |-> NoRelease, orphans |-> 0, at |-> "none", bytes |-> NoFile, file |-> NoFile, checked |-> FALSE,
   auto |-> "timer", autoDone |-> FALSE, autos |-> 0, mounts |-> 1,
   installer |-> "none", handed |-> {}]

Init == updates = Fresh

----------------------------------------------------------------------------
(* The reducer: an event that does not fit the phase changes nothing.      *)
CanCheck(u) == u.phase \in {"idle", "up-to-date", "available", "error"}

\* A failure counts only once the file is there.
Failed_AfterDownload(u) ==
  IF u.phase \in {"verifying", "ready", "available"}
  THEN [u EXCEPT !.phase = "error", !.update = NoRelease] ELSE u

Failed(u) ==
  IF u.phase \in {"downloading", "verifying", "ready", "available"}
  THEN [u EXCEPT !.phase = "error", !.update = NoRelease] ELSE u

Moved(u, from, to) == IF u.phase = from THEN [u EXCEPT !.phase = to] ELSE u

----------------------------------------------------------------------------
(* Checking.                                                               *)
Asked(u, trigger) ==
  IF ~CanCheck(u) THEN u
  ELSE [u EXCEPT !.phase = "checking", !.trigger = trigger, !.update = NoRelease,
                 !.checks = @ + 1, !.asked = @ + 1]

CheckNow == U.asked < MaxChecks /\ updates' = Asked(U, "manual")

\* A release is new, or it is not; one that is not Wave's is an error.
Outcome(release) ==
  IF release.code <= Installed THEN "up-to-date"
  ELSE IF release.asset = "ours" THEN "available" ELSE "error"

\* Any check that is out completes the one the sheet waits for.
CheckCompletes(release) ==
  /\ U.checks > 0
  /\ LET u == [U EXCEPT !.checks = @ - 1]
     IN updates' = IF u.phase # "checking" THEN u
                   ELSE IF Outcome(release) = "available"
                   THEN [u EXCEPT !.phase = "available", !.update = release]
                   ELSE [u EXCEPT !.phase = IF u.trigger = "auto" THEN "idle" ELSE Outcome(release)]

CheckFails ==
  /\ U.checks > 0
  /\ LET u == [U EXCEPT !.checks = @ - 1]
     IN updates' = Moved(u, "checking", IF u.trigger = "auto" THEN "idle" ELSE "error")

\* Three seconds after the start the preference is read, once in a process.
AutoTimer ==
  /\ U.auto = "timer"
  /\ updates' = [U EXCEPT !.auto = "reading"]

PreferenceRead(enabled) ==
  /\ U.auto = "reading" /\ U.asked < MaxChecks
  /\ updates' = IF U.autoDone \/ ~enabled THEN [U EXCEPT !.auto = "none"]
                ELSE [Asked(U, "auto") EXCEPT !.auto = "none", !.autos = @ + 1, !.autoDone = TRUE]

----------------------------------------------------------------------------
(* Downloading.                                                            *)

\* A new number silences the flow under way, and its file is deleted.
Abandoned(u) ==
  [u EXCEPT !.flow = @ + 1, !.orphans = IF u.at = "none" THEN @ ELSE @ + 1,
            !.at = "none", !.of = NoRelease, !.bytes = NoFile, !.file = NoFile, !.checked = FALSE]

Download ==
  /\ U.phase = "available" /\ U.flow < MaxFlows
  /\ updates' = Moved([Abandoned(U) EXCEPT !.at = "transfer", !.of = U.update],
                      "available", "downloading")

\* It finds another number and returns.
OrphanReturns == U.orphans > 0 /\ updates' = [U EXCEPT !.orphans = @ - 1]

\* The stream is longer than the release said.
StreamTooLong == U.at = "transfer" /\ updates' = Failed(Abandoned(U))

DownloadFails == U.at \in {"transfer", "done", "sidecar"} /\ updates' = Failed(Abandoned(U))

Transferred(bytes) ==
  U.at = "transfer" /\ updates' = [U EXCEPT !.at = "done", !.bytes = bytes]

\* The continuation of the download: the size is compared at once, then the
\* sidecar is fetched, if the release has one.
Continued ==
  /\ U.at = "done"
  /\ LET u == Moved([U EXCEPT !.file = U.bytes], "downloading", "verifying")
     IN updates' = IF u.bytes = "short" THEN Failed(Abandoned(u))
                   ELSE [u EXCEPT !.at = "sidecar"]

HandedOver(u) ==
  IF u.file = NoFile THEN u
  ELSE [u EXCEPT !.installer = "open",
                 !.handed = @ \cup {[bytes |-> u.file, checked |-> u.checked]}]

\* The digest is compared where there is one, and the installer opens by itself.
Verified ==
  /\ U.at = "sidecar"
  /\ LET sidecar == U.of.sidecar = "ours"
         u == [U EXCEPT !.at = "none", !.checked = sidecar]
     IN updates' = IF sidecar /\ U.file # "good" THEN Failed(Abandoned(U))
                   ELSE HandedOver(Moved(u, "verifying", "ready"))

Install == U.phase = "ready" /\ U.installer # "open" /\ updates' = HandedOver(U)

InstallerCloses == U.installer = "open" /\ updates' = [U EXCEPT !.installer = "none"]

\* The installer does not open; nothing asks which flow had called it.
InstallerFails == U.installer = "open" /\ updates' = Failed([U EXCEPT !.installer = "none"])

Dismiss ==
  /\ U.phase \notin {"idle"} /\ (U.phase = "checking" => U.trigger = "manual") /\ U.flow < MaxFlows
  /\ updates' = [Abandoned(U) EXCEPT !.phase = "idle", !.update = NoRelease]

\* The provider is mounted again: its state is new, the process is not.
Remount ==
  /\ U.mounts < MaxMounts /\ U.flow < MaxFlows
  /\ updates' = [Fresh EXCEPT !.auto = IF U.autoDone THEN "none" ELSE "timer",
                              !.autoDone = U.autoDone, !.autos = U.autos, !.asked = U.asked,
                              !.flow = U.flow + 1, !.orphans = Abandoned(U).orphans, !.mounts = U.mounts + 1,
                              !.handed = U.handed]

Next ==
  \/ CheckNow \/ CheckFails \/ AutoTimer \/ Remount
  \/ \E release \in Releases : CheckCompletes(release)
  \/ \E enabled \in BOOLEAN : PreferenceRead(enabled)
  \/ Download \/ OrphanReturns \/ StreamTooLong \/ DownloadFails \/ Continued \/ Verified
  \/ \E bytes \in {"good", "damaged", "short"} : Transferred(bytes)
  \/ Install \/ InstallerCloses \/ InstallerFails \/ Dismiss

Spec == Init /\ [][Next]_updates

\* Answers come to an end by the request's timeout; that a download does, by success
\* or failure, is an assumption: the transfer has none.
Fairness ==
  /\ WF_updates(CheckFails)
  /\ WF_updates(DownloadFails)

----------------------------------------------------------------------------
\* The installer is handed the released bytes; where the release has no digest to
\* compare with, bytes of the right size.
InstallerGetsTheRelease ==
  \A h \in U.handed : h.bytes = "good" \/ (h.bytes = "damaged" /\ ~h.checked)

\* What the sheet says is under way is under way, whatever was dismissed, failed
\* or answered late before: a transfer, a verification, a file to install.
SheetHasItsFlow ==
  /\ U.phase = "downloading" => U.at \in {"transfer", "done"}
  /\ U.phase = "verifying" => U.at = "sidecar"
  /\ U.phase = "ready" => U.file # NoFile
  /\ U.phase = "checking" => U.checks > 0

\* A process checks by itself once, over all mounts of the provider.
ChecksItselfOnce == U.autos <= 1

\* A sheet that shows progress does not show it for ever.
SheetWaits == U.phase \in {"checking", "downloading", "verifying"}
=============================================================================
