--------------------------- MODULE PreparedRunner ---------------------------
(***************************************************************************)
(* ensureSimulatorWda() of the mobile agent (tools/mobile-agent/src/       *)
(* wda.ts): the WebDriverAgent runner of the pinned version is downloaded, *)
(* verified, extracted in a temporary directory, copied to the artifacts   *)
(* and described there by a metadata file.  A call trusts what it finds if *)
(* the app is there and the metadata names the pinned version.  The        *)
(* process may die between any two steps.  Calls follow one another here:  *)
(* nothing in the code keeps two processes apart, and two at once can      *)
(* trust what the other is replacing.                                      *)
(***************************************************************************)
EXTENDS Naturals

CONSTANTS Calls,        \* of ensureSimulatorWda(), each in a process of its own
          MaxVersion    \* of the pin, which is only raised

VARIABLE runner
R == runner

None == [version |-> 0, parts |-> "none"]
Whole(v) == [version |-> v, parts |-> "whole"]
Partial(v) == [version |-> v, parts |-> "some"]

\* app, metadata: on disk; at, pinned: of each call, and the version of its process;
\* returned: what it trusted; unmarked: a copy was begun, and not ended, while the
\* metadata already named its version, for the app alone had been deleted; doubted:
\* the calls that trusted what there was then.
Init ==
  runner = [pin |-> 1, app |-> None, metadata |-> 0, at |-> [c \in Calls |-> "idle"],
            pinned |-> [c \in Calls |-> 0], returned |-> [c \in Calls |-> None],
            unmarked |-> FALSE, doubted |-> {}]

Go(c, at) == [R EXCEPT !.at[c] = at]

Over == {"idle", "trusted", "prepared", "failed"}

Start(c) ==
  /\ \A d \in Calls : R.at[d] \in Over
  /\ R.at[c] = "idle"
  /\ runner' = [Go(c, "looking") EXCEPT !.pinned[c] = R.pin]

\* metadataMatches()
Look(c) ==
  /\ R.at[c] = "looking"
  /\ runner' = IF R.app # None /\ R.metadata = R.pinned[c]
               THEN [Go(c, "trusted") EXCEPT !.returned[c] = R.app,
                                             !.doubted = IF R.unmarked THEN @ \cup {c} ELSE @]
               ELSE Go(c, "fetching")

\* Downloaded, its checksum compared, extracted; or it fails, and nothing is written.
Fetched(c) == R.at[c] = "fetching" /\ runner' = Go(c, "removing")
FetchFails(c) == R.at[c] = "fetching" /\ runner' = Go(c, "failed")

\* rm, of what there is, file by file.
Remove(c) ==
  /\ R.at[c] = "removing"
  /\ runner' = IF R.app.parts = "none" THEN Go(c, "copying")
               ELSE [Go(c, "emptying") EXCEPT !.app.parts = "some"]
Removed(c) == R.at[c] = "emptying" /\ runner' = [Go(c, "copying") EXCEPT !.app = None]

CopyBegins(c) ==
  /\ R.at[c] = "copying"
  /\ runner' = [Go(c, "filling") EXCEPT !.app = Partial(R.pinned[c]),
                                        !.unmarked = @ \/ R.metadata = R.pinned[c]]

Copied(c) ==
  R.at[c] = "filling" /\ runner' = [Go(c, "describing") EXCEPT !.app = Whole(R.pinned[c]), !.unmarked = FALSE]

Described(c) ==
  /\ R.at[c] = "describing"
  /\ runner' = [Go(c, "prepared") EXCEPT !.metadata = R.pinned[c]]

\* The process dies, or a step of it fails; the files stay as they are.
Crash(c) ==
  R.at[c] \notin Over /\ runner' = Go(c, "failed")

\* The package is updated: WDA_ASSETS and the driver move together.
Repin == R.pin < MaxVersion /\ runner' = [R EXCEPT !.pin = @ + 1]

\* Somebody empties the artifacts, without the metadata.
AppDeleted == R.app # None /\ runner' = [R EXCEPT !.app = None]

Next ==
  \/ Repin \/ AppDeleted
  \/ \E c \in Calls :
       \/ Start(c) \/ Look(c) \/ Fetched(c) \/ FetchFails(c) \/ Remove(c) \/ Removed(c)
       \/ CopyBegins(c) \/ Copied(c) \/ Described(c) \/ Crash(c)

Spec == Init /\ [][Next]_runner
----------------------------------------------------------------------------
\* What a call trusts without a download is a whole copy of the version its
\* process has pinned, wherever the calls before it died; unless the app alone had
\* been deleted, and it was copied again under its old metadata.
TrustedIsWhole ==
  \A c \in Calls : R.at[c] = "trusted" /\ c \notin R.doubted =>
                     R.returned[c] = Whole(R.pinned[c])
=============================================================================
