----------------------------- MODULE Dictation -----------------------------
(***************************************************************************)
(* Dictation into the composer (src/features/voice/use-dictation.ts and    *)
(* the composer's microphone button).  activeRef is meant to admit one     *)
(* dictation; cancel() clears it while a start() or a stop() still has     *)
(* awaits to come, so calls may overlap, and each start and stop keeps its *)
(* own place.  The recorder is one, and is released natively when the      *)
(* composer unmounts.  Whose draft the transcript belongs to is Composer's.*)
(***************************************************************************)
EXTENDS Naturals

CONSTANTS MaxDictations

VARIABLE dictation

D == dictation
Calls == 1..MaxDictations
Statuses == {"idle", "recording", "transcribing", "denied", "error"}

\* left: why the record route was last left open (history); undone: a cancel() that
\* came while a start or a stop was under way (history).
Init ==
  dictation = [active |-> FALSE, status |-> "idle", mounted |-> TRUE, count |-> 0,
               starting |-> [d \in Calls |-> "none"], stopping |-> [d \in Calls |-> "none"],
               cancelling |-> "none", recorder |-> "off", recordRoute |-> FALSE,
               left |-> "no", undone |-> FALSE]

OpenRoute(v) == [v EXCEPT !.recordRoute = TRUE, !.left = "no"]
CloseRoute(v) == [v EXCEPT !.recordRoute = FALSE, !.left = "no"]
LeaveRoute(v, why) == [v EXCEPT !.left = IF @ = "no" THEN why ELSE @]
\* setAudioModeAsync(...).catch(() => undefined): a refusal passes unseen.
RouteClosed(v) == {CloseRoute(v), LeaveRoute(v, "refused")}
Halt(v) == [v EXCEPT !.recorder = IF @ = "on" THEN "off" ELSE @]

Busy ==
  \/ D.cancelling # "none"
  \/ \E d \in Calls : D.starting[d] # "none" \/ D.stopping[d] # "none"

----------------------------------------------------------------------------
(* start.                                                                  *)
Start ==
  /\ D.mounted /\ D.status = "idle" /\ ~D.active /\ D.count < MaxDictations
  /\ dictation' = [D EXCEPT !.active = TRUE, !.count = @ + 1, !.starting[D.count + 1] = "permission"]

Refused(v, d, status) == [v EXCEPT !.active = FALSE, !.status = status, !.starting[d] = "none"]

Permission(d) ==
  /\ D.starting[d] = "permission"
  /\ \/ dictation' = Refused(D, d, "denied")
     \/ dictation' = Refused(D, d, "error")
     \/ dictation' = [OpenRoute(D) EXCEPT !.starting[d] = "route"]

\* A recorder that the unmount released cannot be prepared.
Prepare(d) ==
  /\ D.starting[d] = "route"
  /\ \/ /\ D.recorder # "released"
        /\ dictation' = [D EXCEPT !.starting[d] = "none", !.status = "recording", !.recorder = "on"]
     \/ dictation' = LeaveRoute(Refused(D, d, "error"), IF D.mounted THEN "start" ELSE "unmounted")

----------------------------------------------------------------------------
(* stop and cancel.  The recorder is taken to be off after stop(), whether *)
(* it answered or threw.                                                   *)
Stop(d) ==
  /\ D.mounted /\ D.status = "recording" /\ D.active /\ d = D.count /\ D.stopping[d] = "none"
  /\ dictation' = [D EXCEPT !.status = "transcribing", !.stopping[d] = "halting"]

StopEnds(v, d, status) == [v EXCEPT !.active = FALSE, !.status = status, !.stopping[d] = "none"]

Halted(d) ==
  /\ D.stopping[d] = "halting"
  /\ \/ \E v \in RouteClosed(Halt(D)) : dictation' = [v EXCEPT !.stopping[d] = "upload"]
     \/ dictation' = LeaveRoute(StopEnds(Halt(D), d, "error"), "stop")

Transcribed(d) ==
  /\ D.stopping[d] = "upload"
  /\ \E status \in {"idle", "error"} : dictation' = StopEnds(D, d, status)

\* Exported by the hook; no screen of the app calls it.
Cancel ==
  /\ D.mounted /\ D.active /\ D.cancelling = "none"
  /\ dictation' = [D EXCEPT !.active = FALSE, !.cancelling = "halting", !.undone = @ \/ Busy]

CancelHalts ==
  /\ D.cancelling = "halting"
  /\ \E v \in RouteClosed(Halt(D)) : dictation' = [v EXCEPT !.cancelling = "mode"]

Cancelled ==
  /\ D.cancelling = "mode"
  /\ dictation' = [D EXCEPT !.cancelling = "none", !.status = "idle"]

DismissError ==
  /\ D.mounted /\ D.status \in {"denied", "error"}
  /\ dictation' = [D EXCEPT !.status = "idle"]

\* The effect's cleanup leaves the route alone when activeRef is clear.
Unmount ==
  /\ D.mounted
  /\ LET gone == [D EXCEPT !.mounted = FALSE, !.active = FALSE, !.recorder = "released"]
     IN IF D.active THEN \E v \in RouteClosed(gone) : dictation' = v ELSE dictation' = gone

Next ==
  \/ Start \/ Cancel \/ CancelHalts \/ Cancelled \/ DismissError \/ Unmount
  \/ \E d \in Calls : Permission(d) \/ Prepare(d) \/ Stop(d) \/ Halted(d) \/ Transcribed(d)

Spec == Init /\ [][Next]_dictation
----------------------------------------------------------------------------
(* A live microphone is one the user sees and can stop: the button shows   *)
(* it, or its stop or cancel is under way, unless a cancel() came before   *)
(* start() or stop() had ended: recording then begins with activeRef clear *)
(* (use-dictation.ts:71), and neither stop nor cancel ends it.             *)
MicIsVisible ==
  D.recorder = "on" /\ ~D.undone =>
    \/ D.active /\ (D.status = "recording" \/ \E d \in Calls : D.stopping[d] = "halting")
    \/ D.cancelling = "halting"

(* When nothing is under way and nothing records, the record-capable audio *)
(* session is closed ("an open record session keeps the OS microphone      *)
(* claimed"), whether the composer is there or has gone, but for the ways  *)
(* the code leaves it open: a start or a stop that threw, a close the      *)
(* system refused, a permission granted to a composer that had gone        *)
(* (`left`), and the cancel of MicIsVisible.                               *)
UnmountClosesRoute ==
  D.recordRoute /\ ~Busy /\ D.recorder # "on" /\ ~D.undone => D.left # "no"
=============================================================================
