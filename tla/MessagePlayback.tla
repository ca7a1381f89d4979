-------------------------- MODULE MessagePlayback --------------------------
(***************************************************************************)
(* Reading a message aloud (src/features/voice/use-message-playback.ts).   *)
(* Every play or stop takes a request number; a play looks at it after the *)
(* speech arrived, but not after the audio mode was switched.              *)
(***************************************************************************)
EXTENDS Naturals

CONSTANTS
  Messages,     \* messages that can be read aloud
  MaxRequests   \* bound on plays and stops

VARIABLE playback

None == 0

Init ==
  playback = [request |-> 0, calls |-> {}, ref |-> None, sounding |-> {}, late |-> {},
              after |-> {},
              status |-> "idle", message |-> None, mounted |-> TRUE]

Released(v) == [v EXCEPT !.ref = None, !.sounding = @ \ {v.ref}]
Call(r, m, at) == [request |-> r, message |-> m, at |-> at]

Stopped(v) == [Released([v EXCEPT !.request = @ + 1]) EXCEPT !.status = "idle", !.message = None]

\* A second tap on the message that loads or plays stops it.
Play(m) ==
  /\ playback.mounted /\ playback.request < MaxRequests
  /\ playback' =
       IF playback.message = m /\ playback.status # "idle" THEN Stopped(playback)
       ELSE LET v == Released([playback EXCEPT !.request = @ + 1])
            IN [v EXCEPT !.calls = @ \cup {Call(v.request, m, "fetch")},
                         !.status = "loading", !.message = m]

SpeechFetched(c) ==
  /\ c.at = "fetch"
  /\ \/ playback' = [playback EXCEPT !.calls =
                       (@ \ {c}) \cup (IF c.request = playback.request
                                         THEN {[c EXCEPT !.at = "mode"]} ELSE {})]
     \/ playback' = [playback EXCEPT !.calls = @ \ {c},
                       !.status = IF c.request = playback.request THEN "error" ELSE @,
                       !.message = IF c.request = playback.request THEN None ELSE @]

\* `late` remembers players created for a request that had been superseded, `after`
\* those created when the screen was gone (history).
ModeSwitched(c) ==
  /\ c.at = "mode"
  /\ playback' =
       [playback EXCEPT !.calls = @ \ {c}, !.ref = c.request, !.sounding = @ \cup {c.request},
          !.late = IF c.request # playback.request THEN @ \cup {c.request, playback.ref} ELSE @,
          !.after = IF playback.mounted THEN @ ELSE @ \cup {c.request},
          !.status = "playing", !.message = c.message]

PlayerFinished(r) ==
  /\ r \in playback.sounding
  /\ playback' =
       IF r = playback.request
         THEN [Released(playback) EXCEPT !.status = "idle", !.message = None,
                                         !.sounding = @ \ {r, playback.ref}]
       ELSE [playback EXCEPT !.sounding = @ \ {r}]

\* The unmount releases the player and takes no request number.
Unmount ==
  /\ playback.mounted
  /\ playback' = [Released(playback) EXCEPT !.mounted = FALSE]

Next ==
  \/ \E m \in Messages : Play(m)
  \/ \E c \in playback.calls : SpeechFetched(c) \/ ModeSwitched(c)
  \/ \E r \in playback.sounding : PlayerFinished(r)
  \/ Unmount

Spec == Init /\ [][Next]_playback
----------------------------------------------------------------------------
(* A player that sounds beside the current one belongs to a play that was  *)
(* superseded while the audio mode was being switched: there, and only     *)
(* there, can two messages be heard.                                       *)
OverlapOnlyAcrossModeSwitch ==
  \A r, q \in playback.sounding : r # q => {r, q} \cap playback.late # {}

(* A screen that went away is silent, but for the message whose speech was *)
(* still on its way when it went: its player is made afterwards, for       *)
(* nobody, and plays to its end (use-message-playback.ts:37, :58).         *)
UnmountSilences ==
  ~playback.mounted => playback.sounding \subseteq playback.late \cup playback.after
=============================================================================
