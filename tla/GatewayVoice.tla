---------------------------- MODULE GatewayVoice ----------------------------
(***************************************************************************)
(* Gateway voice mode (src/features/voice/use-gateway-voice.ts): a loop    *)
(* that listens, transcribes, runs a turn and speaks.  Every start and     *)
(* every teardown bumps the generation; a loop that meets a newer one at   *)
(* one of its checks abandons itself.  Loops of older generations may      *)
(* still be at an await, next to the current one, over one recorder, one   *)
(* speech stream and one player.                                           *)
(***************************************************************************)
EXTENDS Naturals, FiniteSets

CONSTANTS
  Loops,   \* loops started, by number
  MaxStops \* stops by the user, a lost focus or a departure to the background

VARIABLE voice

NoLoop == 0

Init ==
  voice = [generation |-> 0, asking |-> 0, stopping |-> 0, stops |-> 0,
           pc |-> [l \in 1..Loops |-> "unborn"], of |-> [l \in 1..Loops |-> 0],
           recorder |-> "off", stream |-> NoLoop, player |-> NoLoop, turn |-> NoLoop,
           muted |-> FALSE, skip |-> FALSE, phase |-> "idle",
           error |-> FALSE]

Pcs == {"unborn", "top", "route", "prepare", "sample", "halting", "transcribe",
        "playroute", "turn", "result", "fetch", "speakroute", "playing",
        "stopping", "failing", "done"}

Current(v, l) == v.of[l] = v.generation
Alive(v, l) == v.pc[l] \notin {"unborn", "done"}
At(l, here) == voice.pc[l] = here

Go(v, l, there) == [v EXCEPT !.pc[l] = there]
GoIfCurrent(v, l, there) == Go(v, l, IF Current(v, l) THEN there ELSE "done")

(* teardown() up to its first await: everything the loop holds is let go,  *)
(* and the recorder's stop is under way.                                   *)
TornDown(v) ==
  [v EXCEPT !.generation = @ + 1, !.turn = NoLoop, !.stream = NoLoop, !.player = NoLoop]

\* The catch of the loop: an abandoned loop ends, the current one tears down.
Failed(v, l) == IF Current(v, l) THEN Go(TornDown(v), l, "failing") ELSE Go(v, l, "done")

----------------------------------------------------------------------------
\* start() awaits the microphone permission before it takes a generation.
StartTapped ==
  /\ voice.phase = "idle"
  /\ Cardinality({l \in 1..Loops : voice.pc[l] = "unborn"}) > voice.asking
  /\ voice' = [voice EXCEPT !.asking = @ + 1]

PermissionAnswered ==
  /\ voice.asking > 0
  /\ \/ voice' = [voice EXCEPT !.asking = @ - 1, !.phase = "idle", !.error = TRUE]
     \/ LET l == CHOOSE n \in 1..Loops : voice.pc[n] = "unborn"
                                         /\ \A m \in 1..(n - 1) : voice.pc[m] # "unborn"
        IN voice' = [voice EXCEPT !.asking = @ - 1, !.generation = @ + 1, !.muted = FALSE,
                                  !.phase = "listening", !.error = FALSE,
                                  !.pc[l] = "top", !.of[l] = voice.generation + 1]

\* stop(): the teardown and, once the recorder has stopped, the idle state.
StopTapped ==
  /\ voice.stops < MaxStops
  /\ voice' = [TornDown(voice) EXCEPT !.stopping = @ + 1, !.stops = @ + 1]

StopDone ==
  /\ voice.stopping > 0
  /\ voice' = [voice EXCEPT !.stopping = @ - 1, !.recorder = "off", !.phase = "idle",
                            !.error = FALSE, !.muted = FALSE]

ToggleMute ==
  /\ voice.phase # "idle"
  /\ voice' = [voice EXCEPT !.muted = ~@]

\* Skipping stops the streamed speech only; the turn goes on as text.
SkipSpeaking ==
  /\ voice.phase = "speaking"
  /\ voice' = [voice EXCEPT !.skip = TRUE,
                            !.phase = IF voice.turn # NoLoop THEN "thinking" ELSE @]

----------------------------------------------------------------------------

\* runLoop, one await after the other.
Top(l) ==
  /\ At(l, "top") /\ (Current(voice, l) => ~voice.muted)
  /\ voice' = GoIfCurrent(voice, l, "route")

RouteOpens(l) ==
  /\ At(l, "route")
  /\ \/ voice' = GoIfCurrent(voice, l, "prepare")
     \/ voice' = Failed(voice, l)

\* captureUtterance: nothing looks at the generation before it records.
Prepared(l) ==
  /\ At(l, "prepare")
  /\ \/ voice' = [Go(voice, l, "sample") EXCEPT !.recorder = "on", !.phase = "listening"]
     \/ voice' = Failed(voice, l)

\* The samples end the utterance (Utterance), or the user who submits it now,
\* the mute or a newer loop does.
Sampled(l) ==
  /\ At(l, "sample")
  /\ voice' = Go(voice, l, "halting")

Halted_Abandons(l) ==
  /\ At(l, "halting")
  /\ IF ~Current(voice, l) THEN voice' = Go(voice, l, "done")
     ELSE voice' = [Go(voice, l, "top") EXCEPT !.recorder = "off"]

(* The recording is discarded when it is stale, muted or silent; else it   *)
(* is transcribed.                                                         *)
Halted(l) ==
  /\ At(l, "halting")
  /\ LET v == [voice EXCEPT !.recorder = "off"]
     IN IF ~Current(v, l) THEN voice' = Go(v, l, "done")
        ELSE \/ voice' = Go(v, l, "top")
             \/ ~v.muted /\ voice' = [Go(v, l, "transcribe") EXCEPT !.phase = "transcribing"]

\* The transcript is acted on whatever the generation has become.
Transcribed(l) ==
  /\ At(l, "transcribe")
  /\ \/ voice' = GoIfCurrent(voice, l, "top")
     \/ voice' = Go(TornDown(voice), l, "stopping")
     \/ voice' = [Go(voice, l, "playroute") EXCEPT !.phase = "thinking"]
     \/ voice' = Failed(voice, l)

PlaybackOpens(l) ==
  /\ At(l, "playroute")
  /\ voice' = [GoIfCurrent(voice, l, "turn")
                 EXCEPT !.stream = IF Current(voice, l) THEN l ELSE @,
                        !.turn = IF Current(voice, l) THEN l ELSE @]

\* Streamed speech becomes audible while the turn still runs.
SpeechSounds(l) ==
  /\ voice.pc[l] \in {"turn", "result"} /\ voice.stream = l /\ Current(voice, l)
  /\ voice' = [voice EXCEPT !.phase = "speaking"]

Unstream(v, l) ==
  [v EXCEPT !.turn = IF @ = l THEN NoLoop ELSE @, !.stream = IF @ = l THEN NoLoop ELSE @]

\* The turn settles, is abandoned at its next event, or fails.
TurnEnds(l) ==
  /\ At(l, "turn")
  /\ IF Current(voice, l)
       THEN \/ voice' = [Go(voice, l, "result") EXCEPT !.turn = NoLoop]
            \/ voice' = Failed(Unstream(voice, l), l)
       ELSE voice' = Go(Unstream(voice, l), l, "done")

\* Only a reply that never sounded is synthesized whole.
StreamResult(l) ==
  /\ At(l, "result")
  /\ LET v == Unstream(voice, l)
     IN \/ voice' = GoIfCurrent(v, l, "top")
        \/ Current(v, l) /\ voice' = [Go(v, l, "fetch") EXCEPT !.skip = FALSE]

SpeechFetched(l) ==
  /\ At(l, "fetch")
  /\ voice' = GoIfCurrent(voice, l, "speakroute") \/ voice' = Failed(voice, l)

SpeakOpens(l) ==
  /\ At(l, "speakroute")
  /\ IF Current(voice, l)
       THEN voice' = [Go(voice, l, "playing") EXCEPT !.player = l, !.phase = "speaking"]
       ELSE voice' = Go(voice, l, "done")

\* Finished, skipped, abandoned or timed out: the player is released.
PlaybackEnds(l) ==
  /\ At(l, "playing")
  /\ voice' = [Go(voice, l, "top") EXCEPT !.player = NoLoop]

\* The teardown a stop word or a failure began comes to its end.
TeardownDone(l) ==
  \/ /\ At(l, "stopping")
     /\ voice' = [Go(voice, l, "done") EXCEPT !.recorder = "off", !.phase = "idle",
                                              !.error = FALSE, !.muted = FALSE]
  \/ /\ At(l, "failing")
     /\ voice' = [Go(voice, l, "done") EXCEPT !.recorder = "off", !.phase = "idle",
                                              !.error = TRUE]

LoopStep(l) ==
  \/ Top(l) \/ RouteOpens(l) \/ Prepared(l) \/ Sampled(l) \/ Halted(l) \/ Transcribed(l)
  \/ PlaybackOpens(l) \/ TurnEnds(l) \/ StreamResult(l) \/ SpeechFetched(l)
  \/ SpeakOpens(l) \/ PlaybackEnds(l) \/ TeardownDone(l)

Next ==
  \/ StartTapped \/ PermissionAnswered \/ StopTapped \/ StopDone
  \/ ToggleMute \/ SkipSpeaking
  \/ \E l \in 1..Loops : LoopStep(l) \/ SpeechSounds(l)

\* Every await of the hook settles.
Fairness == WF_voice(StopDone) /\ \A l \in 1..Loops : WF_voice(LoopStep(l))

Spec == Init /\ [][Next]_voice /\ Fairness
----------------------------------------------------------------------------
VoiceTypeOK ==
  /\ voice.generation \in Nat /\ voice.asking \in 0..Loops /\ voice.stopping \in 0..MaxStops
  /\ voice.pc \in [1..Loops -> Pcs] /\ voice.recorder \in {"off", "on"}
  /\ {voice.stream, voice.player, voice.turn} \subseteq 0..Loops
  /\ voice.phase \in {"idle", "listening", "transcribing", "thinking", "speaking"}

AllQuiet(v) == v.stopping = 0 /\ \A l \in 1..Loops : ~Alive(v, l)

(* When every loop has ended and no stop is under way, the microphone is   *)
(* off and no turn, stream or player is held: no interleaving of a stop    *)
(* with an await leaks what the loop acquired after it.                    *)
QuietMeansReleased ==
  AllQuiet(voice) =>
    voice.recorder = "off" /\ voice.stream = NoLoop /\ voice.player = NoLoop
      /\ voice.turn = NoLoop

(* Stopping for good ends everything: without another start every loop     *)
(* reaches an await that abandons it.                                      *)
SomeCurrent == \E l \in 1..Loops : Current(voice, l)
StopEndsEverything == ~SomeCurrent ~> (AllQuiet(voice) \/ SomeCurrent)

(* "The loop abandons itself as soon as it sees a newer one, which is how  *)
(* stop/unmount unwind a mid-flight cycle" (the comment on generationRef): *)
(* after a stop the screen shows voice mode as idle.                       *)
IdleAfterStop ==
  AllQuiet(voice) => voice.phase = "idle"
=============================================================================
