------------------------------ MODULE MCDevice ------------------------------
(***************************************************************************)
(* One run over the components of the device side that share no state: the *)
(* initial state picks a component, and the behaviour is that component's. *)
(* The speech stream brings its own variables; every other component keeps *)
(* its state in one record, which is `here` while it is the one that runs. *)
(* The instances fix the small constants; a property of a component is     *)
(* restated for the behaviours that are its.                               *)
(***************************************************************************)
EXTENDS SpeechStream

VARIABLES component, here

deviceVars == <<component, here, speechVars>>

Voice == INSTANCE GatewayVoice WITH voice <- here, Loops <- 2, MaxStops <- 1
Playback == INSTANCE MessagePlayback WITH playback <- here, Messages <- {1, 2}, MaxRequests <- 4
Dictating == INSTANCE Dictation WITH dictation <- here, MaxDictations <- 2
Listening == INSTANCE Utterance WITH utterance <- here, Levels <- {0, 3, 6}, Margin <- 2,
               QuietLevel <- 1, Window <- 3, Hold <- 2, Shortest <- 3, Longest <- 7
Feeding == INSTANCE ReplyFeeder WITH feeder <- here, Words <- 5

\* Markdown is cut into deltas: fences, links, line starts, the marks within a line.
Fencing == INSTANCE SpeechText WITH text <- here, Alphabet <- {"a", "tick", "nl", " "}, Length <- 7,
             Chunk <- 2, Run <- 2, Cap <- 3
Linking == INSTANCE SpeechText WITH text <- here, Alphabet <- {"a", "[", "]", "(", ")"}, Length <- 6,
             Chunk <- 2, Run <- 2, Cap <- 3
Heading == INSTANCE SpeechText WITH text <- here, Alphabet <- {"a", "-", "#", ">", "nl", " "}, Length <- 5,
             Chunk <- 2, Run <- 2, Cap <- 3
Marking == INSTANCE SpeechText WITH text <- here, Alphabet <- {"a", "_", "~", "!", "[", "<", ">"},
             Length <- 5, Chunk <- 2, Run <- 2, Cap <- 3

DeviceInit ==
  /\ Init
  /\ \/ component = "speech" /\ here = <<>>
     \/ component = "voice" /\ Voice!Init
     \/ component = "playback" /\ Playback!Init
     \/ component = "dictation" /\ Dictating!Init
     \/ component = "utterance" /\ Listening!Init
     \/ component = "feeder" /\ Feeding!Init
     \/ component = "fencing" /\ Fencing!Init
     \/ component = "linking" /\ Linking!Init
     \/ component = "heading" /\ Heading!Init
     \/ component = "marking" /\ Marking!Init

Alone(name) == component = name /\ UNCHANGED <<component, speechVars>>

DeviceNext ==
  \/ component = "speech" /\ Next /\ UNCHANGED <<component, here>>
  \/ Alone("voice") /\ Voice!Next
  \/ Alone("playback") /\ Playback!Next
  \/ Alone("dictation") /\ Dictating!Next
  \/ Alone("utterance") /\ Listening!Next
  \/ Alone("feeder") /\ Feeding!Next
  \/ Alone("fencing") /\ Fencing!Next
  \/ Alone("linking") /\ Linking!Next
  \/ Alone("heading") /\ Heading!Next
  \/ Alone("marking") /\ Marking!Next

\* The fairness of each component's own specification.
DeviceFairness ==
  /\ WF_deviceVars(component = "speech" /\ DoneDeadline /\ UNCHANGED <<component, here>>)
  /\ WF_deviceVars(component = "speech" /\ DrainDeadline /\ UNCHANGED <<component, here>>)
  /\ WF_deviceVars(Alone("voice") /\ Voice!StopDone)
  /\ \A l \in 1..2 : WF_deviceVars(Alone("voice") /\ Voice!LoopStep(l))

DeviceSpec == DeviceInit /\ [][DeviceNext]_deviceVars /\ DeviceFairness

\* The books of the audio queue: every record is well formed and bounded by the
\* player's hard capacity, and no frame is lost or counted twice (the player,
\* SpeechStream), which would stall the drain or end a reply early.
QueuesBounded == SpeechTypeOK /\ FramesConserved

\* No part of a reply is spoken twice and none is passed over as spoken: what a
\* result authorises to synthesize again never sounded, a completed reply is
\* whole or, for one the code passes over, named as unheard, the narration goes out in order (SpeechStream), every word is fed once
\* (ReplyFeeder), and a reply is read the same however it was cut into deltas,
\* without its code (SpeechText).
NothingSpokenTwice ==
  /\ UnspokenMeansSilent /\ CompletedIsWhole /\ WireInOrder
  /\ component = "feeder" => Feeding!SpokenOnce
  /\ component = "fencing" => Fencing!CutsDoNotMatter /\ Fencing!CodeIsSilent
  /\ component = "linking" => Linking!CutsDoNotMatter
  /\ component = "heading" => Heading!CutsDoNotMatter
  /\ component = "marking" => Marking!CutsDoNotMatter

\* Whoever holds the speaker or the microphone gives it back, whatever await its
\* stop, its unmount or the background falls into: the settled stream gives the
\* player back, a voice loop at rest holds nothing, two messages sound only across a
\* mode switch and no player outlives the screen it was made for, a live microphone
\* is shown, and what opened the record route closes it.  Each names its exceptions.
DevicesGivenBack ==
  /\ SettledGoesQuiet /\ BackgroundIsQuiet
  /\ component = "voice" => Voice!QuietMeansReleased
  /\ component = "playback" => Playback!OverlapOnlyAcrossModeSwitch /\ Playback!UnmountSilences
  /\ component = "dictation" => Dictating!MicIsVisible /\ Dictating!UnmountClosesRoute

\* A recording ends on speech followed by silence, and no later (Utterance).
UtterancesEndRight ==
  component = "utterance" => Listening!SilenceFollowsSpeech /\ Listening!SpeechIsNotHeldBack

\* A reply whose text is complete always gets its result (SpeechStream), and an
\* abandoned voice loop ends, whatever it was waiting for (GatewayVoice).
SpeechEnds ==
  /\ DoneSettles
  /\ (component = "voice" /\ ~Voice!SomeCurrent)
       ~> (component = "voice" /\ (Voice!AllQuiet(here) \/ Voice!SomeCurrent))
=============================================================================
