----------------------------- MODULE MCRealtime -----------------------------
(***************************************************************************)
(* One run over the parts of a Realtime call, and over the doubles and the *)
(* mobile agent the app is tested with: they share no state, the initial   *)
(* state picks one, and the behaviour is that component's.  The tool       *)
(* surface brings its own variables and constants; the others keep their   *)
(* state in one record, `here` while they are the one that runs.           *)
(***************************************************************************)
EXTENDS ToolSurface, FiniteSets

CONSTANTS
  MaxDrops,                                       \* of a transport session
  Attempts,                                       \* to start a call at the provider
  Voices, MaxRequests, MaxSample,                 \* of the voice preview
  MaxSessions, MaxTurns, RingMax, Sockets,        \* of the scripted gateway
  MaxSteps, MaxCreates, MaxIssued,                \* of the Realtime double
  MaxSockets, MaxCommands, MaxSequence, Retained, Limit, \* of the inspector
  MaxActions, MaxSnapshots, MaxTraces,            \* of the hierarchy tools
  Devices, MaxInstalls, MaxProcesses,             \* of the device discovery
  Calls, MaxVersion                               \* of the prepared runner

ASSUME PartsConstants ==
  /\ MaxRequests \in Nat /\ MaxSample \in Nat
  /\ MaxIssued \in Nat /\ MaxVersion \in Nat
  /\ RingMax \in Nat \ {0} /\ Retained \in Nat /\ Limit \in Nat /\ IsFiniteSet(Devices) /\ 0 \notin Devices

VARIABLES component, here

realtimeVars == <<component, here, vars>>

Transport == INSTANCE RealtimeTransport WITH transport <- here
Backend == INSTANCE RealtimeBackend WITH backend <- here
Preview == INSTANCE VoicePreview WITH preview <- here

\* The doubles of the voice harness, and the mobile agent.
Turns == INSTANCE HarnessTurns WITH harness <- here
Provider == INSTANCE HarnessRealtime WITH fake <- here
Inspector == INSTANCE MobileInspector WITH inspector <- here, MaxCalls <- MaxCommands
Screen == INSTANCE MobileHierarchy WITH mobile <- here, MaxCalls <- MaxActions
Finder == INSTANCE MobileDevices WITH devices <- here
Runner == INSTANCE PreparedRunner WITH runner <- here

RealtimeInit ==
  /\ Init
  /\ \/ component = "surface" /\ here = <<>>
     \/ component = "transport" /\ Transport!Init
     \/ component = "backend" /\ Backend!Init
     \/ component = "preview" /\ Preview!Init
     \/ component = "turns" /\ Turns!Init
     \/ component = "provider" /\ Provider!Init
     \/ component = "inspector" /\ Inspector!Init
     \/ component = "screen" /\ Screen!Init
     \/ component = "finder" /\ Finder!Init
     \/ component = "runner" /\ Runner!Init
  /\ component # "surface" => provider = "late"

Alone(name) == component = name /\ UNCHANGED <<component, vars>>

RealtimeNext ==
  \/ component = "surface" /\ Next /\ UNCHANGED <<component, here>>
  \/ Alone("transport") /\ Transport!Next
  \/ Alone("backend") /\ Backend!Next
  \/ Alone("preview") /\ Preview!Next
  \/ Alone("turns") /\ Turns!Next
  \/ Alone("provider") /\ Provider!Next
  \/ Alone("inspector") /\ Inspector!Next
  \/ Alone("screen") /\ Screen!Next
  \/ Alone("finder") /\ Finder!Next
  \/ Alone("runner") /\ Runner!Next

\* The fairness of each component's own specification.  No behaviour has steps of
\* two components, so one condition holds for a step of each of them.
RealtimeFairness ==
  /\ WF_realtimeVars(component = "surface" /\ HandleSessionUpdated /\ UNCHANGED <<component, here>>)
  /\ WF_realtimeVars(component = "surface" /\ Timeout /\ UNCHANGED <<component, here>>)
  /\ WF_realtimeVars(component = "surface" /\ ProviderUpdates /\ UNCHANGED <<component, here>>)
  /\ WF_realtimeVars(\/ Alone("transport") /\ Transport!ReconnectTimeout
                     \/ Alone("turns") /\ Turns!Playing
                     \/ Alone("inspector") /\ Inspector!Discovered)
  /\ WF_realtimeVars(Alone("inspector") /\ Inspector!OpenFails)
  /\ WF_realtimeVars(Alone("inspector") /\ Inspector!CommandsTimeOut)

RealtimeSpec == RealtimeInit /\ [][RealtimeNext]_realtimeVars /\ RealtimeFairness

\* Whatever fails or is aborted between two awaits, what was opened is given
\* back: the microphone and the peer of a transport session, which then stays
\* silent; a call the provider created, with its sideband and its right to work;
\* the socket and the player of a preview nobody asked for any more.
NothingLeftOpen ==
  /\ component = "transport" => Transport!MicrophoneReleased /\ Transport!ClosedIsSilent
  /\ component = "backend" => Backend!CreatedIsTrackedOrHungUp /\ Backend!OnlyTrackedCallsWork
  /\ component = "preview" =>
       Preview!OnePreviewSounds /\ Preview!OneSampleAtATime /\ Preview!StatusTellsTheRequest

\* What the tests are driven with tells the truth: a replay of the scripted gateway
\* called complete holds every frame that was not lost on a closed socket, the
\* Realtime double leaves no more requests unanswered than it responded unasked and
\* takes a ticket once, an action of the mobile agent falls on the screen its snapshot
\* shows, its inspector dials again and hides no entry from a reader, what it says
\* of a device was so, and the runner it trusts is whole.
ToolsTellTheTruth ==
  /\ component = "turns" => Turns!ReplayHonest /\ Turns!ReplayedPromptIsOpen
  /\ component = "provider" => Provider!RequestsAnswered /\ Provider!TicketOpensOnce
  /\ component = "screen" => /\ Screen!ActsOnWhatItSaw /\ Screen!TraceTellsTheAction
                             /\ Screen!LatestIsRetained
  /\ component = "finder" => Finder!NeverGuesses /\ Finder!ReadyWasTrue /\ Finder!LogIsOfTheDevice
  /\ component = "runner" => Runner!TrustedIsWhole
  /\ component = "inspector" => /\ Inspector!AlwaysRetried /\ Inspector!ConnectedIsTrue
                                /\ Inspector!ReaderMissesNothing

Stuck ==
  \/ component = "transport" /\ Transport!Disconnected
  \/ component = "turns" /\ Turns!PromptWaits
  \/ component = "inspector" /\ Inspector!InFlight

\* A peer that stays disconnected is reported: the reconnect timer fires, the peer
\* recovers, or the session is closed first (RealtimeTransport).  A prompt queued at
\* the scripted gateway is played (HarnessTurns), and a tool of the agent answers
\* whatever becomes of the socket it asked (MobileInspector).
NobodyStuck == Stuck ~> ~Stuck
=============================================================================
