------------------------------ MODULE MCClient ------------------------------
(***************************************************************************)
(* One run over the parts of the client that share no state: the initial   *)
(* state picks one, and the behaviour is that component's, its state in    *)
(* `here`.                                                                 *)
(***************************************************************************)
EXTENDS Naturals

CONSTANTS
  People, MaxOperations, MaxRotations,     \* of the account
  Requests, MaxRefreshes, MaxTickets,      \* of the access to the gateway
  MaxDials, MaxSessions, MaxLive, Picks,   \* of the channel
  Words, MaxLength, MaxFiles, MaxSends,    \* of the draft
  MaxFetches, MaxSwitches,                 \* of the picker
  Values, MaxSets, MaxReads,               \* of the stores
  MaxChecks, MaxFlows, MaxMounts           \* of the updates

ASSUME ClientConstants ==
  /\ 0 \notin People /\ MaxOperations \in Nat \ {0}
  /\ {MaxDials, MaxSessions, MaxReads} \subseteq Nat
  /\ 0 \notin Values
  /\ Words \cap {"/title", "/config", "/skill", "/", "offered"} = {}

VARIABLES component, here

clientVars == <<component, here>>

\* The account, the gateway and the channel to it.
Account == INSTANCE Connection WITH connection <- here, Users <- People
Rpc == INSTANCE GatewayRpc WITH link <- here, MaxCalls <- 2, MaxEvents <- 2, IdleIntervals <- 4
Access == INSTANCE GatewayAccess WITH access <- here, Operations <- Requests,
            MaxRotations <- MaxRefreshes
Channel == INSTANCE SessionChannel WITH channel <- here, MaxOperations <- MaxDials

\* What the screens show, and what the user does there.
Pages == INSTANCE TimelinePages WITH pages <- here, MaxRows <- 5, Limit <- 2, Scan <- 2,
           Unbounded <- 8
Lists == INSTANCE SessionLists WITH lists <- here, Sessions <- {1}, Queries <- {1, 2},
           MaxMutations <- 2, MaxChanges <- 1
Chat == INSTANCE Conversation WITH conv <- here, MaxTexts <- 2, MaxTurns <- 2
Edits == INSTANCE TimelineEdits WITH edits <- here, Contents <- {1, 2, 3}, MaxRows <- 4,
           PageSize <- 2, MaxCorrections <- 2, MaxRewrites <- 1
Reply == INSTANCE ReplyRow WITH reply <- here, MaxCalls <- 2, MaxSegments <- 2, MaxTurns <- 2
Card == INSTANCE PromptCard WITH ask <- here, MaxPrompts <- 2, MaxCalls <- 2, MaxDrops <- 1,
          Kinds <- {"approval", "batch", "clarify", "integration in voice mode"}, MaxFrames <- 1
Draft == INSTANCE Composer WITH composer <- here, MaxTurns <- MaxSends
Picker == INSTANCE ModelPicker WITH picker <- here, MaxReads <- MaxFetches, MaxChanges <- MaxSwitches

\* What the device keeps and installs.
Stores == INSTANCE DeviceStores WITH stores <- here
Updates == INSTANCE AppUpdates WITH updates <- here

ClientInit ==
  \/ component = "account" /\ Account!Init
  \/ component = "rpc" /\ Rpc!Init
  \/ component = "access" /\ Access!Init
  \/ component = "channel" /\ Channel!Init
  \/ component = "pages" /\ Pages!Init
  \/ component = "lists" /\ Lists!Init
  \/ component = "chat" /\ Chat!Init
  \/ component = "edits" /\ Edits!Init
  \/ component = "reply" /\ Reply!Init
  \/ component = "card" /\ Card!Init
  \/ component = "draft" /\ Draft!Init
  \/ component = "picker" /\ Picker!Init
  \/ component = "stores" /\ Stores!Init
  \/ component = "updates" /\ Updates!Init

Alone(name) == component = name /\ UNCHANGED component

ClientNext ==
  \/ Alone("account") /\ Account!Next
  \/ Alone("rpc") /\ Rpc!Next
  \/ Alone("access") /\ Access!Next
  \/ Alone("channel") /\ Channel!Next
  \/ Alone("pages") /\ Pages!Next
  \/ Alone("lists") /\ Lists!Next
  \/ Alone("chat") /\ Chat!Next
  \/ Alone("edits") /\ Edits!Next
  \/ Alone("reply") /\ Reply!Next
  \/ Alone("card") /\ Card!Next
  \/ Alone("draft") /\ Draft!Next
  \/ Alone("picker") /\ Picker!Next
  \/ Alone("stores") /\ Stores!Next
  \/ Alone("updates") /\ Updates!Next

\* The fairness of each component's own specification.  No behaviour has steps of
\* two components, so one condition holds for a step of each of them.
ClientFairness ==
  /\ \A o \in 1..MaxOperations : WF_clientVars(Alone("account") /\ Account!Settles(o))
  /\ WF_clientVars(\/ Alone("rpc") /\ Rpc!Tick
                   \/ Alone("lists") /\ Lists!NotFound
                   \/ Alone("chat") /\ Chat!Settles
                   \/ Alone("updates") /\ Updates!CheckFails)
  /\ WF_clientVars(\/ Alone("rpc") /\ Rpc!Resume
                   \/ Alone("updates") /\ Updates!DownloadFails)

ClientSpec == ClientInit /\ [][ClientNext]_clientVars /\ ClientFairness

----------------------------------------------------------------------------
\* What is shown is what the gateway has, for the question that was asked: a call
\* ends with its own answer, events and pages come whole and in order, the lists,
\* the timeline and a reply tell what happened once all is quiet, a rewritten
\* conversation is replayed at the right row, and an answer goes to the prompt that
\* was on the screen (the chat and gateway components).
ShownIsTrue ==
  /\ component = "rpc" => Rpc!OwnAnswer /\ Rpc!NobodyLeftWaiting /\ Rpc!EventsInOrder /\ Rpc!SilenceNoticed
  /\ component = "pages" => Pages!NoGap
  /\ component = "lists" => Lists!ListTellsTheGateway /\ Lists!HitsAreForTheText
  /\ component = "chat" => /\ Chat!ScreenTellsTheGateway /\ Chat!PromptStaysVisible
                           /\ Chat!RefusedOnlyAfterFailure
  /\ component = "edits" => /\ Edits!CorrectionShownOnce /\ Edits!ReplayHitsItsRow
                            /\ Edits!RowIdsAreCurrent /\ Edits!BranchEndsAtItsRow
  /\ component = "reply" => /\ Reply!RowSurvivesReload /\ Reply!TasksTellTheTools
                            /\ Reply!CompletedIsQuiet /\ Reply!PlanIsNewest
  /\ component = "card" => /\ Card!AnswerIsForItsPrompt /\ Card!BatchIsOnePress
                           /\ Card!CardStaysUsable

\* One identity at a time: the tokens, the record on disk and the client are one
\* user's and the newest generation, nothing outlives a sign-out, and a ticket
\* is asked for once (the connection provider, the gateway client).
CredentialsKept ==
  /\ component = "account" => Account!OneIdentity /\ Account!SignedOutIsForgotten
  /\ component = "access" => Access!SignedInStays /\ Access!DiskFollowsMemory /\ Access!TicketsSingleUse

\* What the user chose or wrote stands: settings and keys, the model picked for a
\* conversation, the words of a draft, the conversation itself, and the release
\* that was offered (the stores, channel, composer, picker and updates).
ChoicesKept ==
  /\ component = "stores" => Stores!ChoiceStands /\ Stores!PresenceTold
  /\ component = "channel" => /\ Channel!ChannelIsOpen /\ Channel!PickReachesSession
                              /\ Channel!OneStoredSession /\ Channel!DeleteSeesTheTurn
  /\ component = "draft" => Draft!NoWordVanishes /\ Draft!NoWordTwice
  /\ component = "picker" => Picker!DearWithConsent /\ Picker!OneSurface /\ Picker!PillTellsTheGateway
  /\ component = "updates" => /\ Updates!InstallerGetsTheRelease /\ Updates!SheetHasItsFlow
                              /\ Updates!ChecksItselfOnce

Waiting ==
  \/ component = "account" /\ Account!Spinning
  \/ component = "rpc" /\ (Rpc!Asleep \/ Rpc!InFlight)
  \/ component = "lists" /\ Lists!StrandedOnDeleted
  \/ component = "chat" /\ Chat!Stopping
  \/ component = "updates" /\ Updates!SheetWaits

\* Nobody waits for ever: a spinner, a call to a gateway that fell silent, a screen
\* on a conversation that was deleted, a stop and the update sheet all come to an
\* end.
NothingWaitsForever == Waiting ~> ~Waiting
=============================================================================
