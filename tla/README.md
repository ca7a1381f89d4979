# Wave for Hermes: verification models

Wave is a React Native client for the Hermes agent: a text chat whose turns stream
from a self-hosted gateway over WebSockets, a live voice call over OpenAI Realtime
whose model hands work to Hermes through tool calls, and a half-duplex voice mode that
uses the gateway's own speech services. Beside the app the repository keeps a scripted
double of both servers (the voice harness) and an agent that drives the app on devices
(the mobile agent). This directory holds TLA+ models of all of these, the TLC runs that
check them and the TLAPS proofs about them. Paths below are relative to the repository
root; `src/...` is the app's source.

Contents: 1 inventory, 2 plan, 3 modules, 4 runs, 5 proofs, 6 findings and known
divergences, 7 what is not modelled.

## 1. Inventory

Everything runs on one JavaScript thread per process, so a step of these models is what
the code does between two awaits (or callbacks). All interleaving comes from promises,
timers, native events, socket frames, other clients, and the user.

| Component | State it keeps | Operations | What is hard | What makes it correct |
|---|---|---|---|---|
| **Realtime tool surface** `services/realtime/realtime-tool-surface-controller.ts` | desired and acknowledged surface, one update in flight, the failed revision, an 8 s timer | request, session.updated, timeout, close | late answers, a transition made while one is in flight, a send that throws inside the pump | no transition lost, nothing failed retried, a belief is the last thing sent |
| **Tool-call orchestrator** `features/realtime/ask-hermes-orchestrator.ts`, `gateway-ask-hermes-executor.ts` | executions by key, owner, active execution, a promise chain of redirects, two outstanding counters | ask, retry, steer, correct, activate/deactivate, progress, abort | every await of the chain; the owner settling under a steer; repeated calls | one owner, an instruction lands once, every call answered once and eventually, slots given back |
| **Realtime sideband** `services/realtime/openai-realtime-sideband.ts` | who talks, a result queue, a pending progress note and its budget, the user item of each response | sendFunctionResult, injectProgressNote, handleMessage, close | a lagging view of the provider, reentrant dispatch inside response.done, a throwing socket | results conserved, the gate reopens, calls keep their user item |
| **Realtime backend** `services/realtime/openai-realtime-backend.ts` | table of live calls | startRealtimeCall, endRealtimeCall | partial set-up, abort between provider and app | a created call is tracked or hung up, only a tracked call works |
| **Call controller** `features/realtime/realtime-controller.ts` | phase, operation number, abort signal, call id, transport session, expiry and grace timers, reconnect loop | start, stop, reconnect, failure, mute, transport events | continuations of superseded operations, failures during recovery | no open microphone behind the user's back, calls hung up, stop and recovery end |
| **Realtime transport** `services/realtime/react-native-realtime-transport.ts` | peer, tracks, disconnect timer | prepare, connect, close | abort while a native promise is pending | releases what it acquired, reports a lost peer |
| **Voice preview** `features/realtime/use-voice-preview.ts`, `openai-realtime-voice-sampler.ts` | request number, player, sample cache | play, stop, unmount | a newer request at every await | one preview sounds, the status is the request's |
| **Turn stream** `services/gateway/gateway-client.ts`, `features/chat/use-wave-chat.ts` | per client: replay watermark and epoch; per stream: a queue; per screen: busy flag, attempts | streamTurn, resumeTurnStream, session.events.since, reattach, settle | drops anywhere, replies and frames interleaved on a new socket, a gateway restart | records once and in order, a prompt reaches the user, the row tells the turn, the composer is never latched |
| **Translator and reducer** `services/gateway/gateway-turn-events.ts`, `features/chat/chat-state.ts` | content since the last interim, pending prompt; parts of the row, tasks, plan, reasoning, status | translate, finish, replay; applyEvent, reload | interim echoes, parallel tools, the hand-over to the stored rows | the row survives the reload, tasks tell the tools |
| **Conversation screen** `use-wave-chat.ts`, `chat-screen.tsx`, `refresh-session-timeline.ts` | messages, status, pending correction, the timeline cache | submit, stop, correct, reconcile, unmount | a stop before there is a turn, a reconcile racing the next turn | the screen tells the gateway when all is quiet, stop ends |
| **Prompts** `components/prompt-card.tsx`, `features/chat/prompt-*.ts` | what is filled in, one busy slot, the pending prompt | choose, answer, batch, decline, expire | the answer outlives its prompt, a second client answers, half a batch | an answer goes to the prompt that was shown |
| **Turn actions, journal** `turn-action-targets.ts`, `session-correction-journal.ts` | journal of local corrections | regenerate, edit, branch, merge | rows rewritten under new ids, a partly loaded timeline | a correction once at its place, a replay at its row |
| **Gateway RPC** `gateway-rpc.ts` | outstanding requests, last frame, heartbeat | call, event, suspend/resume | half-open sockets, late answers, sleep | every call ends with its own answer, silence is noticed |
| **Gateway access** `gateway-client.ts`, `gateway-tokens.ts` | token pair, ticket transport | request, harvest, mint, dial | rotation on refused responses, the ticket fallback | the newest pair is kept and saved, a ticket is used once |
| **Gateway timeline** `gateway-client.ts` | none between calls | newest and older pages, count, probe | rows added between two requests, gateways of three kinds | a page joins the one before |
| **Gateway sessions** `gateway-client.ts` | placeholder table, live ids, turn sockets, model picks | create, resume, submit, delete, pick | a placeholder resolved by two operations at once, a live id that was lost | one stored session, a pick reaches it |
| **Session lists, search** `features/sessions/*`, `navigation/drawer/content.shared.ts` | cached pages, optimistic marks | pin, archive, delete, refetch, search | reads racing local writes, rollback | the list tells the gateway when all is quiet |
| **Composer, slash commands** `features/chat/composer/*` | draft, attachments, menu | type, send, command, dictate, restore | a failure or a transcript after new words | no word vanishes, and none comes back that the gateway has |
| **Model picker** `composer/model/picker.ts`, `gateway-models.ts` | catalogue, confirm, two lanes of busy | open, refresh, select, effort | confirmation between sheets, reads racing writes | nothing dear without consent, the pill tells the gateway |
| **Speech stream** `services/gateway/gateway-speech-stream.ts` | clause window, received/admitted/played ledger, audibility flag, four timers | appendText, finishText, pump, stop | player promises pending across settlement, events later than sound | bounded queue, speech never repeated |
| **PCM player** `native/pcm-player.ts` | one session, a queue, a stop fade | start, write, finish, stop | singleton across sessions, background and interruption | one session, every finish resolves |
| **Gateway voice mode** `features/voice/use-gateway-voice.ts`, `speech-text.ts`, `gateway-voice-machine.ts` | generation, mute, recorder, phase; a Markdown filter; a noise floor | start, stop, capture, turn, speak | stale loops after stop/start; syntax cut between deltas | a stopped loop holds nothing, a reply is read the same however it is cut |
| **Reading aloud, dictation** `use-message-playback.ts`, `use-dictation.ts` | request number; active flag, recorder | play, stop; start, stop, dismiss | cancel during start, an unmount | one message sounds, no recording nobody sees |
| **Connection provider** `features/connection/connection-provider.tsx` | operation number, record, client, phase | restore, signIn, verify, disconnect, token rotation | superseded operations that already wrote | one identity, signed out means forgotten |
| **Preference stores, key store** `state/*`, `openai-key-store.ts` | value, hydrated flag; presence of the key | hydrate, set; save, remove | a set racing hydration, reads overtaking writes | the last choice stands |
| **App updates** `features/updates/*` | flow token, phase, file | check, download, verify, install | superseded flows, a remount | the installer gets the release that was offered |
| **Voice harness** `tools/voice-harness/src/*` | sessions, turns, prompts, a replay ring; a Realtime script | submit, interrupt, redirect, replay; sideband frames | sockets replaced in a turn, a ring that dropped frames | a replay says when it is incomplete, no request is left but for a response that came unasked |
| **Mobile agent** `tools/mobile-agent/src/*` | inspector socket, rings, snapshots, traces, devices, the prepared runner | connect, read, act, capture, prepare | reconnects, stale snapshots, devices that come and go, a crash in a copy | an action falls on what its snapshot shows, what it says was so |
| Normalisation, commands, row models, contracts, scripts | none that outlives a call, or display | pure functions and views | - | unit-tested |

How they interact. The voice screen owns a *controller*, which calls the *backend* to
create a provider call and the *transport* for its media. The backend creates, per
call, a *sideband* and an *orchestrator*, and wires them: the sideband's function-call
listener calls `handleToolCall`; the orchestrator's `deliver`, `onProgress` and
`onActiveExecutionChange` call `sendFunctionResult`, `injectProgressNote` and the
*tool surface's* `request`. The orchestrator executes asks through the gateway client's
`streamTurn`, and steers and corrections through `session.redirect`. The chat screen
owns a `useWaveChat`, which consumes `streamTurn`/`resumeTurnStream`, passes every
event to the reducer and reconciles the timeline when a stream ends. Voice mode
consumes the same `streamTurn` and feeds its text to a speech stream over the PCM
player. The connection provider makes the gateway client all of them use. The voice
harness stands in for the gateway and the provider, and the mobile agent for the user.

The hazards of this code, each at its line and with the properties that would catch
it, are the list `hazards` of PROJECT.json.

## 2. Plan

Order, most important first. What is done: (1) `ToolSurface`, `AskHermes` with the
abstract `AskService`, and their proofs; (2) `Sideband`, `RealtimeController`,
`RealtimeBackend`, `RealtimeTransport`, `VoicePreview`; (3) `Transcript`, `TurnStream`,
`ReplyRow`, `Conversation`, `PromptCard`, `TimelineEdits`; (4) the device side:
`SpeechStream` (with the PCM player), `GatewayVoice`, `Utterance`, `ReplyFeeder`, `SpeechText`,
`MessagePlayback`, `Dictation`; (5) the gateway client, `GatewayRpc`, `GatewayAccess`,
`TimelinePages`, `SessionChannel`, and the screens and stores, `Connection`,
`DeviceStores`, `SessionLists`, `Composer`, `ModelPicker`, `AppUpdates`; (6) the test
tools, `HarnessTurns`, `HarnessRealtime`, `MobileInspector`, `MobileHierarchy`,
`MobileDevices`, `PreparedRunner`.

(7) the proofs: `MCRealtime_proofs`, `AskHermes_proofs`, `Sideband_proofs`,
`RealtimeController_proofs`, `TurnStream_proofs`, `MCClient_proofs`.

What is left: the proofs named at the end of section 5; and `LiveCall`, which would compose
`AskHermes`, `Sideband` and `ToolSurface` as the backend wires them, where the external
dispatcher of one is the other.

## 3. The modules

Names follow the source: a variable is the field it models, an action the method or
the continuation it models. `PROJECT.json` maps each definition to its lines.
Definitions whose name carries a suffix (`Fail_NoPump`) are mutations used to test the
properties; no specification uses them.

**ToolSurface.** The controller's fields plus two FIFO channels to the provider.
`Pump` is `pump()`, called by every action that calls it in the code and with what the
caller left, so the send, the throw out of `socket.send` and the nested `fail()` are one
step. `Request`, `HandleSessionUpdated`, `Timeout`, `Close` are the entry points. A
provider is "late" (it may answer after the timer fired) or "refusing" (it may drop or
alter an update); a run draws one at the start. One that is both can make an old
answer, identical to a newer one in flight, be taken for it: the wire has no revision,
so no property about beliefs could survive it.

**AskHermes.** One live call. `exec` is `executionsByKey` with the state of each
execution's gateway turn; `redirectQueue` is the promise chain, whose head is the job
that runs; a job's `at` is the await it is in (queued behind another; waiting for
`owner.ready`; its `session.redirect` sent). `Reconsider` is the top of `runSteer`'s
loop. `TurnStreams`, `TurnCompletes`, `TurnFails` are the executor over `streamTurn`, and
`OwnerSettles` the continuation of `startOwnerTurn`, a separate step because other
continuations run between the two. `tries` is history: how often an instruction was
given to Hermes. `AskService` says what a dispatcher promises without saying how: a
call is taken on once and answered at most once and never after the call closed, one
turn works at a time, an instruction is handed over once, and every call taken on is
answered unless the call closes. `Service` is the refinement mapping.

**Sideband.** The fields as one record, because one handler runs many of its methods in
a row: each sending operator maps the record to the set of records the socket may
leave. `ResponseDone` folds the function-call listeners over the calls of a response,
each of which may answer at once from inside the loop. The provider is the Realtime API
with `create_response` and `interrupt_response`: it refuses `response.create` while it
generates, and speech interrupts a response.

**RealtimeController.** Attempt n is the n-th `establish()`; its session and its call
are called n too. `attempts[n].at` is the await it is in. `ending` holds the
`endRealtimeCall` promises with the continuation that waits for each (`stop`,
`failAndCleanup`, or the fire-and-forget of a re-offer), which decides what happens to
`callId`. `IsCurrent` is the code's test, including that a failure drops the signal so
that only the number counts afterwards. Hang-ups fail or do not return, aborted promises may
still resolve, a re-offer fails while it is set up, and stop comes inside a failure's
cleanup: no constant excludes any of it. Four variables that no action reads keep the
history the properties must name: the operations whose loop outlived their failure
(`outlived`), the calls whose hang-up by `finishCall` was refused (`refused`), those whose id
`callId` lost (`forgotten`), and the operations whose failed event fell on the loop of an
older one (`swallowed`).

**Transcript.** A view is the translator and the reducer together: a frame acts on both
at once, as the hook dispatches the events of a frame in order. Text is the sequence of
the streamed pieces; a prompt, a plan and a tool call are numbers. The text operators
are the code's (`appendAssistantText`, `sealAssistantText`, `replaceAssistantText`,
`replaceLastInterimText`), with `IsPrefix` for the string prefix tests.

**TurnStream** EXTENDS it with one conversation's stream: dial, resume, replay, pump,
delay, settling are where the generator and its consumer wait. The gateway is external:
a log of numbered frames, one running turn that a prompt may block, an answer to each of
`session.resume`, `session.events.since` and `prompt.submit`, and a process that may
restart (an epoch), modelled from what the client relies on. A socket is FIFO; responses
and frames share it, so a frame may overtake a replay's answer.

**Conversation** is the rest of `useWaveChat` and of the chat screen around it: a text is
typed, submitted, stopped, used to correct the running turn, refused or lost, and the
timeline is read back into the cache under the local rows. `ReplyRow` follows one reply
through the parts `Transcript` leaves out (several tools by name, reasoning, tasks, plan)
and compares the live bubble with the one grouped from the stored rows. `PromptCard` has
one prompt from the gateway's frame to the answer that reaches it: the card's own state,
the batch, the busy slot of the screen, the socket that may be lost, the second client
that may answer first. `TimelineEdits` holds the gateway's rows beside the loaded page, and
computes regenerate, edit, branch and the woven corrections as the screen does.

**GatewayRpc**, **GatewayAccess**, **TimelinePages**, **SessionChannel** are the four concerns
of the gateway client around the turn: one socket's calls and silence (time passes in
heartbeat intervals); tokens and tickets (a token pair is a generation, a rotation may come
on any response, the provider's callback saves it); loading pages from a gateway that
counts from the newest row, or only from the oldest; and the addressing of a conversation
by placeholder, stored and live id.

**Connection**, **DeviceStores**, **SessionLists**, **Composer**, **ModelPicker**, **AppUpdates**
each hold the state of one provider, store or hook in one record. An asynchronous
operation is a number with the await it is in, what it read before that await, and the
check it makes after it. The secure store, the update feed and the gateway answer in any
order, or fail.

**The device side.** `SpeechStream` holds the PCM player as operators only, because the
player calls its listener from inside `write` and `stop`: a step applies the stream's handler
to what the player became. `GatewayVoice` keeps every loop that ever started at
the await it is in. `Utterance` folds metering samples into the tracker. `ReplyFeeder` routes
the words of a turn into speech. `SpeechText` is the Markdown filter over sequences of a
small alphabet: its reference is the same filter fed the whole text at once.
`MessagePlayback` and `Dictation` are the two hooks with their awaits; a cancelled dictation
may overlap the next, so every start and stop keeps its own place.

**The rest of a call.** `RealtimeTransport` and `RealtimeBackend` have the same operations as
the controller sees, from inside: every native promise, every part of the set-up, and the
provider's view of what was created. `VoicePreview` is the hook with the sampler's socket.

**The test tools.** `HarnessTurns` plays the scripted gateway's turns frame by frame over
sockets that are replaced; `HarnessRealtime` plays a Realtime script against a client that
sends results and `response.create`. `MobileInspector` is the collector with its socket,
commands and rings; `MobileHierarchy` the snapshots, actions and traces;
`MobileDevices` discovery, readiness and native logs; `PreparedRunner` the runner of
WebDriverAgent, whose process may die between any two steps (the directory and the metadata
file are what survives).

**MCClient, MCDevice, MCRealtime** each run components that share no state: the initial state
picks one, `here` is its record, and a property of the run is the conjunction of the
components' own, each under `component = ...`. The instances give the small constants, but
those the proofs leave open: of every component of MCRealtime, and of the account, the
access, the channel, the draft, the picker, the stores and the updates of MCClient. These are
the CONSTANTS of `Realtime.cfg` and `Client.cfg`.

## 4. The runs

| Run | Question | Instance and why it is enough |
|---|---|---|
| `realtime` (MCRealtime) | Does the tool surface converge, whatever the provider does? Does everything around a call give back what it opened? Do the test tools tell the truth? | surface: 4 transitions, so that an update is in flight, one queued behind it and one after each outcome, both providers. transport: 2 lost peers. backend: 2 starts at once. preview: 3 requests, 2 voices. harness: 1 session, 2 turns, a ring of 2, 2 sockets; 3 script steps, 2 creates. inspector: 2 sockets, 1 command, rings of 1. hierarchy: 2 actions. devices: 2, with 2 installs and 1 launch. runner: 3 processes, 2 versions |
| `ask_safety` | Do owner, steers, corrections and retries keep to their rules? | 5 calls over 3 instructions and a budget of 4: an owner, two steers in line, a correction between them, a retry and a refused call; both lanes can be full; all code constants but the two lane sizes and the budget at their real values. Progress is switched off here and on in the next run: it changes nothing but its counter |
| `ask_service` | Is every call answered, and is the abstract service implemented? | 3 calls, 2 instructions: an owner and a steer that waits for it, under fairness |
| `sideband` | Do results, notes and tool calls survive the lagging view? | 2 user turns, 4 responses, 3 tool calls (two in one response), 3 notes over a budget of 1, a throwing socket |
| `controller_owns` | Who owns media and calls, though hang-ups fail and answers come late? | 3 operations, 4 attempts, 2 re-offers each: a call, its recovery, a stop and a second call at once |
| `controller_ends` | Do stop and recovery end? | 3 operations, 4 attempts, 1 re-offer each, so that a second call fails while the loop of the first is still in its delay; under fairness |
| `controller_zombie` | Finding, section 6 | as `controller_owns` with 5 attempts |
| `turn_stream` | Is a turn shown once, in order and whole across drops and a restart? | one turn of 3 frames and its end, 2 drops, 2 epochs: text, a tool and an interim, or a prompt and text, with a replay that itself is interrupted |
| `turn_settles` | Does the conversation always leave its busy state? | 2 turns of one frame, 2 drops, 2 epochs, under fairness |
| `device` (MCDevice) | Is speech bounded, said once and ended; are speaker and microphone given back; does an utterance end when it should? | speech: 2 replies of at most 6 frames over a high-water mark of 3 and a capacity of 5. voice: 2 loops, 1 stop. playback: 4 requests, 2 messages. dictation: 2, which a cancel may make overlap. utterance: every recording of 7 samples over 3 levels. feeder: 5 words in every cut. text: every reply of 5 to 7 characters over four alphabets in every cut of at most 2 |
| `speech_highwater` | Finding, section 6 | as `device`, one reply |
| `client` (MCClient) | Do the screens tell what the gateway has, are credentials one user's, does a choice stand, and does nobody wait for ever? | 14 components. account: 2 users, 3 operations, 1 rotation. rpc: 2 calls, 2 events. access: 2 requests, 2 rotations, 2 tickets. channel: 3 operations, 2 sessions, 3 live ids. pages: 5 rows by 2. lists: 1 session, 2 queries, 2 mutations, 1 foreign change. chat: 2 texts, 2 turns. edits: 4 rows of 3 texts, a page of 2, 2 corrections, 1 rewrite. reply: 2 tools, 2 segments, 2 turns. card: 2 prompts of four kinds, 1 drop. draft: 3 words. picker: 2 reads, 2 changes. stores: 3 sets, 3 reads. updates: 2 checks, 3 flows, 2 mounts |

Every instance lets two operations overlap and a third come after one of them ended, which
is what the code's numbers (operation, generation, flow, request, revision) tell apart; a
further one repeats the second. The record of each run (`about` in PROJECT.json) says what
it shows.

Every property has a mutant: the code's definition changed the way a plausible bug would,
and TLC finds that property violated under the same configuration. Definitions whose name
carries a suffix are these.

*Bounds.* The guards that name a bound are: `MaxRevision` in `Request`; `MaxRefusals` in
`RefuseOverBudget` (a refused call may be repeated for ever); `MaxTurns`, `MaxResponses`,
`MaxCalls`, `MaxInjections` of `Sideband`'s environment; `MaxOperations` and `Room` of
`RealtimeController` (a loop reserves the attempts it may still make, so no bound stops
it half-way); `MaxFrames`, `MaxTurns`, `MaxDrops`, `MaxEpochs` of `TurnStream`'s
environment; and in the small modules every constant whose name starts with `Max`, each in
the guard of the user's or the environment's action it counts. Where the code has a
constant (`MAX_REATTACH_ATTEMPTS` 2, `MAX_RECONNECT_ATTEMPTS` 3,
`MAX_PROGRESS_NOTES_PER_CALL`, the ring sizes, page and scan limits, the high-water mark), the
instance uses a smaller one so that the limit is met. `CHECK_DEADLOCK FALSE` everywhere: a
call or a conversation really may be over, with nothing left to happen.

*Fairness.* Weak fairness is assumed of what the platform owes: promise continuations,
timers and socket dispatch on the device (`RedirectStep`, `HandleMessage`, `Timeout`,
`LoopWakes`, `Dialled \/ Deliver \/ Reattach \/ Settle`, `ReconnectTimeout`, `DoneDeadline`,
`DrainDeadline`, `LoopStep`, `StopDone`, `Tick`, `Playing`, `CommandsTimeOut`), and of what the
code bounds with a timeout of its own, so that it comes back one way or the other: RPCs,
dials, requests (`TurnStep`, `Establish`, `Answer`, `Settles`, `CheckFails`, `NotFound`,
`Discovered`, `OpenFails`). Not `Ended`: a hang-up has no timeout. `DownloadFails` is an
assumption and no timeout of the code: the transfer of an APK has none. `Resume` assumes
that the user comes back to the app. `Sideband` assumes that people stop talking and responses end.
`TurnStream` assumes that a running turn ends; its idle timeout and heartbeat are `Lose`,
which is not fair, so `StreamSettles` does not lean on them. Nothing obliges the user, the
network, an expiry or a refusal. In the runs of several components one condition may name
an action of each of them: no behaviour has steps of two, so it is the fairness of every one.

## 5. Proofs

TLAPS checks these for every value of the constants that satisfies the modules'
ASSUMEs (natural bounds, sets of numbers, `None` is not an instruction), with no bound on
the size of anything. Each theorem names the definition a run of section 4 checks; TLC also
checked each inductive invariant on the run's instance before it was proved.

Facts about folds (`FoldSeq`, `FoldFunction`, `SelectSeq`) are unfolded with a
well-founded induction whose statement is a *set* of naturals without a least
counterexample (`LeastElement` of `Sideband_proofs` and `TurnStream_proofs`), because the
library's induction theorems take an operator the provers cannot instantiate.

*MCRealtime_proofs, the tool surface.* `TypeCorrect`, `TransitionsNotLost`, `LastWord`,
`BeliefIsTrue` and the action property `FailedNeverRetried`. The first two invariants are not
inductive alone: that a belief is the last thing sent needs that an update in flight *is* the
last thing sent (then the answer that settles it cannot be older), and that nothing failed is
retried needs that no revision tried or failed is above the last one sent, that one is at most
the desired revision, and at that revision it carries the desired state. `IInv` adds
these (`Revisions`). `PumpRestores` is the heart: `Pump`, with whatever the caller left,
re-establishes `IInv`; each entry point then only has to show that it calls it with
admissible values.
`BeliefIsTrue` needs to know what is on the wire as well (`Pipeline`), and the argument
differs with the provider. A late one reads every update in order, so the session's
surface once its socket is read (`Ahead`) is the state sent last: the update in flight,
or the belief. With a refusing one nothing may be assumed of that; instead the update in
flight is alone on the two channels, unread, refused, or answered with what the session
really became, so the answer that settles it tells the truth.

*MCRealtime_proofs, what a call opens.* `OpenedIsGivenBack`: transport, backend and voice
preview, one inductive invariant each. `TransportInv`: before there is a peer nothing is
live, no timer of a peer runs, and a peer is closed exactly when the session is.
`BackendInv`, per attempt: a call the provider knows is in the table, was hung up, was never
read, or is still in the hands of the set-up that will decide; only a tracked call with a
socket works. `PreviewInv`: a live socket or player belongs to the newest request.

*AskHermes_proofs.* `TypeCorrect`, `OneOwner`, `CorrectionsAimAtOwner`, `LandsOnce`,
`SlotsGivenBack`, `SteersBounded`, `CompletionWins`, `OneAnswerPerCall`, `PromiseKept`. `IInv` is
TypeOK, the counters as counts of places in the chain
(`Slots`), OwnerExclusive, ActiveIsLiveOwner, InstructionLandsOnce and two facts about
the chain that make them inductive: an instruction nobody asked for has never reached
Hermes (`UnknownUntouched`), and the steers in the chain carry pairwise different
instructions, each taken on and not yet landed (`Lined(redirectQueue, Waiting)`). Without
the last one a steer that falls back to owning a turn could land an instruction twice.
The lemmas first establish what appending to, replacing the head of, and taking the tail
of a chain do to the counts and to `Lined`; then one lemma per action. `SteersBounded`
keeps an account per steer of the chain (`Frugal`): a queued one has cost nothing, a
waiting one at most its count of dispatches, which is still below the maximum, and a sent
one at most one more. The single step that sends moves one account only because, again by
`Lined`, no other steer carries the same instruction. `CompletionWins` adds what a correction
in the chain captured and that it was taken on. `OneAnswerPerCall` says where the
answer of a call is owed: by exactly one execution's waiters or by one correction of the
chain, and never by one that answered already. `PromiseKept` is the safety part of the
refinement: every initial state and every step is one `AskService` allows, or a stutter; the
liveness part is the run `ask_service`.

*Sideband_proofs.* `TypeCorrect`, `GateNeverStuck`, `CallsKeepTheirItem`, `ResultsAndNotesKept`.
`GateInv`: a sideband that believes in a response is right, will be told of its end, or has
asked for one. The belief lags behind the provider by what is on the socket, so
the rest is about the queue of events (`QueueBooks`): the responses whose start and end are
still to be read, in the order in which they were created, each with the user item it
followed. `DeliveryInv` keeps the books of results and notes (what the model was sent plus
what waits is what was submitted, in order) and that a call under way was not handed over
before, so that `ResponseDone`, which may be answered from inside its own loop, submits each
once.

*RealtimeController_proofs.* `TypeCorrect`, `MicrophoneOwned`, `FailureClosesMedia` and
`NoCallLeftBehind`, with no hypothesis. What the finding `controller_zombie` (section 6)
shows is excepted in the properties by the operation it happened to, so that the proof
covers every other operation before, during and after it: `SoundOpen` are the open sessions of the
others, and an operation that outlived its failure ends with the stop or start that
overtakes it (`NextAfterOutliving`). `IInv` follows the operation number: attempts of the latest
operation either still hold the newest signal or can open nothing (`CurrentAttempts`); at
most one re-offer is under way and it is the loop's (`OneLoop`), whose attempts were
reserved (`Reserved`); a loop of the latest operation has closed what came before it
(`LoopAlone`); and a failed or stopped operation is `Dead` (`FailedIsDead`,
`StoppedIsSilent`). `NoCallLeftBehind` rests on `Hangups`: at most one attempt of an operation
is about to have a call created, and until it has, neither `callId` nor a hang-up that will
clear it speaks of a call of that operation (`OneBegins`), what such a hang-up clears is its own
call or one of another operation (`ClearsItsOwn`), and a loop in its delay has given its
call up (`LoopHasNoCall`).

*TurnStream_proofs.* `TypeCorrect`, `RecordsAreProjectedOnce`, `WatermarkIsSound`, `PromptIsShown`,
`SettledIsAlwaysQuiet`, `RowIsTheTurn`. `StreamInv` says of everything on the socket, in the replay's
buffer and in the stream's queue where it stands against the watermark: what was projected
is behind it (`AppliedInv`), live frames and the records a replay brings are above it and in
order (`LiveInv`, `BufferInv`, `MissedInv`), and until a socket's hello is read the epoch may be
another process's (`WireInv`, `MarkInv`). `PromptInv` follows a prompt that blocks the turn:
shown, on the wire, in a snapshot, or in a frame still to come.
`RowIsTheTurn` (`RowTellsTheTurn`, for turns of any length) has an invariant of its own,
`TellInv`, over the text. A row *tells* a turn up to a frame (`Tells`) when its parts, said in
order, are the pieces the log has up to there, the translator's content is what came since
the last interim and stands in the last text part, open, and nothing before it is open; when
nothing came since, that interim's text is the last sealed part. So a delta extends it, an
interim seals it, and a final message changes nothing but the last open part, which it
finds as it is, or the last interim, which it repeats (`LogTold` says what the gateway's frames
carry). `TellInv` then says how far the row has got: to the frame before the next one on the
wire, wherever the frames are (`Covers`: the wire, or the queue behind a replay), and that a
snapshot on the wire carries the text up to its own place in the log (`ResumedTold`).
The proof refuted the property as it was first stated: a tool record of an *earlier* turn
that a reattach replays lands behind the snapshot's text just as one of this turn does, and
the final message then replaces only what follows it. Two turns and four frames show it,
and the run has one turn. `JoinsCleanly` now excludes such a row by name (section 6).

*MCClient_proofs.* `OneUsersCredentials`. In the account (`AccountInv`) a restore or a sign-out
holds the screen until it ends, so only verifications and sign-ins can be superseded, and one
that is writes nothing but what the mark `left` names; whoever is on the screen is whoever
the record names (`OneUser`). In the access (`AccessInv`) the newest pair is held or carried
by a request that was answered (`NewestComes`), a pair ages out only with nothing in flight
(`StillLive`), the disk follows memory once nothing is written (`Written`), and a ticket that
was shown is no longer on offer (`ShownOnce`).
`UsersChoicesStand`, one inductive invariant per store. *Stores* (`StoresInv`): what was
chosen is in memory, and whatever is still being written is the choice; whoever will be told
of a key is told by the one read that is out. *Channel* (`ChannelInv`): a registered stream is
open and the newest one if that is; before there is a session, whatever is about to be
created carries what was picked; unless two operations set out for the placeholder, one at
most can create its session; a delete that goes on saw no turn, and none began since.
*Draft* (`DraftInv`): every word entered is in one of the five places, and the gateway has of
the draft's words, and of those of the correction that is out, only what it took without an
answer (`unanswered`): otherwise a correction's failure would bring a sent word back. *Picker* (`PickerInv`): whatever runs, waits or goes
out as a dear model was agreed to, an alert or its timer keeps sheet and lane free, a read
not marked stale is what the session is, and a change the gateway took is there or deferred
until the pill says so. *Updates* (`UpdatesInv`): only released bytes are called checked, a
file of another size is never kept, and a sheet in a phase of a download has its flow.

*Model-checked only.* Liveness under fairness (`EventuallySettles`, `NobodyStuck`,
`EveryCallAnswered` and the liveness of `ServiceKept`, `EventuallyDelivered`, `StopEnds`,
`RecoveryEnds`, `StreamSettles`, `SpeechEnds`, `NothingWaitsForever`): outside what TLAPS proves.
`ToolsTellTheTruth` (MCRealtime) and `ShownIsTrue` (MCClient) compare folds and filters over
whole logs, texts and row lists. MCDevice's four invariants
are about a model that reaches `SpeechText`'s recursive operator.

## 6. Findings and known divergences

Each finding is a run that TLC must find violated.

- `controller_zombie` (ErrorClosesMedia). A failure reported while a re-offer is being
  set up shows the error, but the reconnect loop looks only at the operation number,
  which a failure leaves alone, and opens microphone and call again behind the error.
  `MediaOwned`, `FailedStaysClosed` and `CallsHungUp` except that operation, by `outlived`.
- `speech_highwater` (HighWaterKept). `player.write` reports its status synchronously, the
  stream's listener pumps again before the slice was counted, and audio beyond the
  high-water mark is admitted in one burst.

Met while modelling, and stated here because no run covers them. Where a property would
meet one, the model marks the state (`torn`, `left`, `forgot`, `late`, ...) and the
property names the mark, so that everything else stays checked.

*The call.* `runSteer` does not look at the owner again after its dispatch, though the
header of the orchestrator says every dispatch is re-checked before and after. A call may be
left that nobody names, in three ways, all under the mark `forgotten`. Stop and start
during the slow hang-up of a failure: the continuation clears the new call's id
(`realtime-controller.ts:308`). `reconnect()` clears `callId` (:213) before `finishCall` asks for
the hang-up, so a refused one leaves no id for a repeated stop, though the comment at
:338-341 says the identifier is preserved. And an answer that comes after its operation was
overtaken stores its id over the newer call's (:173). A hang-up has neither a timeout nor a
signal (`openai-realtime-backend.ts:262-275`), so `stop()` (:265) and a failure's cleanup
(:307) may wait for ever: `StopEnds` and `RecoveryEnds` have, as a premise, that the hang-ups
asked for are answered. `reconnect()` lets one loop run at a time, also across operations
(:191): a second call, begun and connected while the loop of the first is in its delay,
whose peer then fails is left reconnecting until the call expires (the mark `swallowed`). The mute belongs to the
session of the moment: muted before there is one, or before a re-offer (:208), the new
track is open. The sideband opens its gate at `speech_stopped` although `create_response`
will start a response: a queued result's `response.create` is refused, harmlessly
(GateReopens, EventuallyDelivered). After the call id is known the body of the backend's
POST is read without a timeout, and a failure there hangs nothing up
(`openai-realtime-backend.ts:189`).

*The turn.* A live frame that overtakes the replay raises the watermark past the records
the replay brings, which are skipped until the timeline is read. A reattach in the middle
of a turn appends the snapshot to the row that is there, and replayed tool rows land
behind it; the comment at `gateway-client.ts:2131` describes a fresh row. A reattach that
finds a later turn running replays the older turn's records into it, which
`docs/hermes-connectivity.md` rules out only for turns Wave starts. A socket the gateway
closes cleanly seals the partial text as the reply. A turn that ends while the client is
detached leaves its plan on the settled screen (`chat-state.ts:91` says it never does). A
failed turn without partial text leaves `reasoningStreaming` set (:621). Reasoning or a
tool starting flips the live status to working while a prompt still waits. A tool task is
matched by `startsWith(name)`, and parallel tools of one name share a task.

*The conversation.* Stop before there is a turn id only aborts locally; the prompt is
still sent. Stop with a lost connection reads as a transport error
(`docs/hermes-connectivity.md:86`), and an event after Stop flips the status back, so that
the cancelled terminal is shown as a failed turn (`chat-state.ts:577`). Between a failed
turn and the end of its reconcile a send is refused silently after the draft was cleared.
A failed submission whose reconcile succeeds removes the user's row; a failed reconcile
with a later refetch shows rows twice, as does a list refetched after a reconcile.
`reconcileCorrectionRace` can wipe the next turn's local rows (:284). `regenerateTurn`
prunes rows before a send that may be refused. A late reply of `branchTurn` navigates. A
partly loaded timeline gives a wrong ordinal or count to gateways without durable ids
(`turn-action-targets.ts:42`). The journal tells
rows apart by their texts only: a prompt of the same text on an unloaded page, or the new
prompt of a regenerated turn, draws a correction behind itself, and a correction whose words
are said again may be hidden or shown beside the gateway's row (`TextsTell` is the condition
of `CorrectionShownOnce`). The unread mark
cleared on opening races a list fetch.

*Prompts.* The screen has one busy slot: a late failure for one prompt frees the card of
another, which can be answered twice. Voice mode drops the prompt's `server`
(`use-gateway-voice.ts:349`), so that an MCP set-up cannot be declined there. On gateways
that do not name their approvals the first pending one is answered, whichever was shown,
and the local id repeats after a reattach. A prompt settled elsewhere stays shown after a
reattach until the turn ends, and of several approvals only the newest is shown.

*Composer and picker.* A correction the gateway took, whose answer was lost or made no sense,
is a failure to the composer: its words come back to the draft and nothing keeps them from
being sent again (`use-wave-chat.ts:385`; the mark `unanswered` of `NoWordTwice`). A slash
command's send is lost while a turn runs, a failed command
does not restore the draft, and a prefill overwrites it. A read of the model context in
flight over a change restores the old model.

*The gateway client.* Concurrent responses may take the tokens back a generation. A
network failure in the ticket fallback may latch the URL transport (comment at :2066). A
session is deleted after a look for its turn that an await separates, and `getActiveTurn`
takes every error for no turn. A model picked while session.create is out is lost, and one
placeholder can be created twice. An abort between a ticket's headers and its body is not
seen. `TimelinePages` lets the gateway append rows only.

*The account and the device.* A superseded sign-in has saved its record already
(`connection-provider.tsx:327`), a client that outlives its sign-out saves rotated tokens
(:132), a superseded sign-in may leave its spinner, and a disconnect may fail midway. Two
sets of one preference may persist out of order; overlapping reads of the key's presence
may apply the older last; a key removed while its save is checked comes back. The query
persister may persist after it was removed. An update check has no flow token: a manual
check while an invisible one is out is swallowed, and a late installer failure is shown.

*Speech.* A stale voice loop's stop word stops the new loop, its teardown stops the new
recorder, and a stopped mode may not be idle. Two messages sound across a switch of the
audio mode, and a message whose speech is still on its way when the screen goes sounds
afterwards: the unmount (`use-message-playback.ts:37`) takes no request number. A speech
session may start in the background. A reply whose audio and end have all arrived when
`player.start` resolves settles `completed` unheard: `write` reports from inside the first
slice, the nested pump writes the rest and finds the end with nothing counted as admitted
(`gateway-speech-stream.ts:532`), although the comment at :533 speaks of replies without
audio (`unheard`). A reply that settles while `player.start` is pending finds no session to
stop (`pcm-player.ts:301`): a silent session stays, and later starts are refused (:118) until
the background or an interruption ends it (`orphans`). Dictation leaves the record route open
when a start or a stop throws, when the system refuses to close it, and when the permission
is granted after the composer went (`left`); `cancel`, which no screen calls, lets a start
that is under way record with `activeRef` clear (`undone`). The Markdown filter misreads a run
of more than three marks cut between deltas; and a closing fence of more than three marks,
or with a blank after them, whose line end comes in the next delta is never seen to close
(`speech-text.ts:320`), so the rest of the reply is silent.

*The voice harness.* Two submissions waiting on one turn run at once; one that waits still
starts after its session was deleted; queued text drains on the original socket; frames
emitted while the socket is closed are neither numbered nor kept, so a replay called complete
misses them, though the comment (`gateway-server.ts:531`) promises exactly what was missed:
`ReplayHonest` keeps the story of what each turn emitted and names the `Lost` frames as its
one exception; a terminal frame dropped there stores no row; reset keeps queue,
ring and turns while ids start anew; a prompt is settled whatever its request id. In the
Realtime double `wait_response_create` misses a create that came earlier, and a request made
after the script responded unasked is left unanswered when the script ends, though the comment
at `openai-realtime-fake.ts:294` has every uncovered one answered: `RequestsAnswered` books
both, and lets no more requests go unanswered than responses came unasked.

*The mobile agent.* A stop during a pending connect leaves a connected socket; a reconnect
begun while the old socket is closing leaves its commands to their own timeouts. A ring
that overflows between two reads is not flagged, and a limited read skips entries. Two
actions on one snapshot both pass the stale check, which comes before their awaits; a page
source taken before an action can become the latest; pruning may remove another trace in
progress. `hasPreparedWda` looks at existence only, an app deleted by hand can be completed
partially under matching metadata, and two processes can trust what the other replaces.
The command line's `reload` asks less of the platform than the tool's.

## 7. What is not modelled

Listed per component with the reason in PROJECT.json. In short:

- *Pure functions and views*: payload normalisation, slash command parsing of the
  gateway's, grouping and sorting of lists, the drawer, settings and tool detail sheets,
  contracts and build scripts. They keep no state between calls, so that there is no
  interleaving to explore; the repository's unit tests cover them.
- *Native code* (WebRTC, audio, secure storage, the package installer, Appium) appears as
  the promises and events the TypeScript sees.
- *Requests that keep no state*: uploads, transcription, speech synthesis, status reads.
- Inside modelled components: in `TurnStream`, attachments and follow-on turns on one
  stream; in `Transcript` and `ReplyRow`, titles and the wording of labels; in
  `RealtimeController`, audio levels and transcripts; in `Sideband`, the wording of notes and
  results; in `VoicePreview`, the pruning of cached samples of other models; in
  `PreparedRunner`, two processes at once; in `HarnessTurns`, the journal and audio.
- The components of one run are not composed with one another: they share no state. The
  composition that would add something, a live call's orchestrator, sideband and tool
  surface, is in the plan.
