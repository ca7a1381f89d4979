------------------------------ MODULE TurnStream ------------------------------
(***************************************************************************)
(* The stream of one conversation's turn, from the gateway to the screen:  *)
(* services/gateway/gateway-client (streamTurn, resumeTurnStream, pump,    *)
(* the TurnEventQueue and the replay bookkeeping) and the reattach loop of *)
(* features/chat/use-wave-chat (consumeTurn).  A dropped socket does not   *)
(* end the turn: the client opens another one, resumes the session, seeds  *)
(* the row from the snapshot and asks for the durable records it missed.   *)
(* Stop and correction are WaveChat's; the row is Transcript's.            *)
(*                                                                         *)
(* The gateway is external: one session with a log of numbered frames (its *)
(* replay ring), at most one running turn, possibly blocked on a prompt,   *)
(* and a process that may restart.  What it sends on a socket is FIFO,     *)
(* responses and frames together.                                          *)
(***************************************************************************)
EXTENDS Transcript, FiniteSets

CONSTANTS
  MaxReattach, \* MAX_REATTACH_ATTEMPTS
  MaxFrames,   \* bound: frames that do not end a turn
  MaxTurns,    \* bound: turns of the session
  MaxDrops,    \* bound: connections lost or refused
  MaxEpochs    \* bound: gateway processes

ASSUME StreamConstants ==
  /\ {MaxReattach, MaxFrames, MaxTurns, MaxDrops} \subseteq Nat
  /\ MaxEpochs \in Nat \ {0}

VARIABLES
  log,        \* the frames the gateway process has emitted, by sequence number
  session,    \* the gateway's session: its turn, and what the turn waits for
  socket,     \* what the gateway has sent on it, and the RPC it has not answered
  stream,     \* the generator and the loop that consumes it
  replay,     \* the client's watermark (0: none) and replay epoch (0: none)
  trans,      \* the translator of the current stream
  chat,       \* the reducer's state
  row,        \* history: how the row on the screen came about
  applied,    \* history: the durable records of this gateway process projected so far
  drops       \* connections lost or refused so far

vars == <<log, session, socket, stream, replay, trans, chat, row, applied, drops>>

-----------------------------------------------------------------------------
(* The gateway's log. *)

Terminal == {"complete", "error"}

ToolFrames == {"tool.start", "tool.progress", "tool.complete"}

\* REPLAYABLE_EVENT_TYPES, but for session.title and tool.generating
Durable == ToolFrames \cup {"todo"}

FrameTypes == {"delta", "interim", "prompt", "expire"} \cup Durable \cup Terminal

\* The elements of s at the places in I, in their order.
Picked(s, I) ==
  FoldLeftDomain(LAMBDA kept, i : IF i \in I THEN Append(kept, s[i]) ELSE kept, <<>>, s)

DurableOf(frames) == Picked(frames, {i \in DOMAIN frames : frames[i].type \in Durable})

\* The pieces of text a turn streamed in from+1..to, each named by its frame.
Pieces(t, from, to) ==
  Picked([i \in 1..to |-> i],
         {i \in (from + 1)..to : log[i].type = "delta" /\ log[i].turn = t})

LastOf(type, t, before) ==
  LET S == {i \in 1..(before - 1) : log[i].type = type /\ log[i].turn = t}
  IN  IF S = {} THEN 0 ELSE CHOOSE i \in S : \A j \in S : j <= i

\* A tool of the running turn has started and not completed.
ToolOpen ==
  LastOf("tool.start", session.turn, Len(log) + 1)
    > LastOf("tool.complete", session.turn, Len(log) + 1)

\* The text since the last interim: what an interim seals, what a failed turn
\* leaves, and a final message's own text.
Remainder(t, seq) == Pieces(t, LastOf("interim", t, seq), seq - 1)

\* With nothing after the last interim the final message repeats that interim
\* and is marked as previewed.
Previewed(type, t, seq) ==
  type = "complete" /\ Remainder(t, seq) = <<>> /\ LastOf("interim", t, seq) # 0

TextOf(type, t, seq) ==
  CASE type = "delta" -> <<seq>>
    [] Previewed(type, t, seq) -> Remainder(t, LastOf("interim", t, seq))
    [] type \in {"interim"} \cup Terminal /\ ~Previewed(type, t, seq) -> Remainder(t, seq)
    [] OTHER -> <<>>

Frame(type, t, seq) ==
  [kind |-> "frame", seq |-> seq, type |-> type, turn |-> t,
   text |-> TextOf(type, t, seq), previewed |-> Previewed(type, t, seq),
   ref |-> CASE type = "todo" -> session.revision + 1
             [] type = "expire" -> session.blocked
             [] OTHER -> 0]

\* A turn may fail at any time.  While a prompt blocks it, it can only expire
\* or end; while a tool runs the model says nothing, and what it said before
\* the tool is sealed by an interim.
MayEmit(type) ==
  CASE type = "error" -> TRUE
    [] type = "expire" -> session.blocked # 0
    [] type \in {"delta", "complete"} -> session.blocked = 0 /\ ~ToolOpen
    [] type = "interim" -> /\ session.blocked = 0 /\ ~ToolOpen
                           /\ Remainder(session.turn, Len(log) + 1) # <<>>
    [] type = "tool.start" -> /\ session.blocked = 0 /\ ~ToolOpen
                              /\ Remainder(session.turn, Len(log) + 1) = <<>>
    [] type \in {"tool.progress", "tool.complete"} -> session.blocked = 0 /\ ToolOpen
    [] OTHER -> session.blocked = 0

Emit(type) ==
  /\ session.running
  /\ MayEmit(type)
  /\ type \in Terminal \/ session.frames < MaxFrames
  /\ LET f == Frame(type, session.turn, Len(log) + 1)
     IN  /\ log' = Append(log, f)
         /\ socket' = IF socket.bound THEN [socket EXCEPT !.wire = Append(@, f)] ELSE socket
         /\ session' = [session EXCEPT
              !.running = type \notin Terminal,
              !.failed = type = "error",
              !.frames = IF type \in Terminal THEN @ ELSE @ + 1,
              !.blocked = CASE type = "prompt" -> f.seq
                            [] type \in Terminal \cup {"expire"} -> 0
                            [] OTHER -> @,
              !.revision = IF type = "todo" THEN f.ref ELSE @]
  /\ UNCHANGED <<stream, replay, trans, chat, row, applied, drops>>

\* The prompt is answered, by this client or by another; no frame says so.
PromptAnswered ==
  /\ session.blocked # 0
  /\ session' = [session EXCEPT !.blocked = 0]
  /\ UNCHANGED <<log, socket, stream, replay, trans, chat, row, applied, drops>>

StartsTurn == [session EXCEPT !.turn = @ + 1, !.running = TRUE, !.failed = FALSE]

\* A turn that Wave did not submit: another client's, or one the gateway
\* drains from its own queue.
ForeignTurn ==
  /\ ~session.running
  /\ session.turn < MaxTurns
  /\ session' = StartsTurn
  /\ UNCHANGED <<log, socket, stream, replay, trans, chat, row, applied, drops>>

\* The process restarts; its turn and its ring are gone.  Its sockets go first,
\* with what is still on them.
Restart ==
  /\ session.epoch < MaxEpochs
  /\ stream.at \notin {"resume", "replay", "pump"}
  /\ session' = [session EXCEPT !.epoch = @ + 1, !.running = FALSE, !.failed = FALSE,
                                !.blocked = 0]
  /\ log' = <<>>
  /\ applied' = <<>>
  /\ row' = [row EXCEPT !.sealed = 0]
  /\ UNCHANGED <<socket, stream, replay, trans, chat, drops>>

-----------------------------------------------------------------------------
(* The gateway answers an RPC. *)

Drop == drops < MaxDrops /\ drops' = drops + 1

NoRequest == [method |-> "none", from |-> 0]

Says(m) ==
  socket' = [socket EXCEPT !.request = NoRequest, !.wire = Append(@, m)]

Refusal(notFound) == [kind |-> "refused", notFound |-> notFound]

AnswersResume ==
  /\ socket.request.method = "session.resume"
  /\ \/ /\ socket' = [bound |-> TRUE, request |-> NoRequest,
                      wire |-> Append(socket.wire,
                        [kind |-> "resumed", running |-> session.running,
                         failed |-> session.failed, text |-> Pieces(session.turn, 0, Len(log)),
                         prompt |-> session.blocked, at |-> Len(log)])]
        /\ UNCHANGED drops
     \/ Drop /\ \E notFound \in BOOLEAN : Says(Refusal(notFound))
  /\ UNCHANGED session

\* session.events.since; an older gateway has no such method.
AnswersMissed ==
  /\ socket.request.method = "session.events.since"
  /\ \/ Says([kind |-> "missed",
              frames |-> DurableOf(SubSeq(log, socket.request.from + 1, Len(log)))])
     \/ Says([kind |-> "missed", frames |-> <<>>])
  /\ UNCHANGED <<session, drops>>

\* prompt.submit, refused while a turn runs.  The request may outlive the
\* socket it was sent on.
AnswersSubmit ==
  /\ socket.request.method = "prompt.submit"
  /\ IF session.running \/ session.turn = MaxTurns
     THEN /\ IF socket.bound THEN Says(Refusal(FALSE))
             ELSE socket' = [socket EXCEPT !.request = NoRequest]
          /\ UNCHANGED session
     ELSE /\ session' = StartsTurn
          /\ socket' = [socket EXCEPT !.request = NoRequest]
  /\ UNCHANGED drops

Answer ==
  /\ AnswersResume \/ AnswersMissed \/ AnswersSubmit
  /\ UNCHANGED <<log, stream, replay, trans, chat, row, applied>>

\* A request still on its way when the socket went may have gone with it.
RequestLost ==
  /\ ~socket.bound
  /\ socket.request.method = "prompt.submit"
  /\ socket' = [socket EXCEPT !.request = NoRequest]
  /\ UNCHANGED <<log, session, stream, replay, trans, chat, row, applied, drops>>

-----------------------------------------------------------------------------
(* The client: opening a stream, and ending one. *)

View == [trans |-> trans, chat |-> chat]

NewRow == [from |-> 0, since |-> 0, seeded |-> FALSE, inPlace |-> FALSE, sealed |-> 0]

Show(v) == trans' = v.trans /\ chat' = v.chat

Call(method, from) ==
  socket' = [socket EXCEPT !.request = [method |-> method, from |-> from],
                           !.wire = Tail(@)]

\* close(): the gateway no longer reaches the client.
Closed ==
  [bound |-> FALSE, wire |-> <<>>,
   request |-> IF socket.request.method = "prompt.submit" THEN socket.request ELSE NoRequest]

\* useWaveChat.send and .resume: busy from here to Settle.  A turn that is
\* resumed is known by its id at once, a new one from its first event.
Open(mode) ==
  /\ stream.at = "idle"
  /\ stream' = [at |-> "dial", mode |-> mode, known |-> mode = "reattach",
                attempts |-> 0, buffer |-> <<>>, prompt |-> 0]
  /\ chat' = FreshRow
  /\ row' = NewRow
  /\ UNCHANGED <<log, session, socket, replay, trans, applied, drops>>

Send == session.turn < MaxTurns /\ Open("turn")

\* The screen asked session.active_list and found a turn running.
ResumeTurn == session.running /\ Open("reattach")

\* openSocket, then session.resume.
Dialled ==
  /\ stream.at = "dial"
  /\ stream' = [stream EXCEPT !.at = "resume"]
  /\ socket' = [bound |-> FALSE,
                wire |-> <<[kind |-> "ready", epoch |-> session.epoch]>>,
                request |-> [method |-> "session.resume", from |-> 0]]
  /\ UNCHANGED <<log, session, replay, trans, chat, row, applied, drops>>

\* The generator is over; the hook reconciles the timeline next.
Ends(v) ==
  /\ stream' = [stream EXCEPT !.at = "settling", !.buffer = <<>>, !.prompt = 0]
  /\ socket' = Closed
  /\ Show(v)

\* consumeTurn's catch: an error is shown unless the connection was lost and
\* there are attempts left to reattach.
Fails(v) == Ends([v EXCEPT !.chat = TransportError(v.chat)])

MayReattach == stream.known /\ stream.attempts < MaxReattach

Disconnected(v) ==
  IF MayReattach
  THEN /\ stream' = [stream EXCEPT !.at = "delay", !.attempts = @ + 1, !.buffer = <<>>,
                                   !.prompt = 0]
       /\ socket' = Closed
       /\ Show(v)
  ELSE Fails(v)

Reattach ==
  /\ stream.at = "delay"
  /\ stream' = [stream EXCEPT !.at = "dial", !.mode = "reattach"]
  /\ row' = [row EXCEPT !.inPlace = @ \/ chat.parts # <<>>]
  /\ UNCHANGED <<log, session, socket, replay, trans, chat, applied, drops>>

\* reconcileTimeline, then 'settled'.
Settle ==
  /\ stream.at = "settling"
  /\ stream' = [stream EXCEPT !.at = "idle", !.known = FALSE]
  /\ \/ chat' = Settled(TimelineReconciled(chat))
     \/ chat' = Settled(chat)
  /\ trans' = NewTranslator(0)
  /\ row' = NewRow
  /\ UNCHANGED <<log, session, socket, replay, applied, drops>>

-----------------------------------------------------------------------------
(* The client: what the socket brings. *)

DurableIn(frames) ==
  LET d == DurableOf(frames)
  IN  [i \in DOMAIN d |-> d[i].seq]

\* Mutant: the mark of another process is kept.
Adopt_KeepsMark(epoch) == [epoch |-> epoch, mark |-> replay.mark]

\* adoptReplayEpoch: another process numbers its frames anew.
Adopt(epoch) ==
  [epoch |-> epoch, mark |-> IF replay.epoch \in {0, epoch} THEN replay.mark ELSE 0]

HandleReady(m) ==
  /\ replay' = Adopt(m.epoch)
  /\ socket' = [socket EXCEPT !.wire = Tail(@)]
  /\ UNCHANGED <<stream, trans, chat, row, applied>>

\* absorbGatewayEvent
Absorb(seq) == IF seq > replay.mark THEN seq ELSE replay.mark

\* The frame that completes the turn among these, if no error ends it first.
SealedBy(frames) ==
  LET i == SelectInSeq(frames, LAMBDA f : f.type \in Terminal)
  IN  IF i # 0 /\ frames[i].type = "complete" THEN frames[i].seq ELSE 0

\* pump(): every frame the queue holds, then wait for more unless one of them
\* ends the turn.
Pump(v, frames) ==
  LET after == FoldLeft(Translate, v, frames)
  IN  /\ applied' = applied \o DurableIn(frames)
      /\ row' = [row EXCEPT !.sealed = SealedBy(frames)]
      /\ IF after.trans.completed THEN Ends(after)
         ELSE /\ stream' = [stream EXCEPT !.at = "pump", !.attempts = 0, !.buffer = <<>>,
                                          !.prompt = 0]
              /\ socket' = [socket EXCEPT !.wire = Tail(@)]
              /\ Show(after)

\* The watermark moves when a frame arrives; a frame that finds no pump waits
\* in the queue.
HandleFrame(m) ==
  /\ replay' = [replay EXCEPT !.mark = Absorb(m.seq)]
  /\ IF stream.at = "pump" THEN Pump(View, <<m>>)
     ELSE /\ stream' = [stream EXCEPT !.buffer = Append(@, m)]
          /\ socket' = [socket EXCEPT !.wire = Tail(@)]
          /\ UNCHANGED <<trans, chat, row, applied>>

Started == Start(View, trans.message + 1)

\* streamTurn: the watermark is scoped to the new turn, which is submitted.
HandleResumedForTurn(m) ==
  /\ replay' = [replay EXCEPT !.mark = 0]
  /\ Show(Started)
  /\ stream' = [stream EXCEPT !.at = "pump", !.attempts = 0, !.known = TRUE]
  /\ row' = [row EXCEPT !.from = m.at]
  /\ Call("prompt.submit", 0)
  /\ UNCHANGED applied

\* resumeTurnStream: a failed turn is rebuilt from its snapshot, an idle
\* session yields nothing, a running turn is seeded and its gap asked for.
RebuildFailedTurn(m) ==
  /\ m.failed
  /\ Ends(FinishWithTurnError(Started, m.text))
  /\ UNCHANGED <<replay, row, applied>>

\* Mutant: the stream of an idle session waits for an end.
NothingRuns_Waits(m) ==
  /\ ~m.failed /\ ~m.running
  /\ stream' = [stream EXCEPT !.at = "pump"]
  /\ socket' = [socket EXCEPT !.wire = Tail(@)]
  /\ UNCHANGED <<replay, trans, chat, row, applied>>

NothingRuns(m) ==
  /\ ~m.failed /\ ~m.running
  /\ Ends(View)
  /\ UNCHANGED <<replay, row, applied>>

Seeded(m) == IF m.text = <<>> THEN Started ELSE Delta(Started, m.text)

\* The snapshot tells what the turn said up to m.at; the records after since
\* are asked for.
SeedRow(m, since) == [row EXCEPT !.from = m.at, !.since = since, !.seeded = TRUE]

AskForMissed(m) ==
  /\ m.running /\ replay.mark # 0
  /\ Show(Seeded(m))
  /\ stream' = [stream EXCEPT !.at = "replay", !.attempts = 0, !.prompt = m.prompt]
  /\ row' = SeedRow(m, replay.mark)
  /\ Call("session.events.since", replay.mark)
  /\ UNCHANGED <<replay, applied>>

NothingMissed(m) ==
  /\ m.running /\ replay.mark = 0
  /\ Show(ReplayPendingPrompts(Seeded(m), m.prompt))
  /\ stream' = [stream EXCEPT !.at = "pump", !.attempts = 0]
  /\ row' = SeedRow(m, m.at)
  /\ socket' = [socket EXCEPT !.wire = Tail(@)]
  /\ UNCHANGED <<replay, applied>>

HandleResumed(m) ==
  IF stream.mode = "turn" THEN HandleResumedForTurn(m)
  ELSE RebuildFailedTurn(m) \/ NothingRuns(m) \/ AskForMissed(m) \/ NothingMissed(m)

\* Mutant: what has arrived live is projected again.
Unseen_All(frames) == frames

\* replayMissedEvents: what a live frame has overtaken is skipped.  Then the
\* prompt of the snapshot, then the queue.
Unseen(frames) == Picked(frames, {i \in DOMAIN frames : frames[i].seq > replay.mark})

Attached(frames) ==
  ReplayPendingPrompts(FoldLeft(Translate, View, frames), stream.prompt)

HandleMissed(m) ==
  LET new == Unseen(m.frames)
      seqs == DurableIn(new)
  IN  /\ replay' = [replay EXCEPT !.mark = IF seqs = <<>> THEN @ ELSE Last(seqs)]
      /\ LET after == FoldLeft(Translate, Attached(new), stream.buffer)
         IN  /\ applied' = applied \o seqs \o DurableIn(stream.buffer)
             /\ row' = [row EXCEPT !.sealed = SealedBy(stream.buffer)]
             /\ IF after.trans.completed THEN Ends(after)
                ELSE /\ stream' = [stream EXCEPT !.at = "pump", !.buffer = <<>>, !.prompt = 0]
                     /\ socket' = [socket EXCEPT !.wire = Tail(@)]
                     /\ Show(after)

\* A refused submit is reported as itself; a resumed session that is gone has
\* concluded, and the timeline tells the rest.
HandleRefused(m) ==
  /\ IF stream.mode = "reattach" /\ m.notFound THEN Ends(View) ELSE Fails(View)
  /\ UNCHANGED <<replay, row, applied>>

Deliver ==
  /\ socket.wire # <<>>
  /\ LET m == Head(socket.wire)
     IN  CASE m.kind = "ready" -> HandleReady(m)
           [] m.kind = "frame" -> HandleFrame(m)
           [] m.kind = "resumed" -> HandleResumed(m)
           [] m.kind = "missed" -> HandleMissed(m)
           [] m.kind = "refused" -> HandleRefused(m)
  /\ UNCHANGED <<log, session, drops>>

-----------------------------------------------------------------------------
(* The client: connections that go. *)

\* The ticket, the upgrade or the 20 s budget; or the gateway says no.
DialFails ==
  /\ Drop
  /\ stream.at = "dial"
  /\ Disconnected(View) \/ Fails(View)
  /\ UNCHANGED <<log, session, replay, row, applied>>

\* The calls in flight fail, so a replay goes on without its answer, and the
\* queue hands out what it holds before it reports the end.
Drained ==
  IF stream.at = "replay" THEN FoldLeft(Translate, Attached(<<>>), stream.buffer) ELSE View

DrainedAndDone == stream.at = "replay" /\ Drained.trans.completed

Drains ==
  /\ Drop
  /\ applied' = applied \o DurableIn(stream.buffer)
  /\ row' = [row EXCEPT !.sealed = SealedBy(stream.buffer)]
  /\ UNCHANGED <<log, session, replay>>

\* An error, no pong in time or nothing for 120 s: TURN_STREAM_FAILED.
Lose ==
  /\ stream.at \in {"resume", "replay", "pump"}
  /\ Drains
  /\ IF DrainedAndDone THEN Ends(Drained) ELSE Disconnected(Drained)

\* The gateway closes the socket: the queue just ends, and what has streamed
\* is taken for the whole reply.
CloseQueue ==
  /\ stream.at \in {"resume", "replay", "pump"}
  /\ Drains
  /\ IF stream.at = "resume" THEN Disconnected(View)
     ELSE Ends(Finish(Drained, Drained.trans.content, FALSE))

-----------------------------------------------------------------------------
Init ==
  /\ log = <<>>
  /\ session = [turn |-> 0, running |-> FALSE, failed |-> FALSE, blocked |-> 0,
                revision |-> 0, epoch |-> 1, frames |-> 0]
  /\ socket = [bound |-> FALSE, wire |-> <<>>, request |-> NoRequest]
  /\ stream = [at |-> "idle", mode |-> "turn", known |-> FALSE, attempts |-> 0,
               buffer |-> <<>>, prompt |-> 0]
  /\ replay = [epoch |-> 0, mark |-> 0]
  /\ trans = NewTranslator(0)
  /\ chat = NoRow
  /\ row = NewRow
  /\ applied = <<>>
  /\ drops = 0

Gateway ==
  \/ \E type \in FrameTypes : Emit(type)
  \/ PromptAnswered \/ ForeignTurn \/ Restart \/ Answer \/ RequestLost

Client ==
  \/ Send \/ ResumeTurn \/ Dialled \/ Deliver \/ Reattach \/ Settle
  \/ DialFails \/ Lose \/ CloseQueue

Next == Gateway \/ Client

Spec == Init /\ [][Next]_vars

\* The device runs its callbacks and timers; the gateway answers what it is
\* asked and every turn ends.
FairSpec ==
  /\ Spec
  /\ WF_vars(Dialled \/ Deliver \/ Reattach \/ Settle)
  /\ WF_vars(Answer)
  /\ WF_vars(\E type \in Terminal : Emit(type))

-----------------------------------------------------------------------------
(* Properties. *)

\* Every variable has its type.
TypeOK ==
  /\ \A i \in DOMAIN log : log[i].seq = i /\ log[i].type \in FrameTypes
  /\ session \in [turn : 0..MaxTurns, running : BOOLEAN, failed : BOOLEAN,
                  blocked : 0..Len(log), revision : Nat, epoch : 1..MaxEpochs,
                  frames : 0..MaxFrames]
  /\ socket.bound \in BOOLEAN
  /\ socket.request.method \in {"none", "session.resume", "session.events.since",
                                "prompt.submit"}
  /\ stream.at \in {"idle", "dial", "resume", "replay", "pump", "delay", "settling"}
  /\ stream.mode \in {"turn", "reattach"}
  /\ stream.attempts \in 0..MaxReattach
  /\ stream.buffer # <<>> => stream.at \in {"resume", "replay"}
  /\ replay \in [epoch : 0..MaxEpochs, mark : Nat]
  /\ chat.status \in {"idle", "submitting", "streaming", "error"}
  /\ drops \in 0..MaxDrops

\* In well-formed variables, no record is projected twice and none out of order,
\* whether it arrived live, waited in the queue or was replayed.
RecordsInOrder ==
  TypeOK /\ \A i, j \in DOMAIN applied : i < j => applied[i] < applied[j]

\* The watermark never claims frames that this gateway process has not
\* emitted, else a replay would answer that nothing was missed.
WatermarkSound ==
  replay.epoch = session.epoch => replay.mark <= Len(log)

\* A prompt that blocks the turn is on the screen once the stream has caught
\* up, also when it was asked while the client was away.
PromptReachesUser ==
  (/\ stream.at = "pump" /\ socket.wire = <<>> /\ socket.request = NoRequest
   /\ session.blocked # 0)
    => chat.prompt = session.blocked

\* What was there when the row joined turn t does not disturb it: nothing of a
\* turn the row writes from its start, no interim of one it was seeded with, and
\* no tool record to replay, of any turn (it lands behind the seed's text).
JoinsCleanly(t) ==
  \A i \in 1..row.from :
    IF row.seeded THEN /\ log[i].type = "interim" => log[i].turn # t
                       /\ log[i].type \in ToolFrames => i <= row.since
    ELSE log[i].turn # t

\* A row that one stream wrote from start to end, or from a snapshot of streamed
\* text, says what the turn said: every piece once, in order.
RowTellsTheTurn ==
  (/\ stream.at = "settling" /\ row.sealed \in DOMAIN log /\ ~row.inPlace
   /\ JoinsCleanly(log[row.sealed].turn))
    => RowText(chat) = Pieces(log[row.sealed].turn, 0, row.sealed)

\* A settled conversation waits for nothing.
SettledIsQuiet ==
  stream.at = "idle" => chat.prompt = 0 /\ chat.status \in {"idle", "error"}

\* Whatever is lost, the conversation gets out of its busy state.
StreamSettles == stream.at # "idle" ~> stream.at = "idle"
===============================================================================
