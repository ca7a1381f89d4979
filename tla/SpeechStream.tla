---------------------------- MODULE SpeechStream ----------------------------
(***************************************************************************)
(* Clause-streamed speech (src/services/gateway/gateway-speech-stream.ts)  *)
(* with the PCM player it feeds: one WebSocket session per spoken reply,   *)
(* an admission ledger in front of the one app-wide player, and a terminal *)
(* result that decides whether the reply may be synthesized again.         *)
(*                                                                         *)
(* The player reports to the stream from inside write(), stop() and its    *)
(* own native callbacks, so a step applies the stream's handler to what    *)
(* the player became: w is the pair [s |-> stream, p |-> player].          *)
(***************************************************************************)
EXTENDS Naturals, Sequences, FiniteSets

CONSTANTS
  Batch,       \* frames of one native buffer; playback primes at one buffer
  Capacity,    \* frames the player may hold queued
  HighWater,   \* admitted-but-unplayed frames the ledger allows
  Slice,       \* frames of one admission
  MaxPending,  \* frames held back by the ledger
  MaxAudio,    \* frames of one session
  Chunks,      \* sizes of the binary frames that arrive, in frames
  MaxText,     \* narration appended to one reply
  Replies      \* replies spoken one after the other

ASSUME SpeechConstants ==
  /\ Batch \in Nat \ {0} /\ Slice \in Nat \ {0} /\ HighWater \in Nat \ {0}
  /\ Capacity \in Nat /\ Capacity > HighWater /\ Capacity >= Batch
  /\ MaxPending \in Nat /\ MaxAudio \in Nat /\ Chunks \subseteq Nat \ {0}
  /\ MaxText \in Nat /\ Replies \in Nat \ {0}

VARIABLES
  stream,    \* the GatewaySpeechStreamSession of the reply being spoken
  player,    \* the PCM player and the session it plays
  starter,   \* the reply whose start() the player's session answers
  audible,   \* the replies the speaker has begun to sound (history)
  orphans,   \* the replies settled while their start() was pending (history)
  appState   \* AppState.currentState

speechVars == <<stream, player, starter, audible, orphans, appState>>

----------------------------------------------------------------------------
(***************************************************************************)
(* The app-wide streaming PCM player (src/native/pcm-player.ts) over its   *)
(* resampler (src/native/pcm-player-contract.ts), as operators on a player *)
(* record: the player's methods are synchronous up to their first await    *)
(* and call their listener before they return, so a step applies several   *)
(* of them.  Frames are counted, never rendered; the resampler runs at     *)
(* equal rates, where it holds back exactly one source frame until it is   *)
(* finished.                                                               *)
(***************************************************************************)
Max2(a, b) == IF a > b THEN a ELSE b
Min2(a, b) == IF a < b THEN a ELSE b

Outcomes == {"backgrounded", "drained", "failed", "interrupted", "stopped"}

\* No session yet and no AudioContext; `behind` remembers that a start()
\* resumed while the app was in the background (history).
Silent ==
  [session |-> FALSE, starting |-> FALSE, context |-> FALSE, idleTimer |-> FALSE,
   closing |-> "no", observing |-> FALSE, started |-> FALSE, finishing |-> FALSE,
   drainTimer |-> FALSE, state |-> "idle", buffers |-> <<>>, pending |-> 0,
   fed |-> 0, queued |-> 0, played |-> 0, written |-> 0, underruns |-> 0,
   ending |-> "none", behind |-> FALSE]

PlayerType ==
  [session : BOOLEAN, starting : BOOLEAN, context : BOOLEAN, idleTimer : BOOLEAN,
   closing : {"no", "idle", "session", "start"}, observing : BOOLEAN,
   started : BOOLEAN, finishing : BOOLEAN, drainTimer : BOOLEAN,
   state : {"idle", "buffering", "playing", "draining"}, buffers : Seq(Nat),
   pending : Nat, fed : Nat, queued : Nat, played : Nat, written : Nat,
   underruns : Nat, ending : Outcomes \cup {"none"}, behind : BOOLEAN]

(* start() up to its await: the idle close is cancelled, a context that is *)
(* still closing is waited for.                                            *)
StartAllowed(p, backgrounded) == ~p.session /\ ~p.starting /\ ~backgrounded
StartCalled(p) == [p EXCEPT !.starting = TRUE, !.idleTimer = FALSE]
ContextReady(p) == p.starting /\ p.closing = "no"

StartDone(p) ==
  [Silent EXCEPT !.session = TRUE, !.context = TRUE, !.observing = TRUE,
                 !.state = "buffering"]

\* The AudioContext or the audio session refuses.
StartThrows(p) == [p EXCEPT !.starting = FALSE, !.observing = FALSE]
\* The source or gain node refuses: the context is closed before the throw.
SourceThrows(p) == [p EXCEPT !.context = FALSE, !.closing = "start"]

Accounted_Whole(fed, sizes) == SelectSeq(sizes, LAMBDA n : n > 0)

(* The resampler: every appended buffer accounts for its own frames, the   *)
(* first for one less; an empty block enqueues nothing.                    *)
Accounted(fed, sizes) ==
  SelectSeq([i \in DOMAIN sizes |-> IF fed = 0 /\ i = 1 THEN sizes[i] - 1 ELSE sizes[i]],
            LAMBDA n : n > 0)

\* flushPendingBatches
Flushed(p, includeRemainder) ==
  LET rest  == p.pending % Batch
      sizes == [i \in 1..(p.pending \div Batch) |-> Batch]
                 \o (IF includeRemainder /\ rest > 0 THEN <<rest>> ELSE <<>>)
      left  == IF includeRemainder THEN 0 ELSE rest
  IN [p EXCEPT !.buffers = @ \o Accounted(p.fed, sizes),
               !.fed = @ + (p.pending - left), !.pending = left]

Begun(p) ==
  IF p.started THEN p
  ELSE [p EXCEPT !.started = TRUE,
                 !.state = IF p.finishing THEN "draining" ELSE "playing"]

\* write(): refused without a session, while draining and beyond Capacity.
WriteAllowed(p, n) == p.session /\ ~p.finishing /\ p.queued + n <= Capacity
Written(p, n) ==
  LET q == Flushed([p EXCEPT !.pending = @ + n, !.queued = @ + n, !.written = @ + n], FALSE)
  IN IF q.started THEN [q EXCEPT !.state = IF @ = "buffering" THEN "playing" ELSE @]
     ELSE IF q.queued >= Batch THEN Begun(q)
     ELSE q

(* cleanupSession after the fade: a drained or stopped session leaves its  *)
(* context to the idle timer, any other closes it before it reports.       *)
Cleaned(p) ==
  LET q == [Silent EXCEPT !.ending = p.ending, !.played = p.played,
                          !.context = p.context, !.observing = p.observing]
  IN IF p.ending \in {"drained", "stopped"} THEN [q EXCEPT !.idleTimer = TRUE]
     ELSE [q EXCEPT !.context = FALSE, !.closing = "session"]

\* completeSession: the first outcome wins; a stop that sounds fades first.
Completed(p, outcome) ==
  IF p.ending # "none" THEN p
  ELSE LET q == [p EXCEPT !.ending = outcome, !.drainTimer = FALSE]
       IN IF outcome = "stopped" /\ p.started THEN q ELSE Cleaned(q)

Fading(p) == p.session /\ p.ending = "stopped"
Stopped(p) == IF p.session THEN Completed(p, "stopped") ELSE p

(* finish() up to its await: the remainder and the resampler's last frame  *)
(* are queued, and what was never started starts now.                      *)
FinishAllowed(p) == p.session /\ ~p.finishing
FinishFails(p) == p.fed = 0 /\ p.pending = 0
Finishing(p) ==
  LET q == Flushed(p, TRUE)
      r == [q EXCEPT !.buffers = Append(@, 1), !.finishing = TRUE, !.state = "draining"]
  IN [Begun(r) EXCEPT !.drainTimer = TRUE]

(* handleBufferEnded: the head buffer was rendered.  A queue that runs dry *)
(* before the producer finished flushes what is pending or buffers.        *)
BufferEnded(p) ==
  LET n == Head(p.buffers)
      q == [p EXCEPT !.buffers = Tail(@), !.played = @ + n,
                     !.queued = IF @ > n THEN @ - n ELSE 0]
  IN IF q.finishing /\ q.queued = 0 /\ q.played = q.written THEN Completed(q, "drained")
     ELSE IF ~q.finishing /\ q.buffers = <<>>
       THEN IF q.pending > 0
              THEN [Flushed(q, TRUE) EXCEPT !.underruns = @ + 1, !.state = "playing"]
              ELSE [q EXCEPT !.underruns = @ + 1, !.state = "buffering"]
     ELSE q

\* closeContext of an idle player; and the end of any close.
IdleClose(p) == [p EXCEPT !.context = FALSE, !.idleTimer = FALSE, !.closing = "idle"]
Closed(p) ==
  [p EXCEPT !.closing = "no", !.observing = FALSE,
            !.starting = IF p.closing = "start" THEN FALSE ELSE @]

(* What the queue's bookkeeping must add up to while a session lives.      *)
SumSeq(s) ==
  LET f[i \in 0..Len(s)] == IF i = 0 THEN 0 ELSE f[i - 1] + s[i] IN f[Len(s)]
HeldBack(p) == IF p.fed > 0 /\ ~p.finishing THEN 1 ELSE 0

----------------------------------------------------------------------------
\* The stream.  `said` remembers the frames received when the server's end came, and
\* `unheard` that `completed` was the answer to audio that was written and not yet
\* counted (history).

Results == {"completed", "incomplete", "skipped", "unspoken", "fallback"}

Opened(reply) ==
  [reply |-> reply, socket |-> "dialing", outbound |-> <<>>, wire |-> <<>>,
   format |-> FALSE, pending |-> 0, received |-> 0, admitted |-> 0, playedFrames |-> 0,
   phase |-> "idle", becameAudible |-> FALSE, text |-> 0, doneSent |-> FALSE,
   serverEnded |-> FALSE, startTimer |-> TRUE, doneTimer |-> FALSE,
   drainTimer |-> FALSE, said |-> 0, unheard |-> FALSE, terminal |-> "none"]

StreamType ==
  [reply : 1..Replies, socket : {"dialing", "connecting", "open", "closed"},
   outbound : Seq({"text", "done"}), wire : Seq({"text", "done", "stop"}),
   format : BOOLEAN, pending : 0..MaxPending, received : 0..MaxAudio, admitted : Nat,
   playedFrames : Nat, phase : {"idle", "starting", "started", "finishing"},
   becameAudible : BOOLEAN, text : 0..MaxText, doneSent : BOOLEAN,
   serverEnded : BOOLEAN, startTimer : BOOLEAN, doneTimer : BOOLEAN,
   drainTimer : BOOLEAN, said : 0..MaxAudio, unheard : BOOLEAN, terminal : Results \cup {"none"}]

Init ==
  /\ stream = Opened(1) /\ player = Silent /\ starter = 0
  /\ audible = {} /\ orphans = {} /\ appState = "active"

(* settle(): timers, subscription and socket are released; unless the      *)
(* reply completed, the player is stopped if this session has begun to use *)
(* it.  Only the first result counts.                                      *)
Settle(w, result) ==
  IF w.s.terminal # "none" THEN w
  ELSE [s |-> [w.s EXCEPT !.terminal = result, !.startTimer = FALSE, !.doneTimer = FALSE,
                          !.drainTimer = FALSE, !.pending = 0, !.phase = "idle",
                          !.socket = IF @ = "dialing" THEN @ ELSE "closed"],
        p |-> IF w.s.phase # "idle" /\ result # "completed" THEN Stopped(w.p) ELSE w.p]

Fail_Unspoken(w) == Settle(w, "unspoken")

Fail(w) == Settle(w, IF w.s.becameAudible THEN "incomplete" ELSE "unspoken")

(* maybeFinishPlayback(): nothing admitted means nothing to drain; else    *)
(* the player is asked to finish, and a refusal fails the stream.          *)
MaybeFinish(w) ==
  IF w.s.terminal # "none" \/ ~w.s.serverEnded \/ w.s.pending > 0
       \/ w.s.phase \in {"starting", "finishing"} THEN w
  ELSE IF w.s.phase = "idle" THEN Settle(w, "completed")
  ELSE IF w.s.admitted = 0
    THEN LET v == Settle([w EXCEPT !.s.unheard = w.s.received > 0], "completed")
         IN [v EXCEPT !.p = Stopped(@)]
  ELSE LET v == [w EXCEPT !.s.phase = "finishing"]
       IN IF ~FinishAllowed(w.p) THEN Fail(v)
          ELSE IF FinishFails(w.p) THEN Fail([v EXCEPT !.p = Completed(@, "failed")])
          ELSE [v EXCEPT !.p = Finishing(@), !.s.becameAudible = TRUE,
                         !.s.playedFrames = w.p.played]

(* The frames one burst of admissions writes before the player refuses.    *)
(* write() reports back before the ledger has counted the slice, and the   *)
(* report admits the next slice against the same headroom.                 *)
BurstFrames(w) ==
  LET headroom == HighWater - (w.s.admitted - w.s.playedFrames)
      size == Min2(Min2(headroom, Slice), w.s.pending)
      free == Capacity - w.p.queued
  IN IF w.s.pending <= free THEN w.s.pending ELSE (free \div size) * size

(* pump(): start the player for the first audio, or admit pending audio.   *)
(* The innermost report sees the ledger before the burst.                  *)
Pump(w) ==
  IF w.s.terminal # "none" \/ ~w.s.format \/ w.s.phase = "finishing"
       \/ w.s.phase = "starting" THEN w
  ELSE IF w.s.phase = "idle"
    THEN IF w.s.pending = 0 THEN w
         ELSE IF StartAllowed(w.p, appState = "background")
           THEN [w EXCEPT !.s.phase = "starting", !.p = StartCalled(@)]
         ELSE Fail(w)
  ELSE IF w.s.pending = 0 THEN MaybeFinish(w)
  ELSE IF w.s.admitted - w.s.playedFrames >= HighWater THEN w
  ELSE IF ~WriteAllowed(w.p, 0) THEN Fail(w)
  ELSE LET n  == BurstFrames(w)
           p1 == IF n = 0 THEN w.p ELSE Written(w.p, n)
           s1 == [w.s EXCEPT !.pending = @ - n, !.playedFrames = p1.played,
                             !.becameAudible = @ \/ p1.state = "playing"]
           v  == IF n < w.s.pending THEN Fail([s |-> s1, p |-> p1])
                 ELSE MaybeFinish([s |-> s1, p |-> p1])
       IN [v EXCEPT !.s.admitted = @ + n]

(* handlePlayerEvent() for a report of the session's own progress, and for *)
(* the idle report that ends it.                                           *)
Reported(w) ==
  IF w.s.terminal # "none" \/ w.s.phase \in {"idle", "starting"} THEN w
  ELSE Pump([w EXCEPT !.s.playedFrames = w.p.played,
                      !.s.becameAudible = @ \/ w.p.state \in {"playing", "draining"}])

EndReported(w) ==
  IF w.s.terminal # "none" \/ w.s.phase \in {"idle", "starting"} THEN w
  ELSE LET v == [w EXCEPT !.s.playedFrames = w.p.played]
       IN IF w.p.ending = "drained" THEN Settle([v EXCEPT !.s.phase = "idle"], "completed")
          ELSE Fail([v EXCEPT !.s.phase = "idle"])

(* One step: the pair it leaves behind; a start() that was called belongs  *)
(* to the reply that called it; a playing session sounds; stop() finds     *)
(* nothing to stop while start() is pending.                               *)
Become(w) ==
  /\ stream' = w.s /\ player' = w.p
  /\ starter' = IF w.p.starting /\ ~player.starting THEN w.s.reply ELSE starter
  /\ audible' = IF w.p.session /\ w.p.started THEN audible \cup {starter} ELSE audible
  /\ orphans' = IF stream.phase = "starting" /\ w.s.terminal # "none" /\ w.p.starting
                  THEN orphans \cup {stream.reply} ELSE orphans

Now == [s |-> stream, p |-> player]
Live == stream.terminal = "none"
Answering == Live /\ stream.phase = "starting" /\ starter = stream.reply

----------------------------------------------------------------------------
\* What the voice loop asks of the stream.

Send(w, frame) ==
  IF w.s.socket = "open" THEN [w EXCEPT !.s.wire = Append(@, frame)]
  ELSE [w EXCEPT !.s.outbound = Append(@, frame)]

\* A send on an open socket may throw.
SendFails(w) == w.s.socket = "open"

AppendText ==
  /\ Live /\ ~stream.doneSent /\ stream.text < MaxText
  /\ LET w == [Now EXCEPT !.s.text = @ + 1]
     IN Become(Send(w, "text")) \/ (SendFails(w) /\ Become(Fail(w)))
  /\ UNCHANGED appState

FinishText ==
  /\ Live /\ ~stream.doneSent
  /\ LET w == [Now EXCEPT !.s.doneSent = TRUE]
     IN \/ Become([Send(w, "done") EXCEPT !.s.doneTimer = TRUE])
        \/ SendFails(w) /\ Become(Fail(w))
  /\ UNCHANGED appState

StopStream ==
  /\ Live
  /\ Become(Settle([Now EXCEPT !.s.wire = IF stream.socket = "open" THEN Append(@, "stop")
                                          ELSE @], "skipped"))
  /\ UNCHANGED appState

\* The loop opens the stream of its next reply once it has this one's result.
NextReply ==
  /\ ~Live /\ stream.reply < Replies
  /\ stream' = Opened(stream.reply + 1)
  /\ UNCHANGED <<player, starter, audible, orphans, appState>>

----------------------------------------------------------------------------
\* The socket.

Dialed ==
  /\ stream.socket = "dialing"
  /\ Become([Now EXCEPT !.s.socket = IF Live THEN "connecting" ELSE "closed"])
  /\ UNCHANGED appState

DialFails == Live /\ stream.socket = "dialing" /\ Become(Fail(Now)) /\ UNCHANGED appState

SocketOpens ==
  /\ stream.socket = "connecting"
  /\ \/ Become([Now EXCEPT !.s.socket = "open", !.s.wire = @ \o stream.outbound,
                           !.s.outbound = <<>>])
     \/ stream.outbound # <<>> /\ Become(Fail([Now EXCEPT !.s.socket = "open"]))
  /\ UNCHANGED appState

\* handleSocketGone: after `end` the playback decides the outcome.
SocketGone ==
  /\ stream.socket \in {"connecting", "open"}
  /\ Become(IF stream.serverEnded THEN Now ELSE Fail(Now))
  /\ UNCHANGED appState

StartFrame ==
  /\ stream.socket = "open"
  /\ Become(IF stream.format THEN Fail(Now)
            ELSE [Now EXCEPT !.s.format = TRUE, !.s.startTimer = FALSE])
  /\ UNCHANGED appState

\* handleBinaryFrame: bounded in length and in what the ledger may hold back.
AudioFrame(n) ==
  /\ stream.socket = "open"
  /\ Become(IF ~stream.format \/ stream.received + n > MaxAudio
                 \/ stream.pending + n > MaxPending THEN Fail(Now)
            ELSE Pump([Now EXCEPT !.s.received = @ + n, !.s.pending = @ + n]))
  /\ UNCHANGED appState

\* A native refusal inside write(): the player fails, and so does the stream.
AudioBreaks(n) ==
  /\ stream.socket = "open" /\ stream.phase = "started" /\ WriteAllowed(player, n)
  /\ Become(Fail([Now EXCEPT !.s.received = Min2(MaxAudio, @ + n),
                             !.p = Completed(@, "failed")]))
  /\ UNCHANGED appState

Said == IF stream.serverEnded THEN stream.said ELSE stream.received

EndFrame_NoDeadline ==
  /\ stream.socket = "open"
  /\ Become(MaybeFinish([Now EXCEPT !.s.serverEnded = TRUE, !.s.doneTimer = FALSE, !.s.said = Said]))
  /\ UNCHANGED appState

\* The drain deadline is armed once, and only for a stream with a format.
EndFrame ==
  /\ stream.socket = "open"
  /\ Become(MaybeFinish([Now EXCEPT !.s.serverEnded = TRUE, !.s.doneTimer = FALSE, !.s.said = Said,
                                    !.s.drainTimer = @ \/ stream.format]))
  /\ UNCHANGED appState

FallbackFrame ==
  /\ stream.socket = "open"
  /\ Become(IF stream.received > 0 \/ stream.becameAudible THEN Fail(Now)
            ELSE Settle(Now, "fallback"))
  /\ UNCHANGED appState

\* Unreadable, oversized or unsupported frames.
BadFrame == stream.socket = "open" /\ Become(Fail(Now)) /\ UNCHANGED appState

StartDeadline == stream.startTimer /\ Become(Fail(Now)) /\ UNCHANGED appState
DoneDeadline == stream.doneTimer /\ Become(Fail(Now)) /\ UNCHANGED appState
DrainDeadline == stream.drainTimer /\ Become(Fail(Now)) /\ UNCHANGED appState

----------------------------------------------------------------------------
\* The native side of the player.

\* start() resumes; only the stream that still waits for it goes on.
StartResolves ==
  /\ ContextReady(player)
  /\ LET p == [StartDone(player) EXCEPT !.behind = (appState = "background")]
     IN Become(IF Answering
                 THEN Pump([s |-> [stream EXCEPT !.phase = "started", !.playedFrames = 0],
                            p |-> p])
                 ELSE [s |-> stream, p |-> p])
  /\ UNCHANGED appState

StartRefused(p) ==
  IF Answering THEN Fail([s |-> [stream EXCEPT !.phase = "idle"], p |-> p])
  ELSE [s |-> stream, p |-> p]

StartRejects ==
  /\ ContextReady(player)
  /\ \/ Become(StartRefused(StartThrows(player)))
     \/ Become([s |-> stream, p |-> SourceThrows(player)])
  /\ UNCHANGED appState

BufferPlayed ==
  /\ player.session /\ player.started /\ player.buffers # <<>>
  /\ LET w == [s |-> stream, p |-> BufferEnded(player)]
     IN Become(IF w.p.session THEN Reported(w) ELSE EndReported(w))
  /\ UNCHANGED appState

FadeDone ==
  /\ Fading(player)
  /\ Become(EndReported([s |-> stream, p |-> Cleaned(player)]))
  /\ UNCHANGED appState

PlayerDeadline ==
  /\ player.drainTimer
  /\ Become([s |-> stream, p |-> Completed(player, "failed")])
  /\ UNCHANGED appState

Interruption ==
  /\ player.session /\ player.ending = "none"
  /\ Become([s |-> stream, p |-> Completed(player, "interrupted")])
  /\ UNCHANGED appState

AppStateChanges ==
  \E next \in {"active", "background"} \ {appState} :
    /\ appState' = next
    /\ Become([s |-> stream,
               p |-> IF next = "background" /\ player.session
                       THEN Completed(player, "backgrounded") ELSE player])

\* Five idle seconds, or a confirmed departure to the background.
IdleTimeout ==
  /\ player.idleTimer /\ ~player.session
  /\ Become([s |-> stream, p |-> IdleClose(player)])
  /\ UNCHANGED appState

CloseDone ==
  /\ player.closing # "no"
  /\ LET w == [s |-> stream, p |-> Closed(player)]
     IN Become(CASE player.closing = "session" -> EndReported(w)
                 [] player.closing = "start" -> StartRefused(w.p)
                 [] OTHER -> w)
  /\ UNCHANGED appState

----------------------------------------------------------------------------
Deadlines == StartDeadline \/ DoneDeadline \/ DrainDeadline

Next ==
  \/ AppendText \/ FinishText \/ StopStream \/ NextReply
  \/ Dialed \/ DialFails \/ SocketOpens \/ SocketGone
  \/ StartFrame \/ (\E n \in Chunks : AudioFrame(n) \/ AudioBreaks(n))
  \/ EndFrame \/ FallbackFrame \/ BadFrame
  \/ StartDeadline \/ DoneDeadline \/ DrainDeadline
  \/ StartResolves \/ StartRejects \/ BufferPlayed \/ FadeDone \/ PlayerDeadline
  \/ Interruption \/ AppStateChanges \/ IdleTimeout \/ CloseDone

Spec == Init /\ [][Next]_speechVars /\ WF_speechVars(DoneDeadline) /\ WF_speechVars(DrainDeadline)

----------------------------------------------------------------------------
(* The stream's and the player's records stay well formed, and the player  *)
(* never holds more than its hard capacity.                                *)
SpeechTypeOK ==
  /\ stream \in StreamType /\ player \in PlayerType /\ player.queued <= Capacity
  /\ starter \in 0..Replies /\ audible \subseteq 1..Replies /\ orphans \subseteq 1..Replies

(* Every written frame is either played or queued, and every queued frame  *)
(* sits in a native buffer, in the pending batch or in the resampler: a    *)
(* frame lost or counted twice would stall the drain or end it early.      *)
FramesConserved ==
  player.session =>
    /\ player.written = player.played + player.queued
    /\ player.queued = SumSeq(player.buffers) + player.pending + HeldBack(player)

(* `unspoken` authorises the voice loop to synthesize the whole reply      *)
(* again: no reply with that result ever began to sound.                   *)
UnspokenMeansSilent ==
  stream.terminal \in {"unspoken", "fallback"} => stream.reply \notin audible

(* A settled reply gives the player back: whatever session there is plays  *)
(* for the reply being spoken, is ending, or came to a reply that settled  *)
(* while start() was pending.  Such a session is the code's own: nobody    *)
(* stops it (gateway-speech-stream.ts:438, pcm-player.ts:301), the next    *)
(* start() is refused (:118), but it never sounds.                         *)
SettledGoesQuiet ==
  /\ player.session =>
       (starter = stream.reply /\ Live) \/ player.ending # "none" \/ starter \in orphans
  /\ player.session /\ player.started => starter \notin orphans

(* A completed reply was played to the last frame that came before its     *)
(* end, never broken off in the middle.  The exception is the              *)
(* code's: a reply whose audio and end were all there when start()         *)
(* resolved is written whole from inside the reports of its first write,   *)
(* the ledger has counted none of it yet (:467), and it is taken for one   *)
(* without audio (:532) and stopped.                                       *)
CompletedIsWhole ==
  stream.terminal = "completed" =>
    IF stream.unheard THEN stream.admitted = stream.received ELSE stream.playedFrames \in stream.said..stream.received

(* A session sounds in the background only if its start() was called in    *)
(* the foreground and resumed, after a context closed, in the background.  *)
BackgroundIsQuiet ==
  appState = "background" /\ player.session /\ player.started =>
    player.behind \/ player.ending # "none"

(* The gateway receives the narration, then `done`, then at most `stop`,   *)
(* whatever was queued before the socket opened.                           *)
WireInOrder ==
  \A i, j \in DOMAIN stream.wire : i < j =>
    /\ stream.wire[i] # "stop"
    /\ stream.wire[i] = "done" => stream.wire[j] = "stop"

(* "Admit pending audio into the player only while the admitted-but-       *)
(* unplayed duration stays under the six-second high-water mark" (the      *)
(* comment on pump()).                                                     *)
HighWaterKept == Live => stream.admitted - stream.playedFrames <= HighWater

(* Once the reply's text is complete its result always arrives: by the     *)
(* server's end, the player's completion or one of the two deadlines.      *)
DoneSettles == (Live /\ stream.doneSent) ~> ~Live
=============================================================================
