----------------------------- MODULE HarnessTurns -----------------------------
(***************************************************************************)
(* The scripted gateway of the voice harness (tools/voice-harness): the    *)
(* sessions it stores, the turns it plays frame by frame over a socket     *)
(* that may drop, the prompts a turn waits on, and the ring of frames a    *)
(* client that reconnects is shown again.  An end-to-end test is worth as  *)
(* much as this double.  A session object keeps its number for its         *)
(* identity; a reset of the store gives its id to another object.          *)
(***************************************************************************)
EXTENDS Naturals, SequencesExt, FiniteSetsExt

CONSTANTS MaxSessions, MaxTurns, RingMax, Sockets

VARIABLE harness

H == harness
Questions == {"q1", "q2"}
Ids == 1..MaxSessions
NoTurn == 0
Lost == 0

\* The scripts a scenario holds; a reply without frames is streamed and completed.
replyFrames == <<"message.delta", "message.complete">>
Scripts == {replyFrames,
            <<"clarify.request", "message.complete">>,
            <<"approval.request", "tool.complete">>}

\* sessions: the objects ever made; turns: the turns ever started; waits: for each
\* turn, the prompts that wait for it to be done; ring: the last frames of a live id;
\* story: a history of what the turns of a live id have emitted, the numbers of the
\* frames that were sent and a Lost for each that met a closed socket.
Init ==
  harness = [sessions |-> <<>>, made |-> 0, turns |-> <<>>, active |-> [id \in Ids |-> NoTurn],
             waits |-> <<>>, queued |-> [id \in Ids |-> 0], open |-> Sockets,
             seq |-> [id \in Ids |-> 0], ring |-> [id \in Ids |-> <<>>],
             locks |-> <<>>, resets |-> 0, story |-> [id \in Ids |-> <<>>]]

Turn(s, socket, script) ==
  [session |-> s, first |-> socket, sink |-> socket, left |-> script,
   pending |-> "none", over |-> FALSE]

IdOf(s) == H.sessions[s].id
\* resolveSession: the object that has the id now.
Resolves(h, s) == h.sessions[s].stored
ActiveOf(s) == H.active[IdOf(s)]
Known == {s \in DOMAIN H.sessions : Resolves(H, s)}

createSession ==
  /\ H.made < MaxSessions /\ Len(H.sessions) < MaxSessions + H.resets
  /\ harness' = [H EXCEPT !.made = @ + 1,
                          !.sessions = Append(@, [id |-> H.made + 1, stored |-> TRUE])]

deleteSession(s) ==
  harness' = [H EXCEPT !.sessions[s].stored = FALSE]

\* The store and its counters start again; turns, queue and ring do not.
reset ==
  /\ H.resets = 0
  /\ harness' = [H EXCEPT !.resets = 1, !.made = 0,
                          !.sessions = [s \in DOMAIN @ |-> [@[s] EXCEPT !.stored = FALSE]]]

----------------------------------------------------------------------------
(* Frames.                                                                 *)

\* Every frame sent is numbered, and the last RingMax are kept.
sendEvent(h, id, type) ==
  LET n == h.seq[id] + 1
      frames == Append(h.ring[id], n)
  IN [h EXCEPT !.seq[id] = n, !.story[id] = Append(@, n),
               !.ring[id] = IF Len(frames) > RingMax THEN Tail(frames) ELSE frames]

\* session.events.since
Since(id, seen) ==
  FoldLeft(LAMBDA events, n : IF n > seen THEN Append(events, n) ELSE events, <<>>, H.ring[id])
\* A frame of a socket that is closed is neither numbered nor kept.
dropEvent(h, id) == [h EXCEPT !.story[id] = Append(@, Lost)]

Truncated(id, seen) == H.ring[id] # <<>> /\ seen + 1 < Head(H.ring[id])

\* What a frame that was sent makes of the prompt its turn waits on.
Pending(type, before) ==
  CASE type = "approval.request" -> "approval"
    [] type = "clarify.request" -> "clarify"
    [] OTHER -> "none"

----------------------------------------------------------------------------
(* Turns.                                                                  *)
startTurn(h, s, socket, script) ==
  [h EXCEPT !.turns = Append(@, Turn(s, socket, script)),
            !.locks = Append(@, {}), !.waits = Append(@, <<>>),
            !.active[h.sessions[s].id] = Len(h.turns) + 1]

\* A done turn gives its session free, starts the text queued behind it on the
\* socket it was started on, and then the prompts that wait for it.
Done(h, t, script) ==
  LET turn == h.turns[t]
      id == h.sessions[turn.session].id
      freed == [h EXCEPT !.turns[t].over = TRUE, !.turns[t].left = <<>>, !.turns[t].pending = "none",
                         !.active[id] = IF @ = t THEN NoTurn ELSE @,
                         !.queued[id] = IF @ > 0 THEN @ - 1 ELSE 0,
                         !.waits[t] = <<>>]
      drained == IF h.queued[id] > 0 /\ turn.first \in h.open /\ Resolves(h, turn.session)
                 THEN startTurn(freed, turn.session, turn.first, script) ELSE freed
  IN FoldLeft(LAMBDA g, w : startTurn(g, w.session, w.socket, script), drained, h.waits[t])

\* The next frame: sent if the socket of the turn is open, and lost otherwise.
Emitted(t) ==
  LET turn == H.turns[t]
      type == Head(turn.left)
      id == IdOf(turn.session)
      cut == [H EXCEPT !.turns[t].left = Tail(@)]
  IN IF turn.sink \notin H.open THEN dropEvent(cut, id)
     ELSE [sendEvent(cut, id, type) EXCEPT
             !.turns[t].pending = Pending(type, @),
             !.locks[t] = IF type = "clarify.request" THEN Questions ELSE @]

Play(t, script) ==
  /\ ~H.turns[t].over
  /\ LET next == Emitted(t)
     IN harness' = IF next.turns[t].left = <<>> THEN Done(next, t, script) ELSE next

\* session.interrupt: what is left is dropped, and the turn says so.
interrupt(s, script) ==
  LET t == ActiveOf(s)
  IN /\ t # NoTurn
     /\ LET id == IdOf(H.turns[t].session)
            told == IF H.turns[t].sink \in H.open THEN sendEvent(H, id, "turn.interrupted") ELSE dropEvent(H, id)
        IN harness' = Done(told, t, script)

\* The turns that were started or asked for: a bound.
Asked(id) == FoldLeft(LAMBDA n, w : n + Len(w), Len(H.turns) + H.queued[id], H.waits)

\* prompt.submit: at once, or when the turn that runs is done.
Submit(s, socket, script) ==
  LET t == ActiveOf(s)
  IN /\ Asked(IdOf(s)) < MaxTurns
     /\ harness' = IF t = NoTurn THEN startTurn(H, s, socket, script)
                   ELSE [H EXCEPT !.waits[t] = Append(@, [session |-> s, socket |-> socket])]

\* session.redirect answered with "queued".
Redirect(s) ==
  /\ Asked(IdOf(s)) < MaxTurns
  /\ harness' = [H EXCEPT !.queued[IdOf(s)] = @ + 1]

----------------------------------------------------------------------------
(* Sockets and prompts.                                                    *)
Drop(socket) == /\ socket \in H.open /\ harness' = [H EXCEPT !.open = @ \ {socket}]

\* session.resume moves a running turn to the socket that asks.
rebind(s, socket) ==
  /\ ActiveOf(s) # NoTurn
  /\ harness' = [H EXCEPT !.turns[ActiveOf(s)].sink = socket]

settlePendingPrompt(h, s, kind) ==
  LET t == h.active[h.sessions[s].id]
  IN IF t # NoTurn /\ h.turns[t].pending = kind THEN [h EXCEPT !.turns[t].pending = "none"] ELSE h

ApprovalRespond(s) == harness' = settlePendingPrompt(H, s, "approval")

\* clarify.respond: one question of a batch is locked, and the last one settles
\* the prompt; an answer that names no question settles it at once.
Locked(s, t, question) ==
  LET left == H.locks[t] \ {question}
      locked == [H EXCEPT !.locks[t] = left]
  IN IF left = {} THEN settlePendingPrompt(locked, s, "clarify") ELSE locked

ClarifyLock(s, t, question) ==
  /\ H.turns[t].session = s /\ question \in H.locks[t]
  /\ harness' = Locked(s, t, question)

ClarifyRespond(s, t) ==
  /\ H.turns[t].session = s /\ H.locks[t] # {}
  /\ harness' = settlePendingPrompt([H EXCEPT !.locks[t] = {}], s, "clarify")

Playing == \E t \in DOMAIN H.turns : \E script \in Scripts : Play(t, script)

Next ==
  \/ createSession \/ reset \/ Playing
  \/ \E socket \in Sockets : Drop(socket)
  \/ \E s \in Known :
       \/ deleteSession(s) \/ Redirect(s) \/ ApprovalRespond(s)
       \/ \E script \in Scripts :
            interrupt(s, script) \/ \E socket \in H.open : Submit(s, socket, script)
       \/ \E socket \in H.open : rebind(s, socket)
       \/ \E t \in DOMAIN H.turns :
            ClarifyRespond(s, t) \/ \E question \in Questions : ClarifyLock(s, t, question)

Fairness == WF_harness(Playing)
Spec == Init /\ [][Next]_harness /\ Fairness

----------------------------------------------------------------------------
\* What a client that has seen the first k frames of a session has missed, but for
\* the frames the code loses: those emitted on a closed socket (turn-engine.ts:100).
MissedAfter(id, k) ==
  SelectSeq(SubSeq(H.story[id], k + 1, Len(H.story[id])), LAMBDA n : n # Lost)

\* A replay is called complete exactly when it holds every frame emitted since the
\* one the client saw last, in their order: all of them, but for the frames that
\* were lost, which the words "exactly what it missed" (gateway-server.ts:531) cover
\* too and the code does not.
ReplayHonest ==
  \A id \in Ids : \A k \in 0..Len(H.story[id]) :
    LET seen == IF k = 0 THEN 0 ELSE H.story[id][k]
    IN (k = 0 \/ seen # Lost) =>
         (~Truncated(id, seen) <=> Since(id, seen) = MissedAfter(id, k))

\* A batch of questions a reconnecting client is shown again still takes answers.
ReplayedPromptIsOpen ==
  \A id \in Ids : H.active[id] # NoTurn =>
    (H.turns[H.active[id]].pending = "clarify" => H.locks[H.active[id]] # {})

\* A prompt that waits for a turn.
PromptWaits == \E t \in DOMAIN H.waits : H.waits[t] # <<>>
=============================================================================
