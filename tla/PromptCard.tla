----------------------------- MODULE PromptCard -----------------------------
(***************************************************************************)
(* A prompt in the middle of a turn: the gateway blocks on it, the turn's  *)
(* frames raise and settle a card (gateway-turn-events.ts, chat-state.ts), *)
(* the user fills it in (prompt-card.tsx, prompt-choice.ts), and the       *)
(* answer goes out on the socket of the turn, one request for a plain      *)
(* prompt and one for each question of a batch (chat-screen.tsx,           *)
(* respondToPrompt() of gateway-client.ts).  Chat and voice mode share the *)
(* card.  The gateway names its approvals (v0.20.5); it runs one turn and  *)
(* blocks on one prompt at a time, as resolvePendingPrompt() supposes.     *)
(***************************************************************************)
EXTENDS Naturals, Sequences, FiniteSets

CONSTANTS Kinds,        \* of "approval", "clarify", "batch", "secret", "integration in voice mode"
          MaxPrompts, MaxCalls, MaxDrops, MaxFrames

VARIABLE ask
A == ask

\* A secret is only ever declined, and so is an integration; but voice mode does not
\* hand its card the server of an integration, and the card has nothing to send.
\* A batch has two questions.
Asked(kind) == IF kind = "batch" THEN {1, 2} ELSE {1}
Questions == {1, 2}
Nobody == [q \in Questions |-> 0]
Elsewhere == 9

\* kind: of each prompt raised; open: the one the gateway blocks on, 0 for none;
\* lock: which call of ours answered each question of a prompt, or another client;
\* frames: under way to the client; pending: of the translator; shown: the card;
\* stage: the questions filled in, each with the prompt that was on the screen;
\* status: the one slot of the screen for busy and error, and whether it has lost
\* the busy of a call under way.
Init ==
  ask = [kind |-> <<>>, open |-> 0, lock |-> <<>>, running |-> TRUE,
         attached |-> TRUE, drops |-> 0, frames |-> <<>>, pending |-> 0, shown |-> 0,
         stage |-> Nobody, status |-> [prompt |-> 0, busy |-> FALSE], forgot |-> FALSE,
         calls |-> <<>>]

Sent(type, p) == IF A.attached THEN Append(A.frames, [type |-> type, prompt |-> p]) ELSE A.frames

Room == Len(A.frames) < MaxFrames

\* The last question that is locked ends the wait.
Locked(x, p, locks) ==
  [x EXCEPT !.lock[p] = locks, !.open = IF 0 \in {locks[q] : q \in Asked(x.kind[p])} THEN @ ELSE 0]

----------------------------------------------------------------------------
(* The gateway.                                                            *)
Raise ==
  /\ A.running /\ A.open = 0 /\ Len(A.kind) < MaxPrompts /\ Room
  /\ LET p == Len(A.kind) + 1
     IN \E kind \in Kinds :
          ask' = [A EXCEPT !.kind = Append(@, kind), !.open = p, !.lock = Append(@, Nobody),
                           !.frames = Sent("request", p)]

\* The wait runs out.  An approval that does sends no frame of its own.
Expires ==
  /\ A.open # 0 /\ Room
  /\ ask' = [A EXCEPT !.open = 0,
                      !.frames = IF A.kind[A.open] = "approval" THEN @ ELSE Sent("expire", A.open)]

\* Another client answers a question, and no frame says so.
AnsweredElsewhere ==
  /\ A.open # 0
  /\ \E q \in Asked(A.kind[A.open]) :
       A.lock[A.open][q] = 0 /\ ask' = Locked(A, A.open, [A.lock[A.open] EXCEPT ![q] = Elsewhere])

\* The turn goes on, and a frame proves that the wait is over.
Works == /\ A.running /\ A.open = 0 /\ A.frames = <<>> /\ A.attached
         /\ A.pending # 0
         /\ ask' = [A EXCEPT !.frames = Sent("work", 0)]

TurnEnds == /\ A.running /\ A.open = 0 /\ Room
            /\ ask' = [A EXCEPT !.running = FALSE, !.frames = Sent("end", 0)]

----------------------------------------------------------------------------
(* The stream and the card.                                                *)

\* stageLockedClarifyAnswers(): a batch that is shown again has the answers the
\* gateway holds already.
stageLockedClarifyAnswers(p, locks) == [q \in Questions |-> IF locks[q] = 0 THEN 0 ELSE p]

\* 'prompt.request'.  The form is keyed by the prompt: another prompt mounts a
\* form of its own, and the same prompt shown again keeps what is filled in.
ShowCard(x, p, locks) ==
  [x EXCEPT !.pending = p, !.shown = p,
            !.stage = IF x.shown = p THEN @ ELSE stageLockedClarifyAnswers(p, locks)]

\* The card goes, and what was filled in with it.
Hidden(x) == [x EXCEPT !.shown = 0, !.stage = Nobody]

\* 'prompt.resolved'
ResolvePendingPrompt(x) ==
  LET settled == [x EXCEPT !.pending = 0]
  IN IF x.pending # 0 /\ x.shown = x.pending THEN Hidden(settled) ELSE settled

Deliver ==
  /\ A.frames # <<>>
  /\ LET f == Head(A.frames)
         x == [A EXCEPT !.frames = Tail(@)]
     IN ask' = CASE f.type = "request" -> ShowCard(ResolvePendingPrompt(x), f.prompt, Nobody)
                 [] f.type = "expire" ->
                      IF x.pending = f.prompt THEN ResolvePendingPrompt(x) ELSE x
                 [] f.type = "work" -> ResolvePendingPrompt(x)
                 [] f.type = "end" -> [Hidden(x) EXCEPT !.pending = 0, !.attached = FALSE]

Done(call) == [call EXCEPT !.at = "done", !.left = <<>>, !.answers = Nobody]

\* setPromptStatus() of a call that was rejected.
Rejected(x, c) ==
  [x EXCEPT !.calls[c] = Done(@),
            !.forgot = @ \/ (x.status.busy /\ x.status.prompt # x.calls[c].prompt),
            !.status = [prompt |-> x.calls[c].prompt, busy |-> FALSE]]

Out == {c \in DOMAIN A.calls : A.calls[c].at # "done"}

\* The socket is lost; what a call sent may have arrived or not.
Drop ==
  /\ A.attached /\ A.drops < MaxDrops
  /\ LET x == [A EXCEPT !.attached = FALSE, !.frames = <<>>, !.drops = @ + 1]
         after[c \in 0..Len(A.calls)] ==
           IF c = 0 THEN x
           ELSE IF c \in Out THEN Rejected(after[c - 1], c) ELSE after[c - 1]
     IN ask' = after[Len(A.calls)]

\* resumeTurnStream(): a translator of its own, and the prompt the snapshot says
\* still blocks; or the turn is gone.
Reattach ==
  /\ ~A.attached /\ A.drops > 0 /\ (A.running \/ A.shown # 0)
  /\ LET x == [A EXCEPT !.attached = A.running, !.pending = 0]
     IN ask' = CASE ~A.running -> Hidden(x)
                 [] A.running /\ A.open = 0 -> x
                 [] OTHER -> ShowCard(x, A.open, A.lock[A.open])

promptBusy == A.status.prompt = A.shown /\ A.status.busy

\* A question of the form is filled in, or emptied.
Fill ==
  /\ A.shown # 0 /\ ~promptBusy /\ A.kind[A.shown] \in {"clarify", "batch"}
  /\ \E q \in Asked(A.kind[A.shown]), p \in {0, A.shown} : ask' = [A EXCEPT !.stage[q] = p]

\* An answer goes out, one request for each question of a batch in their order; a
\* skip and an answer to a plain prompt name no question, which is 0 here.
Respond(kinds, answers, requests) ==
  /\ A.shown # 0 /\ ~promptBusy /\ A.kind[A.shown] \in kinds /\ Len(A.calls) < MaxCalls
  /\ ask' = [A EXCEPT !.status = [prompt |-> A.shown, busy |-> TRUE],
                      !.calls = Append(@, [prompt |-> A.shown, answers |-> answers, left |-> requests,
                                           at |-> IF A.attached THEN "sent" ELSE "lost"])]

\* One tap: an approval, a choice of a plain question, a decline, a skip.
Choose == Respond(Kinds \ {"integration in voice mode"}, [q \in Questions |-> A.shown], <<0>>)

\* Send: what is filled in, once everything is.
SendAnswer == A.stage[1] # 0 /\ Respond({"clarify"}, A.stage, <<0>>)
SendAll == (\A q \in Questions : A.stage[q] # 0) /\ Respond({"batch"}, A.stage, <<1, 2>>)

\* No turn is streaming: 'This prompt is no longer waiting.'
NotWaiting == \E c \in Out : A.calls[c].at = "lost" /\ ask' = Rejected(A, c)

\* A request reaches the gateway: an answer to the prompt that blocks is taken,
\* one to a prompt that is over is refused or ignored.
Taken(c) ==
  LET p == A.calls[c].prompt
      q == Head(A.calls[c].left)
  IN Locked([A EXCEPT !.calls[c].at = "taken"], p,
            IF q = 0 THEN [r \in Questions |-> c] ELSE [A.lock[p] EXCEPT ![q] = c])

Arrives ==
  \E c \in Out :
    /\ A.attached /\ A.calls[c].at = "sent"
    /\ \/ A.open = A.calls[c].prompt /\ ask' = Taken(c)
       \/ /\ A.open # A.calls[c].prompt
          /\ \E reply \in {"taken", "refused"} : ask' = [A EXCEPT !.calls[c].at = reply]

\* The reply comes back: the next question of the batch is sent, or the call is over.
Returns ==
  \E c \in Out :
    \/ A.calls[c].at = "refused" /\ ask' = Rejected(A, c)
    \/ /\ A.calls[c].at = "taken"
       /\ LET left == Tail(A.calls[c].left)
          IN ask' = [A EXCEPT !.calls[c] = IF left = <<>> THEN Done(@)
                                           ELSE [@ EXCEPT !.left = left, !.at = "sent"]]

Next ==
  \/ Raise \/ Expires \/ AnsweredElsewhere \/ Works \/ TurnEnds
  \/ Deliver \/ Drop \/ Reattach
  \/ Fill \/ Choose \/ SendAnswer \/ SendAll \/ NotWaiting \/ Arrives \/ Returns

Spec == Init /\ [][Next]_ask
----------------------------------------------------------------------------
\* What answers a question was chosen while the prompt it belongs to was on the
\* screen, and never something filled in for another.
AnswerIsForItsPrompt ==
  \A p \in DOMAIN A.kind : \A q \in Asked(A.kind[p]) :
    A.lock[p][q] \in Out => A.calls[A.lock[p][q]].answers[q] = p

\* A batch that is settled with answers of this client has those of one press of
\* Send, unless the slot of the screen had lost a press that was under way.
BatchIsOnePress ==
  \A p \in DOMAIN A.kind :
    LET by == {A.lock[p][q] : q \in Asked(A.kind[p])}
    IN p # A.open /\ ~A.forgot /\ by \subseteq DOMAIN A.calls => Cardinality(by) = 1

\* While the turn waits on the prompt that is shown, the user can answer it, or
\* an answer is on its way.
CardStaysUsable ==
  (A.attached /\ A.frames = <<>> /\ A.shown # 0 /\ A.shown = A.open)
    => ~promptBusy \/ \E c \in Out : A.calls[c].prompt = A.shown
=============================================================================
