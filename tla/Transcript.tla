------------------------------ MODULE Transcript ------------------------------
(***************************************************************************)
(* services/gateway/gateway-turn-events (GatewayTurnTranslator) and        *)
(* features/chat/chat-state (waveChatReducer, applyEvent): how one gateway *)
(* frame changes the assistant row on the screen.  The translator gives    *)
(* zero or more Wave events for a frame and the reducer applies them; the  *)
(* hook dispatches them in order, so here a frame acts on both at once.    *)
(*                                                                         *)
(* A view is the pair of states: trans (the translator) and chat (the      *)
(* reducer).  A text is the sequence of the streamed pieces it consists    *)
(* of; a tool call, a prompt and a plan are numbers.  The 50 ms delta      *)
(* batching of the hook is left out: it flushes before any other event.    *)
(***************************************************************************)
EXTENDS Integers, Sequences, SequencesExt

TextPart(t, isSealed) == [type |-> "text", text |-> t, sealed |-> isSealed]
TaskPart(id, s) == [type |-> "task", message |-> id, status |-> s]

\* A translator for one assistant message, before its first frame.
NewTranslator(message) ==
  [message |-> message, content |-> <<>>, lastInterim |-> <<>>, pending |-> 0,
   completed |-> FALSE]

\* The reducer's state after dispatching 'send' or 'resume'.
FreshRow == [parts |-> <<>>, prompt |-> 0, plan |-> 0, status |-> "submitting"]

NoRow == [parts |-> <<>>, prompt |-> 0, plan |-> 0, status |-> "idle"]

Words(part) == IF part.type = "text" THEN part.text ELSE <<>>

\* Everything the row says, in order.
RowText(chat) == FoldLeft(LAMBDA said, part : said \o Words(part), <<>>, chat.parts)

-----------------------------------------------------------------------------
(* The parts of the assistant row. *)

OpenText(part) == part.type = "text" /\ ~part.sealed

\* appendAssistantText
Appended(parts, t) ==
  LET n == Len(parts)
  IN  IF n > 0 /\ OpenText(parts[n])
      THEN [parts EXCEPT ![n].text = @ \o t]
      ELSE Append(parts, TextPart(t, FALSE))

\* reconcileSegmentText
Reconciled(streamed, final) ==
  IF IsPrefix(final, streamed) THEN streamed ELSE final

\* Mutant: the sealed segment stays open for the next delta.
SealedText_LeavesOpen(parts, t) ==
  LET n == SelectLastInSeq(parts, OpenText)
  IN  IF n = 0 THEN Append(parts, TextPart(t, FALSE))
      ELSE [parts EXCEPT ![n] = TextPart(Reconciled(@.text, t), FALSE)]

\* sealAssistantText
SealedText(parts, t) ==
  LET n == SelectLastInSeq(parts, OpenText)
  IN  IF n = 0 THEN Append(parts, TextPart(t, TRUE))
      ELSE [parts EXCEPT ![n] = TextPart(Reconciled(@.text, t), TRUE)]

\* replaceAssistantText
Replaced(parts, t) ==
  LET n == SelectLastInSeq(parts, OpenText)
  IN  CASE n > 0 -> [parts EXCEPT ![n].text = t]
        [] n = 0 /\ t # <<>> -> Append(parts, TextPart(t, FALSE))
        [] OTHER -> parts

\* replaceLastInterimText
InterimReplaced(parts, t) ==
  LET n == SelectLastInSeq(parts, LAMBDA p : p.type = "text" /\ p.sealed)
  IN  IF n = 0 THEN Replaced(parts, t) ELSE [parts EXCEPT ![n] = TextPart(t, FALSE)]

\* updateTaskPart: a tool's task is found by the message id and the tool's
\* name, and a finished task is not started again.
TaskUpdated(parts, message, s) ==
  LET n == SelectLastInSeq(parts, LAMBDA p : p.type = "task" /\ p.message = message)
      starts == s = "started"
      status == IF s = "complete" THEN "complete" ELSE "running"
  IN  IF n > 0 /\ ~(starts /\ parts[n].status = "complete")
      THEN [parts EXCEPT ![n].status = status]
      ELSE Append(parts, TaskPart(message, status))

-----------------------------------------------------------------------------
(* Wave events, applied to a view. *)

Streaming(v, parts) ==
  [v EXCEPT !.chat.parts = parts, !.chat.status = "streaming"]

\* start(), reduced: 'turn.started'.
Start(v, message) ==
  [trans |-> NewTranslator(message), chat |-> [v.chat EXCEPT !.status = "streaming"]]

\* resolvePendingPrompt, and 'prompt.resolved'
ResolvePendingPrompt(v) ==
  [v EXCEPT !.trans.pending = 0,
            !.chat.prompt = IF v.trans.pending # 0 /\ @ = v.trans.pending
                            THEN 0 ELSE @]

\* A prompt replaces the one shown before.
ShowPrompt(v, p) ==
  LET r == ResolvePendingPrompt(v)
  IN  [r EXCEPT !.trans.pending = p, !.chat.prompt = p, !.chat.status = "streaming"]

Delta(v, t) ==
  LET r == ResolvePendingPrompt(v)
  IN  Streaming([r EXCEPT !.trans.content = @ \o t], Appended(r.chat.parts, t))

Interim(v, t) ==
  LET r == ResolvePendingPrompt(v)
  IN  Streaming([r EXCEPT !.trans.content = <<>>, !.trans.lastInterim = t],
                SealedText(r.chat.parts, t))

\* The plan is a whole snapshot; one older than the plan shown is dropped.
TodoSnapshot(v, revision) ==
  [v EXCEPT !.chat.plan = IF revision < @ THEN @ ELSE revision]

Tool(v, s) ==
  LET r == IF s = "started" THEN v ELSE ResolvePendingPrompt(v)
  IN  Streaming(r, TaskUpdated(r.chat.parts, r.trans.message, s))

\* 'turn.completed' leaves the row streaming until the hook settles it.
TurnCompleted(v) ==
  [v EXCEPT !.trans.completed = TRUE, !.chat.prompt = 0, !.chat.plan = 0,
            !.chat.status = "streaming"]

\* finish(): the message's final text takes the open segment's place, or that
\* of the interim it finalizes.
Finish(v, t, previewed) ==
  LET r == ResolvePendingPrompt(v)
      finalizes == /\ previewed
                   /\ t # <<>>
                   /\ r.trans.lastInterim # <<>>
                   /\ r.trans.content = <<>>
                   /\ IsPrefix(r.trans.lastInterim, t)
  IN  IF v.trans.completed THEN v
      ELSE TurnCompleted(Streaming(r, IF finalizes THEN InterimReplaced(r.chat.parts, t)
                                      ELSE Replaced(r.chat.parts, t)))

\* finishWithTurnError(): only a partial answer is shown, then 'turn.error'.
FinishWithTurnError(v, t) ==
  LET r == ResolvePendingPrompt(v)
      parts == IF t = <<>> THEN r.chat.parts ELSE Replaced(r.chat.parts, t)
  IN  [r EXCEPT !.trans.completed = TRUE,
                !.chat = [parts |-> parts, prompt |-> 0, plan |-> 0, status |-> "error"]]

\* An expiry settles only the prompt it names.
Expire(v, p) == IF v.trans.pending = p THEN ResolvePendingPrompt(v) ELSE v

\* translate(): a frame that arrives after the end is ignored.
Translate(v, frame) ==
  IF v.trans.completed THEN v
  ELSE CASE frame.type = "delta" -> Delta(v, frame.text)
         [] frame.type = "interim" -> Interim(v, frame.text)
         [] frame.type = "tool.start" -> Tool(v, "started")
         [] frame.type = "tool.progress" -> Tool(v, "progress")
         [] frame.type = "tool.complete" -> Tool(v, "complete")
         [] frame.type = "todo" -> TodoSnapshot(v, frame.ref)
         [] frame.type = "prompt" -> ShowPrompt(v, frame.seq)
         [] frame.type = "expire" -> Expire(v, frame.ref)
         [] frame.type = "complete" -> Finish(v, frame.text, frame.previewed)
         [] frame.type = "error" -> FinishWithTurnError(v, frame.text)

\* Mutant: a prompt raised while nobody was attached is not shown.
ReplayPendingPrompts_Skips(v, p) == v

\* replayPendingPrompts(): the prompt a resume snapshot says still blocks.
ReplayPendingPrompts(v, p) ==
  IF v.trans.completed \/ p = 0 THEN v ELSE ShowPrompt(v, p)

-----------------------------------------------------------------------------
(* What the hook dispatches when a stream is over. *)

\* Mutant: the prompt outlives the stream.
TransportError_KeepsPrompt(chat) == [chat EXCEPT !.status = "error"]

TransportError(chat) == [chat EXCEPT !.prompt = 0, !.status = "error"]

TimelineReconciled(chat) == [chat EXCEPT !.parts = <<>>]

Settled(chat) ==
  IF chat.status = "error" THEN chat ELSE [chat EXCEPT !.prompt = 0, !.status = "idle"]
===============================================================================
