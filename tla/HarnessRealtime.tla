--------------------------- MODULE HarnessRealtime ---------------------------
(***************************************************************************)
(* The scripted OpenAI Realtime call of the voice harness: one sideband    *)
(* socket plays the steps of a script while the client sends function      *)
(* results and asks for responses.  Beside it are the doors of the         *)
(* harness: rotating access tokens, single-use socket tickets, and the     *)
(* call ids that a sideband is let in with.                                *)
(***************************************************************************)
EXTENDS Integers, SequencesExt

CONSTANTS MaxSteps, MaxCreates, MaxIssued

VARIABLE fake

F == fake
StepTypes == {"function_call", "assistant_speech", "wait_function_result", "wait_response_create"}

\* produced: responses announced and ended; creates: responses asked for;
\* calls/results: function calls made and answered; unanswered: the requests no
\* response has come after; unasked: the responses that came when none was waiting.
NoSocket == [isOpen |-> FALSE, running |-> FALSE, waits |-> "nothing", produced |-> 0,
             creates |-> 0, calls |-> 0, results |-> 0, steps |-> 0,
             unanswered |-> 0, unasked |-> 0]

\* expired: tickets that are too old; opened: what each ticket let in.
Init ==
  fake = [socket |-> NoSocket, issued |-> 0, known |-> {}, signedIn |-> {}, tokens |-> 0,
          tickets |-> {}, minted |-> 0, expired |-> {}, opened |-> [t \in 1..MaxIssued |-> 0]]

----------------------------------------------------------------------------
(* The doors.                                                              *)

\* A sign-in, and every authenticated answer, issues a pair; older ones are kept.
issueTokens ==
  /\ F.tokens < MaxIssued
  /\ fake' = [F EXCEPT !.tokens = @ + 1, !.signedIn = @ \cup {F.tokens + 1}]

mintTicket ==
  /\ F.signedIn # {} /\ F.minted < MaxIssued
  /\ fake' = [F EXCEPT !.minted = @ + 1, !.tickets = @ \cup {F.minted + 1}]

TicketExpires(t) == /\ t \in F.tickets \ F.expired /\ fake' = [F EXCEPT !.expired = @ \cup {t}]

consumeTicket(t) == F.tickets \ {t}

\* An upgrade takes the ticket whether or not it is still in time.
Upgrade(t) ==
  /\ t \in F.tickets
  /\ fake' = [F EXCEPT !.tickets = consumeTicket(t),
                       !.opened[t] = IF t \in F.expired THEN @ ELSE @ + 1]

\* An SDP exchange issues the id of a call.
StartCall ==
  /\ F.issued < MaxIssued
  /\ fake' = [F EXCEPT !.issued = @ + 1, !.known = @ \cup {F.issued + 1}]

reset ==
  /\ F.known \cup F.signedIn \cup F.tickets # {}
  /\ fake' = [F EXCEPT !.known = {}, !.signedIn = {}, !.tickets = {}]

----------------------------------------------------------------------------
(* The sideband.                                                           *)
Open ==
  /\ F.known # {} /\ ~F.socket.isOpen /\ F.socket.steps = 0
  /\ fake' = [F EXCEPT !.socket = [NoSocket EXCEPT !.isOpen = TRUE, !.running = TRUE]]

\* A response is announced and ended by the step that makes it.  It answers a
\* request that waits, and comes unasked when none does.
Responds(s) ==
  IF s.unanswered > 0 THEN [s EXCEPT !.produced = @ + 1, !.unanswered = @ - 1]
  ELSE [s EXCEPT !.produced = @ + 1, !.unasked = @ + 1]

Ready == F.socket.isOpen /\ F.socket.running /\ F.socket.waits = "nothing"

runStep(type) ==
  /\ Ready /\ F.socket.steps < MaxSteps
  /\ LET counted == [F.socket EXCEPT !.steps = @ + 1]
     IN fake' = [F EXCEPT !.socket =
          CASE type = "function_call" -> [Responds(counted) EXCEPT !.calls = @ + 1]
            [] type = "assistant_speech" -> Responds(counted)
            [] type = "wait_function_result" -> [counted EXCEPT !.waits = "result"]
            [] type = "wait_response_create" -> [counted EXCEPT !.waits = "response"]]

\* A wait is over with the next message of its kind.
wakeWaiters(s, kind) == IF s.waits = kind THEN [s EXCEPT !.waits = "nothing"] ELSE s

\* Every request that is not covered yet is answered.
Flushed(s) ==
  FoldLeft(LAMBDA t, i : Responds(t), s, [i \in 1..(s.creates - s.produced) |-> i])

ScriptEnds ==
  /\ Ready
  /\ fake' = [F EXCEPT !.socket = [Flushed(@) EXCEPT !.running = FALSE]]

Resulted(s) == wakeWaiters([s EXCEPT !.results = @ + 1], "result")

FunctionResult ==
  /\ F.socket.isOpen /\ F.socket.results < F.socket.calls
  /\ fake' = [F EXCEPT !.socket = Resulted(@)]

\* A request is answered by the script while it runs, and at once afterwards.
Requested(s) ==
  LET asked == [s EXCEPT !.creates = @ + 1, !.unanswered = @ + 1]
  IN IF s.running THEN wakeWaiters(asked, "response") ELSE Responds(asked)

ResponseCreate ==
  /\ F.socket.isOpen /\ F.socket.creates < MaxCreates
  /\ fake' = [F EXCEPT !.socket = Requested(@)]

Closes ==
  /\ F.socket.isOpen
  /\ fake' = [F EXCEPT !.socket.isOpen = FALSE, !.socket.waits = "nothing", !.socket.running = FALSE]

Next ==
  \/ issueTokens \/ mintTicket \/ StartCall \/ reset \/ Open
  \/ \E t \in 1..MaxIssued : TicketExpires(t) \/ Upgrade(t)
  \/ \E type \in StepTypes : runStep(type)
  \/ ScriptEnds \/ FunctionResult \/ ResponseCreate \/ Closes

Spec == Init /\ [][Next]_fake

----------------------------------------------------------------------------
\* When the script is over, a request is left without a response that came after it
\* only if the script had responded unasked before, and no oftener than it had: the
\* double counts requests against all responses, although its comment has it answer
\* any request the script did not cover (openai-realtime-fake.ts:294).
RequestsAnswered ==
  F.socket.isOpen /\ ~F.socket.running => F.socket.unanswered <= F.socket.unasked

\* Each ticket opens one socket at most, and none when it is too old.
TicketOpensOnce == \A t \in 1..MaxIssued : F.opened[t] <= 1
=============================================================================
