------------------------------- MODULE Sideband -------------------------------
(***************************************************************************)
(* services/realtime/openai-realtime-sideband: the JSON event socket that  *)
(* runs beside one live call's audio.  It turns the provider's events into *)
(* a view of who is talking, hands the model's tool calls to the           *)
(* dispatcher, and lets Hermes results and progress notes through only     *)
(* while that view says nobody talks.  The socket is a pair of FIFO        *)
(* channels, so the view lags behind.  The provider (voice activity        *)
(* detection with create_response and interrupt_response, as the backend   *)
(* configures it) and the dispatcher are external.                         *)
(***************************************************************************)
EXTENDS Integers, Sequences, SequencesExt

CONSTANTS
  MaxNotes,      \* MAX_PROGRESS_NOTES_PER_CALL
  MaxCalls,      \* bound: tool calls the model issues
  MaxTurns,      \* bound: user turns
  MaxResponses,  \* bound: responses the provider creates
  MaxInjections, \* bound: progress notes the dispatcher offers
  SendMayFail    \* may socket.send throw?

ASSUME SidebandConstants ==
  /\ {MaxNotes, MaxCalls, MaxTurns, MaxResponses, MaxInjections} \subseteq Nat
  /\ SendMayFail \in BOOLEAN

Calls == 1..MaxCalls
Items == 1..MaxTurns
Responses == 1..MaxResponses

\* An unsent progress note; only the latest is kept.
Notes == {"none", "note", "suppressed"}

\* Events for the provider; session.update is ToolSurface's.
Message ==
  [type : {"output"}, call : Calls] \cup [type : {"note"}, note : Notes]
  \cup [type : {"create"}]

\* Events from the provider.
Event ==
  [type : {"speech_started", "speech_stopped"}]
  \cup [type : {"item"}, item : Items]
  \cup [type : {"created"}, response : Responses]
  \cup [type : {"done"}, response : Responses, calls : Seq(Calls)]

VARIABLES
  sideband,      \* the fields of OpenAiRealtimeSideband
  handed,        \* history: the tool calls handed to the dispatcher, with the user item
  injected,      \* progress notes the dispatcher offered
  fromProvider,  \* events the sideband has not handled yet
  speaking,      \* the user is speaking, as the provider hears it
  active,        \* the response the provider is generating; 0: none
  items,         \* user items in the conversation so far
  responses,     \* for each response created, the user item it follows
  issued,        \* for each tool call the model made, its response
  conversation   \* Wave's outputs and notes, as the model received them

provider == <<speaking, active, items, responses, issued, conversation>>
vars == <<sideband, handed, injected, fromProvider, provider>>

Fields ==
  [closed : BOOLEAN, latestUserItemId : Items \cup {0},
   pendingProgressNote : Notes, pendingResults : Seq(Calls),
   progressNotesSent : Nat, progressSuppressed : BOOLEAN,
   responseInProgress : BOOLEAN, userSpeaking : BOOLEAN,
   responseUserItems : [Responses -> Items \cup {0}],
   submitted : Seq(Calls),  \* history: calls given to sendFunctionResult
   socket : Seq(Message)]   \* sent, not handled by the provider yet

Init ==
  /\ sideband = [closed |-> FALSE, latestUserItemId |-> 0,
                 pendingProgressNote |-> "none", pendingResults |-> <<>>,
                 progressNotesSent |-> 0, progressSuppressed |-> FALSE,
                 responseInProgress |-> FALSE, userSpeaking |-> FALSE,
                 responseUserItems |-> [r \in Responses |-> 0],
                 submitted |-> <<>>, socket |-> <<>>]
  /\ handed = <<>> /\ injected = 0 /\ fromProvider = <<>>
  /\ speaking = FALSE /\ active = 0 /\ items = 0
  /\ responses = <<>> /\ issued = <<>> /\ conversation = <<>>

-----------------------------------------------------------------------------
(* Sending.  Each operator maps the sideband's fields to the set of fields it *)
(* may leave, one for every way the socket behaves.                           *)

Gated(s) == s.closed \/ s.responseInProgress \/ s.userSpeaking

Failures(outcomes) == IF SendMayFail THEN outcomes ELSE {}

\* A note the socket refuses is dropped, and not counted.
FlushProgress(s) ==
  LET cleared == [s EXCEPT !.pendingProgressNote = "none"]
  IN IF Gated(s) \/ s.pendingProgressNote = "none" THEN {s}
     ELSE {[cleared EXCEPT !.progressNotesSent = @ + 1,
              !.socket = Append(@, [type |-> "note", note |-> s.pendingProgressNote])]}
          \cup Failures({cleared})

Outputs(calls) == [i \in DOMAIN calls |-> [type |-> "output", call |-> calls[i]]]

Create == [type |-> "create"]

SendResults_Resends(s) ==
  LET out == Outputs(s.pendingResults)
  IN {[s EXCEPT !.socket = @ \o Append(out, Create), !.responseInProgress = TRUE]}

\* Every queued result, then one response.create, in progress from now on.  The
\* socket may throw at any of these sends: the sideband closes.
SendResults(s) ==
  LET out == Outputs(s.pendingResults)
  IN {[s EXCEPT !.socket = @ \o Append(out, Create), !.pendingResults = <<>>,
                !.responseInProgress = TRUE]}
     \cup Failures({[s EXCEPT !.socket = @ \o SubSeq(out, 1, n), !.closed = TRUE] :
                      n \in 0 .. Len(out) - 1})
     \cup Failures({[s EXCEPT !.socket = @ \o out, !.pendingResults = <<>>, !.closed = TRUE]})

FlushResults(s) ==
  IF Gated(s) THEN {s}
  ELSE UNION {IF t.pendingResults = <<>> THEN {t} ELSE SendResults(t) : t \in FlushProgress(s)}

SendFunctionResult(s, c) ==
  IF s.closed THEN {s}
  ELSE FlushResults([s EXCEPT !.pendingResults = Append(@, c), !.submitted = Append(@, c)])

\* Past the budget the dispatcher's next note becomes the one suppression marker.
InjectProgressNote(s) ==
  IF s.closed \/ (s.progressNotesSent >= MaxNotes /\ s.progressSuppressed) THEN {s}
  ELSE IF s.progressNotesSent >= MaxNotes
       THEN FlushProgress([s EXCEPT !.progressSuppressed = TRUE,
                                    !.pendingProgressNote = "suppressed"])
       ELSE FlushProgress([s EXCEPT !.pendingProgressNote = "note"])

\* A function-call listener: the dispatcher may answer at once (a refusal).
Listener(s, c) == {s} \cup SendFunctionResult(s, c)

-----------------------------------------------------------------------------
(* handleMessage *)

\* The tool calls of a response, one after the other.
Dispatch(s, calls) ==
  LET listen(states, c) == UNION {Listener(t, c) : t \in states}
  IN FoldLeft(listen, {s}, calls)

ResponseDone_KeepsFlag(s, event) ==
  UNION {FlushResults(t) : t \in Dispatch(s, event.calls)}

Ended(s, event) ==
  [s EXCEPT !.responseInProgress = FALSE, !.responseUserItems[event.response] = 0]

ResponseDone_NoFlush(s, event) == Dispatch(Ended(s, event), event.calls)

\* response.done: the flag first, then the tool calls one by one, then a flush.
ResponseDone(s, event) ==
  UNION {FlushResults(t) : t \in Dispatch(Ended(s, event), event.calls)}

Handle(s, event) ==
  CASE event.type = "speech_started" -> {[s EXCEPT !.userSpeaking = TRUE]}
    [] event.type = "speech_stopped" -> FlushResults([s EXCEPT !.userSpeaking = FALSE])
    [] event.type = "item"           -> {[s EXCEPT !.latestUserItemId = event.item]}
    [] event.type = "created"        ->
         {[s EXCEPT !.responseInProgress = TRUE,
                    !.responseUserItems[event.response] = s.latestUserItemId]}
    [] event.type = "done"           -> ResponseDone(s, event)

UserItemOf_Latest(s, event) == s.latestUserItemId

\* The user item a response's tool calls are attributed to.
UserItemOf(s, event) == s.responseUserItems[event.response]

\* After markClosed events still arrive and are handled, to no effect on the
\* socket; the model stops handling them.
HandleMessage ==
  /\ ~sideband.closed /\ fromProvider # <<>>
  /\ LET event == Head(fromProvider)
     IN /\ sideband' \in Handle(sideband, event)
        /\ handed' = IF event.type # "done" THEN handed
                     ELSE handed \o [i \in DOMAIN event.calls |->
                            [call |-> event.calls[i], item |-> UserItemOf(sideband, event)]]
  /\ fromProvider' = Tail(fromProvider)
  /\ UNCHANGED <<injected, provider>>

Awaited == {handed[i].call : i \in DOMAIN handed} \ Range(sideband.submitted)

\* The dispatcher answers a call it was handed before.
Answer ==
  /\ ~sideband.closed
  /\ \E c \in Awaited : sideband' \in SendFunctionResult(sideband, c)
  /\ UNCHANGED <<handed, injected, fromProvider, provider>>

Inject ==
  /\ ~sideband.closed /\ injected < MaxInjections
  /\ injected' = injected + 1
  /\ sideband' \in InjectProgressNote(sideband)
  /\ UNCHANGED <<handed, fromProvider, provider>>

\* close(), or the socket's close event.
Close ==
  /\ ~sideband.closed
  /\ sideband' = [sideband EXCEPT !.closed = TRUE]
  /\ UNCHANGED <<handed, injected, fromProvider, provider>>

-----------------------------------------------------------------------------
(* The provider (external) *)

Emit(events) == fromProvider' = fromProvider \o events

Created(item) ==
  /\ Len(responses) < MaxResponses
  /\ responses' = Append(responses, item)
  /\ active' = Len(responses) + 1

\* Speech interrupts the response being generated.
UserStarts ==
  /\ ~speaking /\ items < MaxTurns
  /\ speaking' = TRUE /\ active' = 0
  /\ Emit(<<[type |-> "speech_started"]>>
          \o (IF active = 0 THEN <<>> ELSE <<[type |-> "done", response |-> active, calls |-> <<>>]>>))
  /\ UNCHANGED <<sideband, handed, injected, items, responses, issued, conversation>>

\* The end of a turn commits its item and, unless one is being generated
\* already, starts a response to it.
UserStops ==
  /\ speaking
  /\ speaking' = FALSE /\ items' = items + 1
  /\ LET turn == <<[type |-> "speech_stopped"], [type |-> "item", item |-> items + 1]>>
     IN \/ /\ active = 0
           /\ Created(items + 1)
           /\ Emit(Append(turn, [type |-> "created", response |-> Len(responses) + 1]))
        \/ /\ active # 0
           /\ Emit(turn)
           /\ UNCHANGED <<active, responses>>
  /\ UNCHANGED <<sideband, handed, injected, issued, conversation>>

\* A response ends with no, one or two tool calls.
ResponseEnds ==
  /\ active # 0
  /\ \E n \in 0..2 :
       /\ Len(issued) + n <= MaxCalls
       /\ issued' = issued \o [i \in 1..n |-> active]
       /\ Emit(<<[type |-> "done", response |-> active,
                  calls |-> [i \in 1..n |-> Len(issued) + i]]>>)
  /\ active' = 0
  /\ UNCHANGED <<sideband, handed, injected, speaking, items, responses, conversation>>

\* The provider reads its socket; it refuses a response.create while it is
\* generating, with an error event the sideband ignores.
ProviderReads ==
  /\ sideband.socket # <<>>
  /\ sideband' = [sideband EXCEPT !.socket = Tail(@)]
  /\ LET message == Head(sideband.socket)
     IN \/ /\ message.type # "create"
           /\ conversation' = Append(conversation, message)
           /\ UNCHANGED <<fromProvider, active, responses>>
        \/ /\ message.type = "create" /\ active = 0
           /\ Created(items)
           /\ Emit(<<[type |-> "created", response |-> Len(responses) + 1]>>)
           /\ UNCHANGED conversation
        \/ /\ message.type = "create" /\ active # 0
           /\ UNCHANGED <<fromProvider, active, responses, conversation>>
  /\ UNCHANGED <<handed, injected, speaking, items, issued>>

-----------------------------------------------------------------------------
Next ==
  \/ HandleMessage \/ Answer \/ Inject \/ Close
  \/ UserStarts \/ UserStops \/ ResponseEnds \/ ProviderReads

Spec == Init /\ [][Next]_vars

\* Socket events are dispatched, people stop talking, the model stops
\* answering, and AskHermes answers every call.
Fairness ==
  /\ WF_vars(HandleMessage) /\ WF_vars(Answer)
  /\ WF_vars(UserStops) /\ WF_vars(ResponseEnds) /\ WF_vars(ProviderReads)

FairSpec == Spec /\ Fairness

-----------------------------------------------------------------------------
\* Every variable has its type.
TypeOK ==
  /\ sideband \in Fields
  /\ handed \in Seq([call : Calls, item : Items \cup {0}]) /\ injected \in Nat
  /\ fromProvider \in Seq(Event)
  /\ speaking \in BOOLEAN /\ active \in Responses \cup {0} /\ items \in Items \cup {0}
  /\ responses \in Seq(Items \cup {0}) /\ issued \in Seq(Responses)
  /\ conversation \in Seq(Message)

OfType(kind, messages) ==
  FoldLeft(LAMBDA kept, m : IF m.type = kind THEN Append(kept, m) ELSE kept, <<>>, messages)

\* The calls whose output is in a sequence of messages.
Answering(messages) ==
  LET outputs == OfType("output", messages) IN [i \in DOMAIN outputs |-> outputs[i].call]

\* While the sideband is open no result is lost, repeated or reordered: what the
\* model received, what is under way and what is queued is what was submitted.
ResultsConserved ==
  ~sideband.closed =>
    /\ Answering(conversation \o sideband.socket) \o sideband.pendingResults = sideband.submitted
    /\ IsInjective(sideband.submitted)

\* Once the sideband has caught up with an idle provider it believes it is idle:
\* no refused response.create, interrupted response or mixed order of events
\* leaves the gate shut.
GateReopens ==
  (/\ ~sideband.closed /\ fromProvider = <<>> /\ sideband.socket = <<>>
   /\ active = 0 /\ ~speaking) => ~Gated(sideband) /\ sideband.pendingResults = <<>>

\* A tool call is attributed to the user item its response followed at the
\* provider, whatever was said between the response and its end.
CallsBoundToTheirItem ==
  \A i \in DOMAIN handed : handed[i].item = responses[issued[handed[i].call]]

\* At most the budget of notes reaches the socket, then one suppression marker,
\* and nothing after it.
NotesWithinBudget ==
  LET notes == OfType("note", conversation \o sideband.socket)
  IN /\ Len(notes) <= MaxNotes + 1
     /\ \A i \in DOMAIN notes : notes[i].note = "suppressed" => i = MaxNotes + 1

\* What the sideband owes its two sides, in every state: well-formed books, no
\* result lost, doubled or reordered, and no note over the budget.
DeliveriesKept == TypeOK /\ ResultsConserved /\ NotesWithinBudget

\* Every result submitted reaches the model unless the sideband closes.
EventuallyDelivered ==
  \A c \in Calls :
    c \in Range(sideband.submitted) ~>
      (sideband.closed \/ c \in Range(Answering(conversation)))
=============================================================================
