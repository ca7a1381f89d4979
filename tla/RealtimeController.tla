-------------------------- MODULE RealtimeController --------------------------
(***************************************************************************)
(* features/realtime/realtime-controller: owner of one live voice call on  *)
(* the phone.  It opens a transport session (microphone and WebRTC peer),  *)
(* has the backend create the provider's call, re-offers when the          *)
(* connection is lost, and closes both again.  Every await is a point      *)
(* where the user, a timer, the transport or another continuation may run; *)
(* what a continuation may still do is decided by the operation number and *)
(* the abort signal.  Attempt n is the n-th establish(): its transport     *)
(* session and its provider call are both called n.                        *)
(***************************************************************************)
EXTENDS Integers, Sequences, FiniteSets

CONSTANTS
  MaxReconnectAttempts,  \* MAX_RECONNECT_ATTEMPTS
  MaxOperations,         \* bound: start() and stop() calls that count
  MaxAttempts            \* bound: establish() calls

ASSUME ControllerConstants ==
  {MaxReconnectAttempts, MaxOperations, MaxAttempts} \subseteq Nat \ {0}

Activities == {"listening", "user_speaking", "assistant_speaking"}

Phases == Activities \cup
  {"connecting", "error", "idle", "reconnecting", "requesting_permission", "stopping"}

Operations == 0..MaxOperations
Ids == 1..MaxAttempts

VARIABLES
  phase, cleanupPending, microphoneEnabled,
  operation, abortController, callId, failingOperation, transportSession,
  expiryTimer, reconnectTimer,   \* the operation that set the timer; 0: none
  reconnecting,
  loop,      \* the reconnect loop: its operation, attempt and await
  attempts,  \* every establish(), with its abort signal and transport session
  ending,    \* endRealtimeCall promises, with the continuation that awaits each
  calls,     \* calls the backend created and did not end
  \* History, read by no action: what the properties below must name.
  outlived,  \* operations whose reconnect loop went on after failAndCleanup
  refused,   \* calls whose hang-up by finishCall was refused
  forgotten, \* calls callId lost to another call, or to a refused finishCall
  swallowed  \* operations whose peer failed while an older one's loop was running

state == <<phase, cleanupPending, microphoneEnabled>>
timers == <<expiryTimer, reconnectTimer>>
recovery == <<reconnecting, loop>>
history == <<outlived, refused, forgotten, swallowed>>
vars == <<state, operation, abortController, callId, failingOperation, transportSession,
          timers, recovery, attempts, ending, calls, history>>

\* lost: the session's own timer runs, because its peer is disconnected.
Attempt == [op : Operations, via : {"start", "loop"},
            at : {"preparing", "starting", "connecting", "finishing", "over"},
            aborted : BOOLEAN, open : BOOLEAN, track : BOOLEAN, lost : BOOLEAN]

Ending == [by : {"stop", "fail", "failLoop", "finish"}, call : Ids, op : Operations]

NoLoop == [op |-> 0, attempt |-> 0, at |-> "none"]

Init ==
  /\ phase = "idle" /\ cleanupPending = FALSE /\ microphoneEnabled = TRUE
  /\ operation = 0 /\ abortController = 0 /\ callId = 0
  /\ failingOperation = 0 /\ transportSession = 0
  /\ expiryTimer = 0 /\ reconnectTimer = 0
  /\ reconnecting = FALSE /\ loop = NoLoop
  /\ attempts = <<>> /\ ending = {} /\ calls = {}
  /\ outlived = {} /\ refused = {} /\ forgotten = {} /\ swallowed = {}

-----------------------------------------------------------------------------
IsCurrent_SignalOnly(op) == abortController \notin {n \in DOMAIN attempts : attempts[n].aborted}

\* isCurrent: the operation is the latest and the newest signal is not aborted.
\* A failure drops the signal, after which only the number counts.
IsCurrent(op) ==
  op = operation /\ abortController \notin {n \in DOMAIN attempts : attempts[n].aborted}

\* replaceState(INITIAL_STATE with a phase).
Reset(next, pending) ==
  phase' = next /\ cleanupPending' = pending /\ microphoneEnabled' = TRUE

Patch(next) == phase' = next /\ UNCHANGED <<cleanupPending, microphoneEnabled>>

Shut_LeavesOpen(att) ==
  [n \in DOMAIN att |-> [att[n] EXCEPT !.aborted = @ \/ n = abortController]]

\* Abort the newest signal and close the transport session.
Shut(att) ==
  [n \in DOMAIN att |-> [att[n] EXCEPT !.aborted = @ \/ n = abortController,
                                       !.open = @ /\ n # transportSession,
                                       !.lost = @ /\ n # transportSession]]

\* Bound: each loop that runs or is about to run keeps its attempts reserved.
Room(k) ==
  LET loops == (IF reconnecting THEN 1 ELSE 0) + (IF reconnectTimer # 0 THEN 1 ELSE 0)
  IN Len(attempts) + loops * MaxReconnectAttempts + k <= MaxAttempts

NewAttempt(op, via) ==
  /\ attempts' = Append(attempts, [op |-> op, via |-> via, at |-> "preparing",
                                   aborted |-> FALSE, open |-> FALSE, track |-> TRUE,
                                   lost |-> FALSE])
  /\ abortController' = Len(attempts) + 1

Over(n) == [attempts EXCEPT ![n].at = "over"]

LeaveLoop == reconnecting' = FALSE /\ loop' = NoLoop

\* failAndCleanup up to its await, or to its end when there is no call to end.
\* A failure of an operation that is being cleaned up already adds nothing.
Fail(op, att, by) ==
  /\ \/ /\ failingOperation = op
        /\ UNCHANGED outlived
        /\ attempts' = att
        /\ IF by = "failLoop" THEN LeaveLoop ELSE UNCHANGED recovery
        /\ UNCHANGED <<state, abortController, transportSession, timers, failingOperation, ending>>
     \/ /\ failingOperation # op
        /\ outlived' = IF by = "fail" /\ loop.op = op THEN outlived \cup {op} ELSE outlived
        /\ attempts' = Shut(att)
        /\ abortController' = 0 /\ transportSession' = 0
        /\ expiryTimer' = 0 /\ reconnectTimer' = 0
        /\ \/ /\ callId = 0
              /\ Reset("error", FALSE)
              /\ failingOperation' = 0
              /\ IF by = "failLoop" THEN LeaveLoop ELSE UNCHANGED recovery
              /\ UNCHANGED ending
           \/ /\ callId # 0
              /\ ending' = ending \cup {[by |-> by, call |-> callId, op |-> op]}
              /\ failingOperation' = op
              /\ UNCHANGED <<state, recovery>>
  /\ UNCHANGED <<operation, callId, calls, refused, forgotten, swallowed>>

Reoffer_Forgets(op, k, att) ==
  /\ Patch("reconnecting")
  /\ attempts' = Shut(att)
  /\ transportSession' = 0 /\ callId' = 0
  /\ reconnecting' = TRUE /\ loop' = [op |-> op, attempt |-> k, at |-> "delay"]
  /\ UNCHANGED <<operation, abortController, failingOperation, expiryTimer, ending, calls, history>>

\* The top of the reconnect loop for the given attempt, up to its delay.
Reoffer(op, k, att) ==
  /\ Patch("reconnecting")
  /\ attempts' = Shut(att)
  /\ transportSession' = 0 /\ callId' = 0
  /\ ending' = IF callId = 0 THEN ending
               ELSE ending \cup {[by |-> "finish", call |-> callId, op |-> op]}
  /\ reconnecting' = TRUE /\ loop' = [op |-> op, attempt |-> k, at |-> "delay"]
  /\ UNCHANGED <<operation, abortController, failingOperation, expiryTimer, calls, history>>

-----------------------------------------------------------------------------
(* start and establish *)

Start ==
  /\ phase \in {"idle", "error"}
  /\ \/ /\ callId # 0
        /\ phase' = "error" /\ cleanupPending' = TRUE
        /\ UNCHANGED <<microphoneEnabled, operation, abortController, callId, failingOperation,
                       transportSession, timers, recovery, attempts, ending, calls, history>>
     \/ /\ callId = 0 /\ operation < MaxOperations /\ Room(1)
        /\ operation' = operation + 1
        /\ Reset("requesting_permission", FALSE)
        /\ NewAttempt(operation + 1, "start")
        /\ UNCHANGED <<callId, failingOperation, transportSession, timers, recovery,
                       ending, calls, history>>

At(n, at) == attempts[n].at = at

\* Another call takes callId, or the end of another one clears it.
Loses(c) ==
  forgotten' = forgotten \cup {n \in {callId} \ {0} : attempts[n].op # attempts[c].op}

\* establish() of attempt n returned; a re-offer that returns ends the loop.
Returned(n) ==
  IF attempts[n].via = "loop" /\ loop.op = attempts[n].op /\ loop.at = "establishing"
  THEN LeaveLoop ELSE UNCHANGED recovery

PrepareResolves(n) ==
  /\ At(n, "preparing")
  /\ \/ /\ IsCurrent(attempts[n].op)
        /\ transportSession' = n
        /\ attempts' = [attempts EXCEPT ![n].open = TRUE, ![n].at = "starting"]
        /\ Patch("connecting")
        /\ UNCHANGED recovery
     \/ /\ ~IsCurrent(attempts[n].op)
        /\ attempts' = Over(n)
        /\ Returned(n)
        /\ UNCHANGED <<state, transportSession>>
  /\ UNCHANGED <<operation, abortController, callId, failingOperation, timers, ending,
                 calls, history>>

\* An abort may come when the answer has: prepare and startRealtimeCall may
\* resolve after it.  The call id is stored before the operation is looked at.
StartResolves(n) ==
  /\ At(n, "starting")
  /\ callId' = n /\ calls' = calls \cup {n}
  /\ Loses(n)
  /\ \/ /\ IsCurrent(attempts[n].op)
        /\ attempts' = [attempts EXCEPT ![n].at = "connecting"]
        /\ expiryTimer' = attempts[n].op
        /\ UNCHANGED ending
     \/ /\ ~IsCurrent(attempts[n].op)
        /\ attempts' = [attempts EXCEPT ![n].at = "finishing"]
        /\ ending' = ending \cup {[by |-> "finish", call |-> n, op |-> attempts[n].op]}
        /\ UNCHANGED expiryTimer
  /\ UNCHANGED <<state, operation, abortController, failingOperation, transportSession,
                 reconnectTimer, recovery, outlived, refused, swallowed>>

ConnectResolves(n) ==
  /\ At(n, "connecting") /\ attempts[n].open /\ ~attempts[n].aborted
  /\ attempts' = Over(n)
  /\ IF IsCurrent(attempts[n].op) THEN Patch("listening") ELSE UNCHANGED state
  /\ Returned(n)
  /\ UNCHANGED <<operation, abortController, callId, failingOperation, transportSession,
                 timers, ending, calls, history>>

\* The rejected attempt was the start's: the call failed.
StartThrows(n, op) ==
  /\ attempts[n].via = "start"
  /\ \/ IsCurrent(op) /\ Fail(op, Over(n), "fail")
     \/ /\ ~IsCurrent(op)
        /\ attempts' = Over(n)
        /\ UNCHANGED <<state, operation, abortController, callId, failingOperation,
                       transportSession, timers, recovery, ending, calls, history>>

ReofferThrows_Silent(n, op) ==
  /\ attempts[n].via = "loop"
  /\ attempts' = Over(n)
  /\ LeaveLoop
  /\ UNCHANGED <<state, operation, abortController, callId, failingOperation,
                 transportSession, timers, ending, calls, history>>

\* The rejected attempt was a re-offer: try again, fail, or find that the
\* operation is over.
ReofferThrows(n, op) ==
  /\ attempts[n].via = "loop"
  /\ \/ /\ op = operation /\ loop.attempt + 1 < MaxReconnectAttempts
        /\ Reoffer(op, loop.attempt + 1, Over(n))
        /\ UNCHANGED reconnectTimer
     \/ /\ op = operation /\ loop.attempt + 1 = MaxReconnectAttempts
        /\ Fail(op, Over(n), "failLoop")
     \/ /\ op # operation
        /\ attempts' = Over(n)
        /\ LeaveLoop
        /\ UNCHANGED <<state, operation, abortController, callId, failingOperation,
                       transportSession, timers, ending, calls, history>>

\* prepare, startRealtimeCall or connect rejects.
EstablishThrows(n) ==
  /\ \E at \in {"preparing", "starting", "connecting"} : At(n, at)
  /\ StartThrows(n, attempts[n].op) \/ ReofferThrows(n, attempts[n].op)

\* The delay of the reconnect loop is over; the transport has long rejected a
\* connect() that was aborted before it.
LoopWakes ==
  /\ loop.at = "delay"
  /\ \A n \in DOMAIN attempts : ~(attempts[n].aborted /\ At(n, "connecting"))
  /\ \/ /\ loop.op = operation
        /\ NewAttempt(loop.op, "loop")
        /\ loop' = [loop EXCEPT !.at = "establishing"]
        /\ UNCHANGED reconnecting
     \/ /\ loop.op # operation
        /\ LeaveLoop
        /\ UNCHANGED <<attempts, abortController>>
  /\ UNCHANGED <<state, operation, callId, failingOperation, transportSession, timers,
                 ending, calls, history>>

-----------------------------------------------------------------------------
(* stop and the answers of endRealtimeCall *)

Stop_WaitsForNothing ==
  /\ phase # "idle" \/ callId # 0
  /\ operation < MaxOperations
  /\ operation' = operation + 1
  /\ failingOperation' = 0 /\ abortController' = 0 /\ transportSession' = 0
  /\ expiryTimer' = 0 /\ reconnectTimer' = 0
  /\ attempts' = Shut(attempts)
  /\ Patch("stopping")
  /\ ending' = IF callId = 0 THEN ending
               ELSE ending \cup {[by |-> "stop", call |-> callId, op |-> operation + 1]}
  /\ UNCHANGED <<callId, recovery, calls, history>>

Stop ==
  /\ phase # "idle" \/ callId # 0
  /\ operation < MaxOperations
  /\ operation' = operation + 1
  /\ failingOperation' = 0 /\ abortController' = 0 /\ transportSession' = 0
  /\ expiryTimer' = 0 /\ reconnectTimer' = 0
  /\ attempts' = Shut(attempts)
  /\ IF callId = 0
     THEN Reset("idle", FALSE) /\ UNCHANGED ending
     ELSE /\ Patch("stopping")
          /\ ending' = ending \cup {[by |-> "stop", call |-> callId, op |-> operation + 1]}
  /\ UNCHANGED <<callId, recovery, calls, history>>

\* What the continuation that awaited the end of a call does to callId.
Forget(e) ==
  CASE e.by = "stop"   -> IF e.op = operation THEN 0 ELSE callId
    [] e.by = "finish" -> IF callId = e.call THEN 0 ELSE callId
    [] OTHER           -> 0

Ended(e) ==
  /\ e \in ending
  /\ ending' = ending \ {e}
  /\ \E ok \in BOOLEAN :
       /\ calls' = IF ok THEN calls \ {e.call} ELSE calls
       /\ callId' = IF ok THEN Forget(e) ELSE callId
       /\ refused' = IF ~ok /\ e.by = "finish" THEN refused \cup {e.call} ELSE refused
       /\ CASE ok /\ callId' # callId -> Loses(e.call)
            [] ~ok /\ e.by = "finish" /\ callId # e.call -> forgotten' = forgotten \cup {e.call}
            [] OTHER -> UNCHANGED forgotten
       /\ IF e.op # operation \/ e.by = "finish" THEN UNCHANGED <<state, failingOperation>>
          ELSE /\ IF e.by = "stop" /\ ok THEN Reset("idle", FALSE) ELSE Reset("error", ~ok)
               /\ failingOperation' = IF failingOperation = e.op THEN 0 ELSE failingOperation
  /\ \/ /\ e.by = "finish" /\ At(e.call, "finishing")
        /\ attempts' = Over(e.call)
        /\ Returned(e.call)
     \/ /\ ~(e.by = "finish" /\ At(e.call, "finishing"))
        /\ IF e.by = "failLoop" THEN LeaveLoop ELSE UNCHANGED recovery
        /\ UNCHANGED attempts
  /\ UNCHANGED <<operation, abortController, transportSession, timers, outlived, swallowed>>

-----------------------------------------------------------------------------
(* Timers, the transport's events and the microphone button *)

ExpiryFires == expiryTimer = operation /\ operation # 0 /\ Stop

\* reconnect(operation): one loop at a time.
Reconnect(op) == ~reconnecting /\ Reoffer(op, 0, attempts)

Idle == UNCHANGED <<state, operation, abortController, callId, failingOperation, transportSession,
                    expiryTimer, recovery, attempts, ending, calls, history>>

GraceOver(op) == IsCurrent(op) /\ phase = "reconnecting"

GraceFires ==
  /\ reconnectTimer # 0
  /\ reconnectTimer' = 0
  /\ \/ GraceOver(reconnectTimer) /\ Reconnect(reconnectTimer)
     \/ (~GraceOver(reconnectTimer) \/ reconnecting) /\ Idle

\* An event of the session of attempt n, while its operation is current.
Heard(n) ==
  attempts[n].open /\ attempts[n].at \in {"connecting", "over"} /\ IsCurrent(attempts[n].op)

Quietly == UNCHANGED <<operation, abortController, callId, failingOperation, transportSession,
                       expiryTimer, recovery, ending, calls, outlived, refused, forgotten>>

Activity(n) ==
  /\ Heard(n)
  /\ \E activity \in Activities : Patch(activity)
  /\ UNCHANGED <<reconnectTimer, attempts, swallowed>>
  /\ Quietly

Connected(n) ==
  /\ Heard(n)
  /\ Patch("listening")
  /\ reconnectTimer' = 0
  /\ attempts' = [attempts EXCEPT ![n].lost = FALSE]
  /\ Quietly /\ UNCHANGED swallowed

Disconnected(n) ==
  /\ Heard(n) /\ Room(MaxReconnectAttempts)
  /\ Patch("reconnecting")
  /\ reconnectTimer' = IF reconnectTimer = 0 /\ ~reconnecting THEN attempts[n].op ELSE reconnectTimer
  /\ attempts' = [attempts EXCEPT ![n].lost = TRUE]
  /\ Quietly /\ UNCHANGED swallowed

\* A failure while connecting is an error, a later one a re-offer, unless a loop
\* is running already, be it an older operation's in its delay.
Failed(n) ==
  /\ Heard(n) /\ Room(MaxReconnectAttempts)
  /\ LET att == [attempts EXCEPT ![n].lost = FALSE]
     IN \/ phase = "connecting" /\ Fail(attempts[n].op, att, "fail")
        \/ /\ phase # "connecting"
           /\ reconnectTimer' = 0
           /\ \/ ~reconnecting /\ Reoffer(attempts[n].op, 0, att)
              \/ /\ reconnecting /\ attempts' = att /\ UNCHANGED state
                 /\ swallowed' = swallowed \cup ({attempts[n].op} \ {loop.op})
                 /\ Quietly

\* The data channel fails, or an event is malformed.
ChannelError(n) ==
  /\ Heard(n)
  /\ Fail(attempts[n].op, attempts, "fail")

\* The session's own timer: its peer did not come back in time.
PeerTimesOut(n) ==
  /\ Heard(n) /\ attempts[n].lost
  /\ Fail(attempts[n].op, [attempts EXCEPT ![n].lost = FALSE], "fail")

\* A final transcript that is exactly a stop command.
StopPhrase(n) == Heard(n) /\ Stop

SetMicrophoneEnabled(enabled) ==
  /\ phase \notin {"idle", "stopping"} /\ enabled # microphoneEnabled
  /\ microphoneEnabled' = enabled
  /\ attempts' = [n \in DOMAIN attempts |->
                    IF n = transportSession THEN [attempts[n] EXCEPT !.track = enabled]
                    ELSE attempts[n]]
  /\ UNCHANGED <<phase, cleanupPending, operation, abortController, callId, failingOperation,
                 transportSession, timers, recovery, ending, calls, history>>

-----------------------------------------------------------------------------
Establish(n) ==
  PrepareResolves(n) \/ StartResolves(n) \/ ConnectResolves(n) \/ EstablishThrows(n)

TransportEvent(n) ==
  Activity(n) \/ Connected(n) \/ Disconnected(n) \/ Failed(n) \/ ChannelError(n) \/ StopPhrase(n)

Next ==
  \/ Start \/ Stop
  \/ \E n \in DOMAIN attempts : Establish(n) \/ TransportEvent(n) \/ PeerTimesOut(n)
  \/ \E e \in ending : Ended(e)
  \/ LoopWakes \/ GraceFires \/ ExpiryFires
  \/ \E enabled \in BOOLEAN : SetMicrophoneEnabled(enabled)

Spec == Init /\ [][Next]_vars

\* Native promises, the requests of a set-up (which have timeouts) and timers
\* settle.  Nothing obliges the user, the network, the call's expiry or a
\* hang-up: that request has neither a timeout nor a signal.
Fairness ==
  /\ \A n \in Ids : WF_vars(n \in DOMAIN attempts /\ Establish(n))
  /\ \A n \in Ids : WF_vars(n \in DOMAIN attempts /\ PeerTimesOut(n))
  /\ WF_vars(LoopWakes) /\ WF_vars(GraceFires)

FairSpec == Spec /\ Fairness

-----------------------------------------------------------------------------
\* Every variable has its type.
TypeOK ==
  /\ phase \in Phases /\ cleanupPending \in BOOLEAN /\ microphoneEnabled \in BOOLEAN
  /\ operation \in Operations /\ failingOperation \in Operations
  /\ {abortController, callId, transportSession} \subseteq Ids \cup {0}
  /\ {expiryTimer, reconnectTimer} \subseteq Operations
  /\ reconnecting \in BOOLEAN
  /\ loop \in [op : Operations, attempt : 0 .. MaxReconnectAttempts - 1,
              at : {"none", "delay", "establishing"}]
  /\ attempts \in Seq(Attempt) /\ Len(attempts) <= MaxAttempts
  /\ ending \subseteq Ending /\ calls \subseteq Ids
  /\ {outlived, swallowed} \subseteq SUBSET Operations /\ {refused, forgotten} \subseteq SUBSET Ids

OpenSessions == {n \in DOMAIN attempts : attempts[n].open}

\* Attempts of an operation whose loop ends when it fails, as a loop should.
Sound(n) == attempts[n].op \notin outlived

\* No microphone is left open behind the controller's back: a session that is
\* open is the one stop() and every failure will close.
OnlyOwnedSessionOpen == \A n \in OpenSessions : Sound(n) => n = transportSession

\* Nothing of a stopped call comes back: while idle or stopping no session is
\* open, no timer runs, and no pending promise counts as current.
StoppedStaysSilent ==
  phase \in {"idle", "stopping"} =>
    /\ \A n \in OpenSessions : ~Sound(n)
    /\ expiryTimer = 0 /\ reconnectTimer = 0
    /\ \A n \in DOMAIN attempts : At(n, "over") \/ attempts[n].op < operation

\* The microphone is where the controller says it is: the open session is its
\* own, and a stopped call leaves none and nothing that could open one.  The
\* sessions of an operation whose loop outlived its failure are excepted, and of
\* no other.
MediaOwned == TypeOK /\ OnlyOwnedSessionOpen /\ StoppedStaysSilent

\* "closes local media": a call that failed has no session open and none opens
\* later, but in an operation whose loop outlived its failure.
FailedStaysClosed == phase = "error" => \A n \in OpenSessions : ~Sound(n)

\* The same with no exception, as the documentation says it.
ErrorClosesMedia == phase = "error" => OpenSessions = {}

HungUpBy(by, n) == \E e \in ending : e.by \in by /\ e.call = n

\* "hung up explicitly on stop, error": a call the backend created is the one
\* callId names, or its hang-up has been asked for.
CallsAccountedFor ==
  \A n \in calls : Sound(n) /\ n \notin forgotten => n = callId \/ HungUpBy({"finish"}, n)

\* "A failed cleanup remains visible": the call named while idle, or while an
\* error is shown with nothing said of a cleanup, is being hung up by finishCall
\* or finishCall was refused it.
CleanupVisible ==
  phase = "idle" \/ (phase = "error" /\ ~cleanupPending) =>
    callId = 0 \/ ~Sound(callId) \/ HungUpBy({"finish"}, callId) \/ callId \in refused

\* Nobody pays for a call nobody is in, though hang-ups fail: each call is
\* accounted for, and the one left over is shown.
CallsHungUp == CallsAccountedFor /\ CleanupVisible

\* Every hang-up asked for is answered, one way or the other.
HangUpsAnswered == []<>(ending = {})

\* stop() ends: no late promise, timer or loop keeps the controller stopping,
\* when the hang-ups are answered.
StopEnds == HangUpsAnswered => (phase = "stopping" ~> phase \in {"idle", "error"})

\* A lost connection is never shown as being recovered for ever, when the
\* hang-ups are answered; but that of a call whose peer failed while the loop of
\* an older operation was running, for reconnect() lets one loop run at a time.
RecoveryEnds ==
  HangUpsAnswered =>
    (phase = "reconnecting" ~> phase # "reconnecting" \/ operation \in swallowed)
=============================================================================
