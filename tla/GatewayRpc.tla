------------------------------ MODULE GatewayRpc ------------------------------
(***************************************************************************)
(* One gateway socket (src/services/gateway/gateway-rpc.ts) and the event  *)
(* queue of the turn that reads it (TurnEventQueue, dialSocket): numbered  *)
(* calls answered in any order, events, a heartbeat, and a leg that may go *)
(* half open: no frame arrives any more and no close either.               *)
(* Time passes in heartbeat intervals of 15 s: the deadline of silence is  *)
(* three of them, the timeout of a call two, that of the idle queue eight  *)
(* (120 s) here IdleIntervals.                                             *)
(***************************************************************************)
EXTENDS Naturals, Sequences

CONSTANTS MaxCalls, MaxEvents, IdleIntervals

VARIABLE link

L == link
Calls == 1..MaxCalls
Deadline == 3
CallTimeout == 2
Settled == {"resolved", "refused", "timeout", "lost", "unsent"}
Failed == 0

Init ==
  link = [socket |-> "opening", next |-> 1,
          call |-> [c \in Calls |-> "none"], age |-> [c \in Calls |-> 0],
          wire |-> {}, answered |-> {}, beating |-> FALSE, silence |-> 0,
          buffer |-> <<>>, closed |-> FALSE, reader |-> "away", idle |-> 0,
          events |-> 0, taken |-> <<>>]

Pending(l) == {c \in Calls : l.call[c] = "pending"}

Wake(l) == IF l.reader = "waiting" THEN [l EXCEPT !.reader = "woken"] ELSE l

Push(l, frame) == Wake([l EXCEPT !.buffer = Append(@, frame)])

\* GatewayRpc.fail(): every call in flight is settled, the heartbeat stops.
Fail(l) ==
  [l EXCEPT !.beating = FALSE, !.silence = 0,
            !.call = [c \in Calls |-> IF @[c] = "pending" THEN "lost" ELSE @[c]]]

\* handleMessage() notes the arrival before it looks at the frame.
Inbound(l) == [l EXCEPT !.silence = 0]

----------------------------------------------------------------------------
Open ==
  L.socket = "opening" /\ link' = [L EXCEPT !.socket = "open"]

\* The dial failed, was aborted or took too long: nobody gets the socket.
DialFails ==
  /\ L.socket = "opening"
  /\ link' = [L EXCEPT !.socket = "closed", !.reader = "gone"]

\* gateway.ready: the interval is started anew, on a gateway that knows pings.
Ready ==
  /\ L.socket = "open" /\ L.events < MaxEvents
  /\ \E heartbeat \in BOOLEAN :
       link' = [Push(Inbound([L EXCEPT !.events = @ + 1]), L.events + 1)
                  EXCEPT !.beating = @ \/ heartbeat]

\* call(): the socket may refuse the frame at once.
Call ==
  /\ L.socket # "opening" /\ L.reader # "gone" /\ L.next \in Calls
  /\ \E sent \in BOOLEAN :
       /\ sent => L.socket # "closed"
       /\ link' = [L EXCEPT !.next = @ + 1,
                            !.call[L.next] = IF sent THEN "pending" ELSE "unsent",
                            !.wire = IF sent THEN @ \cup {L.next} ELSE @]

\* A call into a socket that swallows the frame: only its timeout ends it.
CallSwallowed ==
  /\ L.socket \in {"half", "closed"} /\ L.reader # "gone" /\ L.next \in Calls
  /\ link' = [L EXCEPT !.next = @ + 1, !.call[L.next] = "pending"]

\* The answer to call c arrives: also one that has timed out already.
Answer(c) ==
  /\ L.socket = "open" /\ c \in L.wire
  /\ \E outcome \in {"resolved", "refused"} :
       LET l == Inbound([L EXCEPT !.wire = @ \ {c}, !.answered = @ \cup {<<c, outcome>>}])
       IN link' = IF L.call[c] = "pending" THEN [l EXCEPT !.call[c] = outcome] ELSE l

Event ==
  /\ L.socket = "open" /\ L.events < MaxEvents
  /\ link' = Push(Inbound([L EXCEPT !.events = @ + 1]), L.events + 1)

\* The network changes under the socket: it stays open and silent.
HalfOpens == L.socket = "open" /\ link' = [L EXCEPT !.socket = "half"]

\* socket.onerror and socket.onclose: the second follows the first.
SocketErrs ==
  /\ L.socket \in {"open", "half"}
  /\ link' = [Push(Fail(L), Failed) EXCEPT !.socket = "closed"]

SocketCloses ==
  /\ L.socket \in {"open", "half"} \/ (L.socket = "closed" /\ ~L.closed)
  /\ link' = [Wake([Fail(L) EXCEPT !.closed = TRUE]) EXCEPT !.socket = "closed"]

\* An interval passes: calls age and time out, the heartbeat looks at the
\* silence before it pings (a pong is one more frame), the idle reader waits.
Tick ==
  /\ L.socket # "opening"
  /\ \E pong \in BOOLEAN :
       /\ pong => L.beating /\ L.socket = "open"
       /\ LET aged == [L EXCEPT
                  !.age = [c \in Calls |-> IF L.call[c] = "pending" /\ L.age[c] + 1 < CallTimeout
                                           THEN @[c] + 1 ELSE 0],
                  !.call = [c \in Calls |-> IF @[c] = "pending" /\ L.age[c] + 1 >= CallTimeout
                                            THEN "timeout" ELSE @[c]],
                  !.silence = IF L.beating THEN @ + 1 ELSE 0,
                  !.idle = IF L.reader = "waiting" THEN @ + 1 ELSE 0]
              beat == IF ~L.beating THEN aged
                      ELSE IF aged.silence >= Deadline
                      THEN [Push(Fail(aged), Failed) EXCEPT !.socket = "closed"]
                      ELSE IF pong THEN [aged EXCEPT !.silence = 0] ELSE aged
          IN link' = IF beat.reader = "waiting" /\ beat.idle >= IdleIntervals
                     THEN [beat EXCEPT !.reader = "idled"] ELSE beat

----------------------------------------------------------------------------
\* TurnEventQueue.next(): a buffered frame, the end, or a wait.
QueueNext ==
  /\ L.socket # "opening" /\ L.reader = "away"
  /\ link' = IF L.buffer # <<>>
             THEN [L EXCEPT !.buffer = Tail(@),
                            !.taken = IF Head(L.buffer) = Failed THEN @ ELSE Append(@, Head(L.buffer)),
                            !.reader = IF Head(L.buffer) = Failed THEN "gone" ELSE "away"]
             ELSE IF L.closed THEN [L EXCEPT !.reader = "gone"]
             ELSE [L EXCEPT !.reader = "waiting", !.idle = 0]

\* The wait ends: by a frame, or because nothing came for the idle timeout.
Resume ==
  /\ L.reader \in {"woken", "idled"}
  /\ link' = IF L.buffer # <<>> \/ L.closed THEN [L EXCEPT !.reader = "away"]
             ELSE [L EXCEPT !.reader = "gone"]

\* The caller aborts: its wait ends and it closes the socket.
Abort ==
  /\ L.reader \in {"away", "waiting"} /\ L.socket \in {"open", "half"}
  /\ link' = [Fail(L) EXCEPT !.reader = "gone", !.closed = TRUE, !.socket = "closed"]

Next ==
  \/ Open \/ DialFails \/ Ready \/ Call \/ CallSwallowed \/ Event \/ HalfOpens
  \/ SocketErrs \/ SocketCloses \/ Tick \/ QueueNext \/ Resume \/ Abort
  \/ \E c \in Calls : Answer(c)

Fairness == WF_link(Tick) /\ WF_link(Resume)
Spec == Init /\ [][Next]_link /\ Fairness
----------------------------------------------------------------------------
\* A call ends with the gateway's answer to that call, or without one: a late
\* answer changes nothing, and the answer of another call never ends it.
OwnAnswer ==
  \A c \in Calls :
    L.call[c] \in {"resolved", "refused"} => <<c, L.call[c]>> \in L.answered

\* Once the socket is gone no call is in flight but those made afterwards, and
\* no reader sleeps over a frame or over the end of the stream.
NobodyLeftWaiting ==
  /\ L.socket = "closed" => \A c \in Pending(L) : c \notin L.wire
  /\ L.reader = "waiting" => L.buffer = <<>> /\ ~L.closed

\* Events reach the turn once each, in order.
EventsInOrder == \A i \in DOMAIN L.taken : L.taken[i] = i

\* Silence past the deadline does not go on unnoticed under a heartbeat.
SilenceNoticed == L.beating => L.silence < Deadline

\* A reader of a silent socket (its idle timer at the latest) and a call end.
Asleep == L.reader = "waiting" /\ L.socket = "half"
InFlight == Pending(L) # {}
=============================================================================
