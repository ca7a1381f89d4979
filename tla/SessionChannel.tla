---------------------------- MODULE SessionChannel ----------------------------
(***************************************************************************)
(* One conversation as the gateway client addresses it (gateway-client):   *)
(* it starts as a placeholder, becomes a stored session at its first       *)
(* session.create, is reached through a live id the gateway gives it and   *)
(* may lose, and carries at most one registered turn stream, over which    *)
(* corrections and prompt answers go.  Every operation reads the session   *)
(* id before it dials its socket.  Stored and live ids are numbers; 0 is   *)
(* the placeholder, or none.  Pick 0 is the profile's model.               *)
(***************************************************************************)
EXTENDS Naturals

CONSTANTS MaxOperations, MaxSessions, MaxLive, Picks

VARIABLE channel

H == channel
Operations == 1..MaxOperations
Sessions == 1..MaxSessions
NoOp == [kind |-> "none", at |-> "none", sid |-> 0, live |-> 0, pick |-> 0]
NoStream == 0

Init ==
  channel = [resolved |-> 0, live |-> [s \in Sessions |-> 0], active |-> [s \in Sessions |-> NoStream],
             newest |-> [s \in Sessions |-> NoStream],
             pick |-> 0, op |-> [o \in Operations |-> NoOp], next |-> 1,
             created |-> 0, lives |-> 0, served |-> [s \in Sessions |-> 0],
             model |-> [s \in Sessions |-> 0], started |-> 0, running |-> [s \in Sessions |-> FALSE],
             deleted |-> {}, wanted |-> 0, latePick |-> FALSE, raced |-> FALSE,
             unseen |-> FALSE, broken |-> FALSE]

Begin(kind, at, pick) ==
  [H EXCEPT !.next = @ + 1,
            !.op[H.next] = [kind |-> kind, at |-> at, sid |-> H.resolved, pick |-> pick,
                            live |-> IF H.resolved = 0 THEN 0 ELSE H.live[H.resolved]]]

End(h, o) == [h EXCEPT !.op[o] = [NoOp EXCEPT !.at = "over"]]

CanBegin == H.next \in Operations
Exists(s) == s # 0 /\ s <= H.created /\ s \notin H.deleted
Creating == \E o \in Operations : H.op[o].at \in {"dial", "resolving"} /\ H.op[o].sid = 0

----------------------------------------------------------------------------
StreamTurn ==
  CanBegin /\ channel' = [Begin("turn", "dial", 0) EXCEPT !.raced = @ \/ (Creating /\ H.resolved = 0)]

\* branchSession, executeSlashCommand, compressSession, getSessionModelContext:
\* a live session, then one call on it.
Command ==
  /\ CanBegin
  /\ channel' = [Begin("command", "dial", 0) EXCEPT !.raced = @ \/ (Creating /\ H.resolved = 0)]

\* setSessionModel, setSessionReasoning, setSessionFastMode: kept locally for a
\* placeholder.
SetSessionModel(m) ==
  /\ CanBegin
  /\ channel' =
       IF H.resolved = 0
       THEN [H EXCEPT !.pick = m, !.wanted = m,
                      !.latePick = @ \/ \E o \in Operations : H.op[o].at = "resolving" /\ H.op[o].sid = 0]
       ELSE Begin("model", "dial", m)

\* resumeTurnStream, after getActiveTurn saw a turn.
ResumeTurnStream ==
  CanBegin /\ H.resolved # 0 /\ channel' = Begin("resume", "dial", 0)

\* cancelTurn: through the live id known when it is called.
CancelTurn ==
  CanBegin /\ H.resolved # 0 /\ channel' = Begin("cancel", "dial", 0)

\* deleteSession: refused here while a stream is registered.
DeleteSession ==
  /\ CanBegin /\ H.resolved # 0 /\ H.active[H.resolved] = NoStream
  /\ channel' = Begin("delete", "dial", 0)

----------------------------------------------------------------------------
\* openSocket() of an operation ends: session.create goes out with the pick of
\* that moment.  The delete's probe takes any failure for an idle session.
Dialled(o) ==
  /\ H.op[o].at = "dial"
  /\ channel' = IF H.op[o].kind \in {"cancel", "delete"} THEN [H EXCEPT !.op[o].at = "calling"]
                ELSE [H EXCEPT !.op[o].at = "resolving",
                               !.op[o].pick = IF H.op[o].sid = 0 THEN H.pick ELSE @]

DialFails(o) ==
  /\ H.op[o].at = "dial"
  /\ channel' = IF H.op[o].kind = "delete"
                THEN [H EXCEPT !.op[o].at = "confirmed", !.unseen = TRUE] ELSE End(H, o)

\* A stream registers itself for its session.
Register(h, o, s, live) ==
  [h EXCEPT !.active[s] = o, !.newest[s] = o,
            !.op[o] = [@ EXCEPT !.at = "streaming", !.sid = s, !.live = live]]

Continue(h, o, s, live) ==
  CASE h.op[o].kind = "turn" -> [Register(h, o, s, live) EXCEPT
                                      !.running[s] = TRUE,
                                      !.unseen = @ \/ \E p \in Operations : h.op[p].at = "confirmed"]
    [] h.op[o].kind = "resume" -> IF h.running[s] THEN Register(h, o, s, live) ELSE End(h, o)
    [] OTHER -> [h EXCEPT !.op[o] = [@ EXCEPT !.at = "calling", !.sid = s, !.live = live]]

\* resolveLiveSession() of a placeholder: the local pick is forgotten with the
\* answer.
Created(o) ==
  /\ H.op[o].at = "resolving" /\ H.op[o].sid = 0
  /\ H.created < MaxSessions /\ H.lives < MaxLive
  /\ LET s == H.created + 1
         live == H.lives + 1
     IN channel' = Continue([H EXCEPT !.created = s, !.lives = live, !.served[s] = live,
                                      !.model[s] = H.op[o].pick, !.pick = 0,
                                      !.started = IF s = 1 THEN H.op[o].pick ELSE @,
                                      !.resolved = s, !.live[s] = live], o, s, live)

\* session.resume: the gateway's live id, a new one after it restarted.
Resumed(o) ==
  /\ H.op[o].at = "resolving" /\ Exists(H.op[o].sid)
  /\ LET s == H.op[o].sid
         fresh == H.served[s] = 0
         live == IF fresh THEN H.lives + 1 ELSE H.served[s]
     IN /\ fresh => H.lives < MaxLive
        /\ channel' = Continue([H EXCEPT !.lives = IF fresh THEN live ELSE @, !.served[s] = live,
                                         !.live[s] = live], o, s, live)

\* The RPC is refused, times out, or its socket goes.
CallFails(o) ==
  /\ H.op[o].at \in {"resolving", "calling"}
  /\ channel' = IF H.op[o].kind = "delete"
                THEN [H EXCEPT !.op[o].at = "confirmed", !.unseen = TRUE] ELSE End(H, o)

\* config.set, session.interrupt, a command: they act on the live id they
\* carry, if the gateway still serves it.
CallAnswered(o) ==
  /\ H.op[o].at = "calling" /\ H.op[o].kind # "delete"
  /\ LET s == H.op[o].sid
         served == H.op[o].live # 0 /\ H.served[s] = H.op[o].live /\ s \notin H.deleted
     IN channel' = [End(H, o) EXCEPT
                      !.model[s] = IF served /\ H.op[o].kind = "model" THEN H.op[o].pick ELSE @,
                      !.running[s] = @ /\ ~(served /\ H.op[o].kind = "cancel")]

\* session.active_list answers the delete's probe.
Probed(o) ==
  /\ H.op[o].at = "calling" /\ H.op[o].kind = "delete"
  /\ channel' = IF H.running[H.op[o].sid] THEN End(H, o) ELSE [H EXCEPT !.op[o].at = "confirmed"]

\* The DELETE: of what the probe saw, whatever began since.
Deleted(o) ==
  /\ H.op[o].at = "confirmed"
  /\ LET s == H.op[o].sid
     IN channel' = [End(H, o) EXCEPT !.deleted = @ \cup {s},
                                     !.broken = @ \/ (H.running[s] /\ ~H.unseen)]

----------------------------------------------------------------------------
\* The finally block: the registration goes unless a newer stream holds it.
Unregister(h, o) ==
  LET s == h.op[o].sid
  IN [End(h, o) EXCEPT !.active[s] = IF @ = o THEN NoStream ELSE @]

\* The turn ends at the gateway; a stream that follows it sees that, or is
\* cut off, or is aborted, while the turn goes on.
TurnEnds(s) == H.running[s] /\ channel' = [H EXCEPT !.running[s] = FALSE]

StreamEnds(o) == H.op[o].at = "streaming" /\ channel' = Unregister(H, o)

GatewayRestarts ==
  /\ H.created > 0 /\ \E s \in Sessions : H.served[s] # 0
  /\ channel' = [H EXCEPT !.served = [s \in Sessions |-> 0], !.running = [s \in Sessions |-> FALSE]]

Next ==
  \/ StreamTurn \/ Command \/ ResumeTurnStream \/ CancelTurn \/ DeleteSession \/ GatewayRestarts
  \/ \E m \in Picks : SetSessionModel(m)
  \/ \E o \in Operations :
       \/ Dialled(o) \/ DialFails(o) \/ Created(o) \/ Resumed(o) \/ CallFails(o)
       \/ CallAnswered(o) \/ Probed(o) \/ Deleted(o) \/ StreamEnds(o)
  \/ \E s \in Sessions : TurnEnds(s)

Spec == Init /\ [][Next]_channel
----------------------------------------------------------------------------
Streams(s) == {o \in Operations : H.op[o].at = "streaming" /\ H.op[o].sid = s}

\* Corrections and prompt answers go to an open stream of the session, and the
\* end of an older stream takes the channel from no newer one.
ChannelIsOpen ==
  \A s \in Sessions :
    /\ H.active[s] # NoStream => H.active[s] \in Streams(s)
    /\ H.newest[s] \in Streams(s) => H.active[s] = H.newest[s]

\* The model picked for a placeholder is the one its session starts with, also
\* after a session.create that failed: unless it was picked while one was out.
PickReachesSession ==
  H.created > 0 /\ ~H.latePick => H.started = H.wanted

\* A conversation becomes a second stored session only when two operations
\* set out before the first one had resolved it.
OneStoredSession == H.created > 1 => H.raced

\* No running turn is deleted, but one that began after the probe had answered,
\* or that a failed probe did not see.
DeleteSeesTheTurn == ~H.broken
=============================================================================
