-------------------------- MODULE RealtimeTransport --------------------------
(***************************************************************************)
(* One WebRTC session of a live call                                       *)
(* (src/services/realtime/react-native-realtime-transport.ts): prepare     *)
(* acquires the microphone and makes the offer, connect applies the answer *)
(* and waits for the peer, close releases everything.  The native peer,    *)
(* its channel and the microphone are external: every promise may resolve  *)
(* or reject, the peer may change its state at any time.                   *)
(***************************************************************************)
EXTENDS Naturals

CONSTANT MaxDrops \* times the connected peer is lost

VARIABLE transport

T == transport

Init ==
  transport = [at |-> "idle", aborted |-> FALSE, stream |-> "none", peer |-> "none",
               channel |-> "none", closed |-> FALSE, reconnect |-> "off", poll |-> "off",
               drops |-> 0, told |-> FALSE, late |-> FALSE]

HasSession(t) == t.peer # "none"

(* close(): handlers dropped, timers cleared, channel, peer and microphone *)
(* released, in one synchronous step.                                      *)
Close(t) ==
  IF t.closed THEN t
  ELSE [t EXCEPT !.closed = TRUE, !.reconnect = "off",
                 !.poll = IF @ = "armed" THEN "off" ELSE @,
                 !.channel = "closed", !.peer = "closed", !.stream = "released"]

\* The catch of prepare(): the session closes, or the bare stream is released.
Rejected(t) ==
  [(IF HasSession(t) THEN Close(t)
    ELSE [t EXCEPT !.stream = IF @ = "live" THEN "released" ELSE @]) EXCEPT !.at = "rejected"]

\* onEvent: `told` remembers that the owner heard of the present trouble,
\* `late` that it heard something of a closed session (history).
Emit(t) == [t EXCEPT !.told = TRUE, !.late = @ \/ t.closed]

----------------------------------------------------------------------------
Prepare ==
  /\ T.at = "idle"
  /\ transport' = [T EXCEPT !.at = IF T.aborted THEN "rejected" ELSE "permission"]

PermissionAnswered ==
  /\ T.at = "permission"
  /\ \/ ~T.aborted /\ transport' = [T EXCEPT !.at = "media"]
     \/ transport' = Rejected(T)

\* A stream that arrives after the abort is released at once; one without an
\* audio track is released by the catch.
MediaAnswered ==
  /\ T.at = "media"
  /\ \/ transport' = Rejected(T)
     \/ transport' = Rejected([T EXCEPT !.stream = "live"])
     \/ ~T.aborted /\ transport' = [T EXCEPT !.stream = "live", !.peer = "new",
                                             !.channel = "connecting", !.at = "offer"]

OfferMade ==
  /\ T.at = "offer"
  /\ transport' = IF T.aborted THEN Rejected(T) ELSE [T EXCEPT !.at = "ice"]

\* createOffer or setLocalDescription rejects.
OfferFails == T.at = "offer" /\ transport' = Rejected(T)

\* The gathering completes, fails its 12 s, or the offer is not valid.
IceSettles ==
  /\ T.at = "ice" /\ ~T.aborted
  /\ transport' = Rejected(T) \/ transport' = [T EXCEPT !.at = "prepared"]

\* The owner aborts; the two waits that listen to the signal reject at once.
Abort ==
  /\ ~T.aborted
  /\ LET t == [T EXCEPT !.aborted = TRUE]
     IN transport' = CASE T.at = "ice" -> Rejected(t)
                       [] T.at = "waiting" -> [t EXCEPT !.at = "failed"]
                       [] OTHER -> t

\* The owner closes a session it was given.
OwnerCloses ==
  /\ T.at \in {"prepared", "remote", "waiting", "connected", "failed"} /\ ~T.closed
  /\ transport' = Close(T)

Connect ==
  /\ T.at = "prepared"
  /\ transport' = IF T.closed \/ T.aborted THEN [T EXCEPT !.at = "failed"]
                  ELSE [Emit(T) EXCEPT !.at = "remote"]

RemoteSet ==
  /\ T.at = "remote"
  /\ \/ transport' = [T EXCEPT !.at = "failed"]
     \/ ~T.closed /\ transport' = [T EXCEPT !.at = IF T.aborted THEN "failed" ELSE "waiting"]

\* waitForConnected polls both states, and gives up on a failed or closed peer and
\* after 30 s, whatever the two have come to by then.
WaitEnds ==
  /\ T.at = "waiting"
  /\ \/ /\ T.peer = "connected" /\ T.channel = "open"
        /\ transport' = [Emit(T) EXCEPT !.at = "connected", !.poll = "armed"]
     \/ transport' = [T EXCEPT !.at = "failed"]

----------------------------------------------------------------------------
PeerChanges_ClearsOnAny(state) ==
  /\ HasSession(T) /\ ~T.closed /\ T.peer # state /\ T.peer # "failed"
  /\ state = "disconnected" => T.drops < MaxDrops
  /\ transport' = [Emit(T) EXCEPT
       !.peer = state, !.told = state # "disconnected",
       !.drops = IF state = "disconnected" THEN @ + 1 ELSE @,
       !.reconnect = "off"]

\* onconnectionstatechange, while its handler is attached.
PeerChanges(state) ==
  /\ HasSession(T) /\ ~T.closed /\ T.peer # state /\ T.peer # "failed"
  /\ state = "disconnected" => T.drops < MaxDrops
  /\ transport' = [Emit(T) EXCEPT
       !.peer = state,
       !.drops = IF state = "disconnected" THEN @ + 1 ELSE @,
       !.told = state # "disconnected",
       !.reconnect = CASE state = "disconnected" -> "armed"
                       [] state \in {"connected", "failed"} -> "off"
                       [] OTHER -> @]

\* The 15 s after a disconnection: reported unless the peer recovered.
ReconnectTimeout ==
  /\ T.reconnect = "armed"
  /\ transport' = LET t == [T EXCEPT !.reconnect = "off"]
                  IN IF T.closed \/ T.peer = "connected" THEN t ELSE Emit(t)

ChannelOpens ==
  /\ T.channel = "connecting" /\ transport' = [T EXCEPT !.channel = "open"]

\* An error or an unexpected end of the event channel is reported.
ChannelEnds ==
  /\ T.channel \in {"connecting", "open"} /\ ~T.closed
  /\ transport' = [Emit(T) EXCEPT !.channel = "closed", !.told = T.told]

PollAudioLevels ==
  \/ T.poll = "armed" /\ transport' = [T EXCEPT !.poll = "reading"]
  \/ /\ T.poll = "reading"
     /\ transport' = [T EXCEPT !.poll = IF T.closed THEN "off" ELSE "armed"]

Setup == PermissionAnswered \/ MediaAnswered \/ OfferMade \/ OfferFails \/ IceSettles

Next ==
  \/ Prepare \/ Setup \/ Abort \/ OwnerCloses \/ Connect \/ RemoteSet \/ WaitEnds
  \/ \E s \in {"connecting", "connected", "disconnected", "failed"} : PeerChanges(s)
  \/ ReconnectTimeout \/ ChannelOpens \/ ChannelEnds \/ PollAudioLevels

Spec == Init /\ [][Next]_transport /\ WF_transport(ReconnectTimeout)
----------------------------------------------------------------------------
(* What prepare() acquired it gives back when it rejects, wherever the     *)
(* abort or the native failure came; and a closed session holds nothing.   *)
MicrophoneReleased ==
  T.at = "rejected" \/ T.closed =>
    T.stream # "live" /\ T.peer \in {"none", "closed"} /\ T.reconnect = "off"

(* A closed session is silent: nothing is reported to the owner and the    *)
(* level poll is not armed again.                                          *)
ClosedIsSilent == T.closed => ~T.late /\ T.poll # "armed"

(* A peer that stays disconnected is reported: by its timer, or it         *)
(* recovers, or the session is closed first.                               *)
Disconnected == T.peer = "disconnected" /\ ~T.told
DisconnectionReported == Disconnected ~> ~Disconnected
=============================================================================
