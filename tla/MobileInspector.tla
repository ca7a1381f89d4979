--------------------------- MODULE MobileInspector ---------------------------
(***************************************************************************)
(* The collector of the mobile agent (tools/mobile-agent): one inspector   *)
(* socket to the app that is discovered, opened, enabled, lost and dialled *)
(* again; the commands that wait for an answer on it; and the logs and     *)
(* requests it retains for a reader that polls with the last sequence      *)
(* number it was told.                                                     *)
(***************************************************************************)
EXTENDS Naturals, SequencesExt, FiniteSetsExt

CONSTANTS MaxSockets, MaxCalls, MaxSequence, Retained, Limit

VARIABLE inspector

I == inspector

\* socket: this.socket (0 none), one of `ready`; connect: how far connectPromise
\* is; call: a tool that needs the app; closing: the socket stop() waits for;
\* seen, told: what the reader was given, and whether it was told of a cut.
Init ==
  inspector = [socket |-> 0, ready |-> <<>>, heard |-> {}, state |-> "disconnected",
               stopped |-> FALSE, closing |-> 0, connect |-> "no", timer |-> "none",
               pending |-> {}, call |-> "none", calls |-> 0,
               sequence |-> 0, logs |-> <<>>, requests |-> <<>>,
               cursor |-> 0, seen |-> {}, told |-> FALSE]

Newest == Len(I.ready)
IsOpen(i) == i.socket # 0 /\ i.ready[i.socket] = "open"

----------------------------------------------------------------------------
(* Losing the connection.                                                  *)
\* Every command that waits is refused; with it the connect that was enabling,
\* and the tool that waited for that connect.
rejectPending(i) ==
  LET enabling == \E p \in i.pending : p.purpose = "enable" /\ p.socket = Len(i.ready)
      asked == \E p \in i.pending : p.purpose = "call"
  IN [i EXCEPT !.pending = {},
               !.connect = IF enabling THEN "no" ELSE @,
               !.state = IF enabling THEN "error" ELSE @,
               !.call = IF asked \/ (enabling /\ @ = "waiting") THEN "none" ELSE @]

failConnection(i) ==
  [rejectPending(i) EXCEPT
     !.state = "error",
     !.timer = IF i.stopped \/ @ # "none" THEN @ ELSE "armed"]

\* The same, of a connect that throws: who waits for it is told.
ConnectFails(i) ==
  LET failed == failConnection(i)
  IN [failed EXCEPT !.connect = "no", !.call = IF @ = "waiting" THEN "none" ELSE @]

handleDisconnect(i, n) ==
  IF i.stopped \/ i.socket # n THEN i ELSE failConnection([i EXCEPT !.socket = 0])

terminate(i, n) == [i EXCEPT !.ready[n] = IF @ = "open" THEN "closing" ELSE @]

----------------------------------------------------------------------------
(* Connecting.                                                             *)
ensureConnected(i) ==
  IF IsOpen(i) \/ i.connect # "no" THEN i
  ELSE [i EXCEPT !.connect = "discovering", !.state = "connecting"]

send(i) ==
  IF IsOpen(i) THEN [i EXCEPT !.pending = @ \cup {[socket |-> i.socket, purpose |-> "call"]},
                              !.call = "sent"]
  ELSE [i EXCEPT !.call = "none"]

start ==
  /\ I.stopped \/ I.state = "disconnected"
  /\ inspector' = ensureConnected([I EXCEPT !.stopped = FALSE])

\* What the two ports that are probed answer: nothing, a Metro without the app,
\* or one with this many targets of the app.  No target is configured.
probeMetro == [1..2 -> {"down", "bare", "one", "two"}]

\* The only server with the app, or else the only server.
Selected(world) ==
  LET running == {s \in 1..2 : world[s] # "down"}
      withWave == {s \in running : world[s] # "bare"}
  IN IF withWave # {} THEN {s \in withWave : Cardinality(withWave) = 1}
     ELSE {s \in running : Cardinality(running) = 1}

\* Exactly one target of the app is listed, or the connect fails.
Discovered ==
  /\ I.connect = "discovering"
  /\ \E world \in probeMetro :
       inspector' = IF Newest < MaxSockets /\ \E s \in Selected(world) : world[s] = "one"
                    THEN [I EXCEPT !.ready = Append(@, "connecting"), !.socket = Newest + 1,
                                   !.connect = "opening"]
                    ELSE ConnectFails(I)

\* The socket opens and its domains are enabled, or the open fails or times out.
Opened ==
  /\ I.connect = "opening" /\ I.ready[Newest] = "connecting"
  /\ inspector' = [I EXCEPT !.ready[Newest] = "open", !.heard = @ \cup {Newest},
                            !.connect = "enabling",
                            !.pending = @ \cup {[socket |-> Newest, purpose |-> "enable"]}]

OpenFails ==
  /\ I.connect = "opening"
  /\ inspector' = ConnectFails([I EXCEPT !.ready[Newest] = "closing"])

\* The enables are all answered: connected, and who waited goes on.
Enabled(i) ==
  LET done == [i EXCEPT !.connect = "no", !.state = "connected"]
  IN IF i.call = "waiting" THEN send(done) ELSE done

reconnectFires(i) == ensureConnected([i EXCEPT !.timer = "none"])

ReconnectTimer == I.timer = "armed" /\ inspector' = reconnectFires(I)

\* The close of a socket is read, and then its close event.
Closes(n) == /\ I.ready[n] = "open" /\ inspector' = terminate(I, n)

\* What was waited for by stop() is over with it.
Stopped(i) == [i EXCEPT !.closing = 0, !.state = "disconnected"]

Closed(n) ==
  /\ I.ready[n] = "closing" /\ ~(I.connect = "opening" /\ n = Newest)
  /\ LET closed == [I EXCEPT !.ready[n] = "closed"]
         left == IF n \in I.heard THEN handleDisconnect(closed, n) ELSE closed
     IN inspector' = IF I.closing = n THEN Stopped(left) ELSE left

\* A stop during an open makes the handshake fail.
stop ==
  /\ ~I.stopped /\ I.closing = 0
  /\ LET n == I.socket
         halted == [rejectPending([I EXCEPT !.timer = "none", !.stopped = TRUE]) EXCEPT !.socket = 0]
     IN inspector' = IF n # 0 /\ I.ready[n] # "closed"
                     THEN [halted EXCEPT !.ready[n] = "closing", !.closing = n]
                     ELSE Stopped(halted)

StopTimeout == I.closing # 0 /\ inspector' = Stopped(I)

----------------------------------------------------------------------------
(* Commands.                                                               *)

\* A tool of the agent dials if it must, and sends one command.
Call ==
  /\ I.call = "none" /\ I.calls < MaxCalls
  /\ LET asked == ensureConnected([I EXCEPT !.calls = @ + 1])
     IN inspector' = IF IsOpen(asked) THEN send(asked) ELSE [asked EXCEPT !.call = "waiting"]

\* The body of a request that is retained, the state bridge, a probe, a reload.
getRequest == I.requests # <<>> /\ Call
evaluateBridge == Call
runDiagnosticProbe == Call
reloadApplication == Call

Without(p) == [I EXCEPT !.pending = @ \ {p}]

\* The answer of the app: a result, or an error (of the protocol, or of the send).
Answered(p) ==
  /\ I.ready[p.socket] = "open"
  /\ \/ inspector' = IF p.purpose = "call" THEN [Without(p) EXCEPT !.call = "none"]
                     ELSE Enabled(Without(p))
     \/ p.purpose = "enable" /\ inspector' = ConnectFails(terminate(Without(p), p.socket))

\* No answer in time: the target is taken for stale if it is the current one.
CommandTimeout(p) ==
  LET told == IF p.purpose = "call" THEN [Without(p) EXCEPT !.call = "none"] ELSE Without(p)
      left == IF I.socket = p.socket
              THEN failConnection(terminate([told EXCEPT !.socket = 0], p.socket)) ELSE told
  IN inspector' = IF p.purpose = "call" THEN left
                  ELSE ConnectFails(terminate(left, p.socket))

----------------------------------------------------------------------------
(* What is retained, and read.                                             *)
Heard == \E n \in I.heard : I.ready[n] = "open"

Newer(i) == i.sequence < MaxSequence
Kept(entries) == IF Len(entries) > Retained THEN Tail(entries) ELSE entries

appendLog ==
  /\ Heard /\ Newer(I)
  /\ inspector' = [I EXCEPT !.sequence = @ + 1,
                            !.logs = Kept(Append(@, [sequence |-> I.sequence + 1]))]

\* A request that is redirected comes with the id it had, and keeps its place.
handleRequestStarted(id) ==
  /\ Heard /\ Newer(I)
  /\ LET record == [id |-> id, sequence |-> I.sequence + 1, status |-> "started"]
         at == SelectInSeq(I.requests, LAMBDA r : r.id = id)
     IN inspector' = [I EXCEPT !.sequence = @ + 1,
                               !.requests = IF at = 0 THEN Kept(Append(@, record))
                                            ELSE ReplaceAt(@, at, record)]

\* Its response, its end or its failure: it is news again.
Changed(i, at, status) ==
  [i EXCEPT !.sequence = @ + 1,
            !.requests[at] = [@ EXCEPT !.status = status, !.sequence = i.sequence + 1]]

handleResponse(at) ==
  /\ Heard /\ Newer(I) /\ I.requests[at].status = "started"
  /\ inspector' = Changed(I, at, "answered")

Finished(at) ==
  /\ Heard /\ Newer(I) /\ I.requests[at].status # "over"
  /\ inspector' = Changed(I, at, "over")

clear == /\ I.logs \o I.requests # <<>>
         /\ inspector' = [I EXCEPT !.logs = <<>>, !.requests = <<>>]

\* getLogs and getRequests since the cursor: the places of the entries that match,
\* and the last Limit of those entries.
Matching(entries) == {i \in DOMAIN entries : entries[i].sequence > I.cursor}
LastOf(entries) ==
  {entries[i] : i \in {j \in Matching(entries) :
                        Cardinality({k \in Matching(entries) : k >= j}) <= Limit}}
Truncated(entries) == Cardinality(Matching(entries)) > Limit

Read ==
  /\ I.cursor < I.sequence
  /\ inspector' = [I EXCEPT !.cursor = I.sequence,
                            !.seen = @ \cup LastOf(I.logs) \cup LastOf(I.requests),
                            !.told = @ \/ Truncated(I.logs) \/ Truncated(I.requests)]

Next ==
  \/ start \/ Discovered \/ Opened \/ OpenFails \/ ReconnectTimer
  \/ \E n \in DOMAIN I.ready : Closes(n) \/ Closed(n)
  \/ stop \/ StopTimeout
  \/ getRequest \/ evaluateBridge \/ runDiagnosticProbe \/ reloadApplication
  \/ \E p \in I.pending : Answered(p) \/ CommandTimeout(p)
  \/ appendLog \/ clear \/ Read
  \/ \E id \in {"r1", "r2"} : handleRequestStarted(id)
  \/ \E at \in DOMAIN I.requests : handleResponse(at) \/ Finished(at)

Spec == Init /\ [][Next]_inspector

\* The timers of an open and of a command, and the end of a discovery.
CommandsTimeOut == \E p \in I.pending : CommandTimeout(p)
Fairness == /\ WF_inspector(Discovered) /\ WF_inspector(OpenFails)
            /\ WF_inspector(CommandsTimeOut)

----------------------------------------------------------------------------
\* A collector that was not stopped never rests in its error: it connects, or
\* its timer will.
AlwaysRetried ==
  I.state = "error" /\ ~I.stopped => I.timer = "armed" \/ I.connect # "no"

\* A collector that runs and says it is connected has a socket whose close it
\* has not been told of.
ConnectedIsTrue ==
  I.state = "connected" /\ ~I.stopped => I.socket # 0 /\ I.ready[I.socket] # "closed"

\* A reader that was never told of a cut has seen what every entry retained up
\* to its cursor says now.
ReaderMissesNothing ==
  ~I.told => \A e \in ToSet(I.logs) \cup ToSet(I.requests) :
               e.sequence <= I.cursor => e \in I.seen

\* A tool that needs the app is answered, or refused.
InFlight == I.call # "none"
=============================================================================
