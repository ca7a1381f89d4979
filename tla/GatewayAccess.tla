----------------------------- MODULE GatewayAccess -----------------------------
(***************************************************************************)
(* What opens the gateway to its client: the token pair, which the gateway *)
(* rotates on any response (request, harvestTokens, gateway-tokens) and    *)
(* which the provider's callback persists, and the single-use ticket each  *)
(* socket is dialled with (openSocket, dialSocket, mintTicket): offered as *)
(* a subprotocol and, to a gateway that does not know it, once more in the *)
(* URL.  Token pairs are generations: the gateway accepts a pair until it  *)
(* ages out, long after a newer one was issued.                            *)
(***************************************************************************)
EXTENDS Naturals, Sequences

CONSTANTS Operations, MaxRotations, MaxTickets

VARIABLE access

X == access
Idle == [at |-> "none", dials |-> FALSE, cookie |-> 0, ok |-> FALSE, carried |-> 0,
         transport |-> "", ticket |-> 0]

Init ==
  \E legacy \in BOOLEAN :
    access = [mem |-> 1, disk |-> 1, saving |-> <<>>,
              newest |-> 1, fresh |-> {1}, live |-> {1}, refused |-> FALSE,
              lost |-> FALSE, overtaken |-> FALSE,
              op |-> [o \in Operations |-> Idle],
              latch |-> "subprotocol", legacy |-> legacy,
              tickets |-> 0, presented |-> {}, reused |-> FALSE]

\* request(): the cookies are read when the request is sent.
Send(x, o, dials, transport) ==
  [x EXCEPT !.op[o] = [Idle EXCEPT !.at = "sent", !.dials = dials,
                                   !.cookie = x.mem, !.transport = transport]]

----------------------------------------------------------------------------
(* The gateway (external).                                                 *)
AccessExpires ==
  /\ X.newest \in X.fresh /\ X.newest <= MaxRotations
  /\ access' = [X EXCEPT !.fresh = {}]

\* Replaced pairs age out: nothing is under way that long.
PairsAgeOut ==
  /\ \A o \in Operations : X.op[o].at \notin {"sent", "answered"}
  /\ access' = [X EXCEPT !.live = {X.newest}]

\* A pair whose access token expired is rotated, whatever the status is.
GatewayAnswers(o) ==
  /\ X.op[o].at = "sent"
  /\ \E ok \in BOOLEAN :
       LET g == X.op[o].cookie
           rotates == g \in X.live /\ g \notin X.fresh /\ X.newest <= MaxRotations
           n == X.newest + 1
           answered == [X.op[o] EXCEPT !.at = "answered", !.ok = ok /\ g \in X.live,
                                       !.carried = IF rotates THEN n ELSE 0]
           x == [X EXCEPT !.op[o] = answered, !.refused = @ \/ g \notin X.live]
       IN access' = IF rotates
                    THEN [x EXCEPT !.newest = n, !.fresh = @ \cup {n}, !.live = @ \cup {n}]
                    ELSE x

----------------------------------------------------------------------------
Read(o) == X.op[o].at = "none" /\ access' = Send(X, o, FALSE, "")

\* openSocket(): the ticket is minted for the transport believed in.
OpenSocket(o) ==
  X.op[o].at = "none" /\ access' = Send(X, o, TRUE, X.latch)

\* A plausible bug: only an answer that succeeded is looked at.
HarvestTokens_OnlyOk(x, o) ==
  LET g == x.op[o].carried
  IN IF g = 0 \/ g = x.mem \/ ~x.op[o].ok THEN x
     ELSE [x EXCEPT !.mem = g, !.saving = Append(@, g), !.overtaken = @ \/ g < x.mem]

\* harvestTokens(), before the status is looked at.
HarvestTokens(x, o) ==
  LET g == x.op[o].carried
  IN IF g = 0 \/ g = x.mem THEN x
     ELSE [x EXCEPT !.mem = g, !.saving = Append(@, g), !.overtaken = @ \/ g < x.mem]

\* A ticket goes out with the handshake.
Present(x, o, ticket) ==
  [x EXCEPT !.op[o].at = "shaking", !.op[o].ticket = ticket,
            !.presented = @ \cup {ticket}, !.reused = @ \/ ticket \in x.presented]

\* The response arrives: a read is over, a mint goes on to the handshake, or
\* the platform refuses to construct the socket.
ResponseArrives(o) ==
  /\ X.op[o].at = "answered"
  /\ LET x == HarvestTokens(X, o)
         t == X.tickets + 1
     IN \/ access' = [x EXCEPT !.op[o] = Idle]
        \/ /\ X.op[o].dials /\ X.op[o].ok /\ X.tickets < MaxTickets
           /\ access' = Present([x EXCEPT !.tickets = t], o, t)

\* No network, a timeout or an abort: what the response carried is lost.
ResponseLost(o) ==
  /\ X.op[o].at \in {"sent", "answered"}
  /\ access' = [X EXCEPT !.op[o] = Idle, !.lost = @ \/ X.op[o].carried # 0]

\* The gateway takes the ticket where it looks for it.
HandshakeAccepted(o) ==
  /\ X.op[o].at = "shaking"
  /\ X.op[o].transport = "subprotocol" => ~X.legacy
  /\ access' = [X EXCEPT !.op[o] = Idle,
                         !.latch = IF X.op[o].transport = "fallback" THEN "query" ELSE @]

\* A dial that reached a handshake over the subprotocol is tried once more in
\* the URL, with a ticket of its own.
Fallback(x, o) ==
  Send(x, o, TRUE, "fallback")

\* Refused, no network, no answer in time; or the caller aborts.
HandshakeFails(o) ==
  /\ X.op[o].at = "shaking"
  /\ \E aborted \in BOOLEAN :
       access' = IF X.op[o].transport # "subprotocol" \/ aborted
                 THEN [X EXCEPT !.op[o] = Idle]
                 ELSE Fallback(X, o)

\* The oldest write reaches the secure store.
Saved ==
  /\ X.saving # <<>>
  /\ access' = [X EXCEPT !.disk = Head(X.saving), !.saving = Tail(@)]

\* The app is killed: the next client starts from the stored record.
Restart ==
  /\ access' = [X EXCEPT !.mem = X.disk, !.saving = <<>>, !.latch = "subprotocol",
                         !.op = [o \in Operations |-> Idle],
                         !.lost = @ \/ X.saving # <<>>
                                    \/ \E o \in Operations : X.op[o].carried # 0]

Next ==
  \/ AccessExpires \/ PairsAgeOut \/ Saved \/ Restart
  \/ \E o \in Operations :
       Read(o) \/ OpenSocket(o) \/ GatewayAnswers(o) \/ ResponseArrives(o)
       \/ ResponseLost(o) \/ HandshakeAccepted(o) \/ HandshakeFails(o)

Spec == Init /\ [][Next]_access
----------------------------------------------------------------------------
\* The gateway turns the client away only when a rotation never reached the
\* store: its response was lost, the app was killed before the write, or two
\* rotations of concurrent requests arrived in the other order.
SignedInStays == X.refused => X.lost \/ X.overtaken

\* What a restart would find is what memory holds, but for writes under way.
DiskFollowsMemory == X.saving = <<>> => X.disk = X.mem

\* No ticket is shown twice: the second dial, in the URL, has one of its own.
TicketsSingleUse == ~X.reused
=============================================================================
