--------------------------- MODULE RealtimeBackend ---------------------------
(***************************************************************************)
(* Starting and ending calls at the provider                               *)
(* (src/services/realtime/openai-realtime-backend.ts): one POST creates a  *)
(* call, its answer is read, a sideband socket is opened, and only then is *)
(* the call in the table that authorises its tool calls.  The provider is  *)
(* external.  Attempt c creates call c, if any.                            *)
(***************************************************************************)
EXTENDS Naturals, FiniteSets

CONSTANT Attempts

VARIABLE backend

B == backend

Places == {"idle", "posting", "reading", "opening", "cleaning", "started", "failed"}

Init ==
  backend = [at |-> [c \in Attempts |-> "idle"], aborted |-> {}, created |-> {},
             live |-> {}, table |-> {}, orchestrating |-> {}, sockets |-> {},
             hanging |-> {}, tried |-> {}, known |-> {}, unread |-> {}]

Go(b, c, there) == [b EXCEPT !.at[c] = there]

StartRealtimeCall(c) ==
  B.at[c] = "idle" /\ backend' = Go(B, c, "posting")

\* The provider creates the call when the request reaches it, even one whose
\* answer nobody waits for any more.
ProviderCreates(c) ==
  /\ B.at[c] # "idle" /\ c \notin B.created
  /\ B.at[c] = "posting" \/ (B.at[c] = "failed" /\ c \notin B.known)
  /\ backend' = [B EXCEPT !.created = @ \cup {c}, !.live = @ \cup {c}]

\* The request fails: the abort, the 20 s timer, the network or a bad status.
PostFails(c) == B.at[c] = "posting" /\ backend' = Go(B, c, "failed")

\* The headers name the call; from here no timer runs and no abort is heard.
HeadersArrive(c) ==
  /\ B.at[c] = "posting" /\ c \in B.created
  /\ backend' = [Go(B, c, "reading") EXCEPT !.known = @ \cup {c}]

\* The body is read and the socket opened, or the body is invalid or lost.
BodyRead(c) ==
  /\ B.at[c] = "reading"
  /\ \/ backend' = [Go(B, c, "opening") EXCEPT !.sockets = @ \cup {c}]
     \/ backend' = [Go(B, c, "failed") EXCEPT !.unread = @ \cup {c}]

SidebandOpens(c) ==
  /\ B.at[c] = "opening" /\ c \notin B.aborted
  /\ backend' = [Go(B, c, "started") EXCEPT !.table = @ \cup {c},
                                            !.orchestrating = @ \cup {c}]

SidebandFails_Throws(c) ==
  /\ B.at[c] = "opening"
  /\ backend' = [Go(B, c, "failed") EXCEPT !.sockets = @ \ {c}]

\* The 15 s, the abort or the socket: closed, then hung up before it throws.
SidebandFails(c) ==
  /\ B.at[c] = "opening"
  /\ backend' = [Go(B, c, "cleaning") EXCEPT !.sockets = @ \ {c}, !.hanging = @ \cup {c},
                                             !.tried = @ \cup {c}]

\* hangUp() swallows its failure.
HangUpDone(c) ==
  /\ c \in B.hanging
  /\ \E reached \in BOOLEAN :
       backend' = [B EXCEPT !.hanging = @ \ {c},
                            !.live = IF reached THEN @ \ {c} ELSE @,
                            !.at[c] = IF @ = "cleaning" THEN "failed" ELSE @]

Abort(c) ==
  /\ B.at[c] \in {"posting", "reading", "opening"} /\ c \notin B.aborted
  /\ backend' = [B EXCEPT !.aborted = @ \cup {c}]

\* Also for a call the table does not know; the table entry goes first.
EndRealtimeCall(c) ==
  /\ B.at[c] = "started" /\ c \notin B.tried
  /\ backend' = [B EXCEPT !.table = @ \ {c}, !.orchestrating = @ \ {c},
                          !.sockets = @ \ {c}, !.hanging = @ \cup {c}, !.tried = @ \cup {c}]

\* The provider or the network ends the socket; the orchestrator is aborted
\* and the entry stays until the call is ended.
SidebandCloses(c) ==
  /\ c \in B.sockets /\ B.at[c] = "started"
  /\ backend' = [B EXCEPT !.sockets = @ \ {c}, !.orchestrating = @ \ {c}]

CallOver(c) == c \in B.live /\ backend' = [B EXCEPT !.live = @ \ {c}]

Step(c) ==
  \/ StartRealtimeCall(c) \/ ProviderCreates(c) \/ PostFails(c) \/ HeadersArrive(c)
  \/ BodyRead(c) \/ SidebandOpens(c) \/ SidebandFails(c) \/ HangUpDone(c) \/ Abort(c)
  \/ EndRealtimeCall(c) \/ SidebandCloses(c) \/ CallOver(c)

Next == \E c \in Attempts : Step(c)
Spec == Init /\ [][Next]_backend
----------------------------------------------------------------------------
(* A call the provider created is never simply dropped: it is in the table *)
(* for the controller to end, or still being set up, or a hang-up was      *)
(* tried; but for an answer that never named the call, or whose body could *)
(* not be read, which the code gives up without a hang-up.                 *)
CreatedIsTrackedOrHungUp ==
  \A c \in B.created :
    \/ c \in B.table \/ c \in B.tried \/ B.at[c] \in {"posting", "reading", "opening"}
    \/ c \notin B.known \/ c \in B.unread

(* Tool calls run only for a call in the table, over an open sideband; an  *)
(* ended call has neither.                                                 *)
OnlyTrackedCallsWork ==
  /\ B.orchestrating \subseteq B.table \cap B.sockets
  /\ \A c \in B.tried : c \notin B.table /\ c \notin B.sockets
=============================================================================
