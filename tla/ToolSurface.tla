----------------------------- MODULE ToolSurface -----------------------------
(***************************************************************************)
(* The Realtime tool surface: which complete set of tools (ask-only, or    *)
(* ask-and-correct) the provider's session advertises, and what Wave       *)
(* believes about it.  services/realtime/realtime-tool-surface-controller  *)
(* serialises full session.update snapshots over the sideband socket; the  *)
(* provider is external and is modelled from how the controller uses it.   *)
(***************************************************************************)
EXTENDS Integers, Sequences

CONSTANTS
  MaxRevision,  \* bound on the active/idle transitions of one call
  Providers     \* "late": answers may arrive after the 8 s timer has fired;
                \* "refusing": updates may not be applied as sent

ASSUME SurfaceConstants ==
  /\ MaxRevision \in Nat
  /\ Providers \subseteq {"late", "refusing"}

Surface == {"idle", "active"}

Update == [revision : Nat, state : Surface]

NoUpdate == [revision |-> -1, state |-> "none"]

\* A session.updated snapshot is one of the two Wave-owned configurations or
\* something else; the revision is not on the wire, it is there for properties.
Snapshot == [revision : Nat, state : Surface \cup {"other"}]

VARIABLES
  acknowledged, closed, desired, desiredRevision, failedRevision, inFlight,
  toProvider,    \* session.update events the provider has not handled yet
  fromProvider,  \* session.updated events Wave has not handled yet
  provider,      \* which provider this call got
  server,        \* the configuration the provider's session really has
  lastSent       \* history: the last update handed to the socket

vars == <<acknowledged, closed, desired, desiredRevision, failedRevision,
          inFlight, toProvider, fromProvider, provider, server, lastSent>>

Init ==
  /\ provider \in Providers
  /\ acknowledged = "idle" /\ desired = "idle" /\ server = "idle"
  /\ closed = FALSE
  /\ desiredRevision = 0 /\ failedRevision = -1
  /\ inFlight = NoUpdate
  /\ toProvider = <<>> /\ fromProvider = <<>>
  /\ lastSent = [revision |-> 0, state |-> "idle"]

-----------------------------------------------------------------------------
NothingToSend_Retries(ack, failed, want, rev) == ack = want

\* pump() has nothing to do: the desired surface is acknowledged, or its
\* revision already failed.
NothingToSend(ack, failed, want, rev) == ack = want \/ rev <= failed

\* pump(), called with nothing in flight, for the values the caller left.
\* A socket that throws runs fail(), whose own pump() finds the revision failed.
Pump(ack, failed, want, rev) ==
  LET update == [revision |-> rev, state |-> want]
  IN \/ /\ NothingToSend(ack, failed, want, rev)
        /\ acknowledged' = ack /\ failedRevision' = failed
        /\ inFlight' = NoUpdate
        /\ UNCHANGED <<toProvider, lastSent>>
     \/ /\ ~NothingToSend(ack, failed, want, rev)
        /\ acknowledged' = ack /\ failedRevision' = failed
        /\ inFlight' = update
        /\ toProvider' = Append(toProvider, update)
        /\ lastSent' = update
     \/ /\ ~NothingToSend(ack, failed, want, rev)
        /\ acknowledged' = "unknown" /\ failedRevision' = rev
        /\ inFlight' = NoUpdate
        /\ lastSent' = update
        /\ UNCHANGED toProvider

Fail_NoPump ==
  /\ acknowledged' = "unknown" /\ failedRevision' = inFlight.revision
  /\ inFlight' = NoUpdate
  /\ UNCHANGED <<toProvider, lastSent>>

Fail_KeepsBelief == Pump(acknowledged, inFlight.revision, desired, desiredRevision)

\* fail(pending): the server's state is unknown; one fresh snapshot may go out
\* if the desired state moved on meanwhile.
Fail == Pump("unknown", inFlight.revision, desired, desiredRevision)

Request(next) ==
  /\ ~closed /\ next # desired
  /\ desiredRevision < MaxRevision
  /\ desired' = next
  /\ desiredRevision' = desiredRevision + 1
  /\ \/ /\ inFlight # NoUpdate
        /\ UNCHANGED <<acknowledged, failedRevision, inFlight, toProvider, lastSent>>
     \/ /\ inFlight = NoUpdate
        /\ Pump(acknowledged, failedRevision, next, desiredRevision + 1)
  /\ UNCHANGED <<closed, fromProvider, provider, server>>

Matches_Any(snapshot, state) == TRUE

\* matchesToolSurface compares the whole configuration field by field.
Matches(snapshot, state) == snapshot.state = state

HandleSessionUpdated ==
  /\ fromProvider # <<>>
  /\ fromProvider' = Tail(fromProvider)
  /\ \/ /\ closed \/ inFlight = NoUpdate
        /\ UNCHANGED <<acknowledged, failedRevision, inFlight, toProvider, lastSent>>
     \/ /\ ~closed /\ inFlight # NoUpdate
        /\ ~Matches(Head(fromProvider), inFlight.state)
        /\ Fail
     \/ /\ ~closed /\ inFlight # NoUpdate
        /\ Matches(Head(fromProvider), inFlight.state)
        /\ Pump(inFlight.state, -1, desired, desiredRevision)
  /\ UNCHANGED <<closed, desired, desiredRevision, provider, server>>

\* The answer to the update in flight is still on its way.
AnswerPending ==
  \/ \E i \in DOMAIN toProvider : toProvider[i] = inFlight
  \/ \E i \in DOMAIN fromProvider : fromProvider[i].revision = inFlight.revision

\* The setTimeout of pump(): close and a settled update clear it.
Timeout ==
  /\ ~closed /\ inFlight # NoUpdate
  /\ provider = "late" \/ ~AnswerPending
  /\ Fail
  /\ UNCHANGED <<closed, desired, desiredRevision, fromProvider, provider, server>>

Close ==
  /\ ~closed
  /\ closed' = TRUE
  /\ inFlight' = NoUpdate
  /\ UNCHANGED <<acknowledged, desired, desiredRevision, failedRevision,
                 toProvider, fromProvider, provider, server, lastSent>>

-----------------------------------------------------------------------------
\* The provider (external): applies updates in order and answers each with the
\* configuration it now has.  One that refuses either ends up with a
\* configuration Wave does not recognise, or sends an error event, which the
\* sideband ignores.
ProviderUpdates ==
  /\ toProvider # <<>>
  /\ \E state \in {Head(toProvider).state} \cup (IF provider = "refusing" THEN {"other"} ELSE {}) :
       /\ fromProvider' = Append(fromProvider,
                                 [revision |-> Head(toProvider).revision, state |-> state])
       /\ server' = state
  /\ toProvider' = Tail(toProvider)
  /\ UNCHANGED <<acknowledged, closed, desired, desiredRevision, failedRevision,
                 inFlight, provider, lastSent>>

ProviderRefuses ==
  /\ provider = "refusing"
  /\ toProvider # <<>>
  /\ toProvider' = Tail(toProvider)
  /\ UNCHANGED <<acknowledged, closed, desired, desiredRevision, failedRevision,
                 inFlight, fromProvider, provider, server, lastSent>>

-----------------------------------------------------------------------------
Next ==
  \/ \E next \in Surface : Request(next)
  \/ HandleSessionUpdated
  \/ Timeout
  \/ Close
  \/ ProviderUpdates
  \/ ProviderRefuses

Spec == Init /\ [][Next]_vars

\* Timers fire and socket events are dispatched; the provider reads its socket.
\* Nothing obliges the user, the call or a refusal to happen.
Fairness ==
  /\ WF_vars(HandleSessionUpdated)
  /\ WF_vars(Timeout)
  /\ WF_vars(ProviderUpdates)

FairSpec == Spec /\ Fairness

-----------------------------------------------------------------------------
\* Every variable has its type.
TypeOK ==
  /\ acknowledged \in Surface \cup {"unknown"}
  /\ closed \in BOOLEAN /\ provider \in Providers
  /\ desired \in Surface /\ server \in Surface \cup {"other"}
  /\ desiredRevision \in Nat
  /\ failedRevision \in Nat \cup {-1}
  /\ inFlight \in Update \cup {NoUpdate}
  /\ toProvider \in Seq(Update)
  /\ fromProvider \in Seq(Snapshot)
  /\ lastSent \in Update

\* No transition is lost: with nothing in flight, an open controller has either
\* reached the desired surface or given up on exactly that revision.  The only
\* place that could wake it later is the next request().
NoLostTransition ==
  ~closed /\ inFlight = NoUpdate =>
    NothingToSend(acknowledged, failedRevision, desired, desiredRevision)

\* The header's "never retried until a later real active/idle transition":
\* every snapshot put on the wire is for a revision newer than any tried before,
\* although failedRevision is reset by every success.
NeverRetried ==
  [][\A update \in {toProvider'[i] : i \in DOMAIN toProvider'} :
       toProvider' = Append(toProvider, update) => update.revision > lastSent.revision]_vars

\* A surface Wave believes in, with nothing in flight, is the last snapshot it
\* sent: an older answer can never put an older belief back.
BeliefIsLastWord ==
  ~closed /\ inFlight = NoUpdate /\ acknowledged # "unknown" =>
    acknowledged = lastSent.state

\* Once both directions are drained, a known surface is the provider's own.
BeliefMatchesServer ==
  (/\ ~closed /\ inFlight = NoUpdate /\ acknowledged # "unknown"
   /\ toProvider = <<>> /\ fromProvider = <<>>) => server = acknowledged

\* An open controller never stays in between for ever: the surface converges or
\* the update is given up.
EventuallySettles ==
  []<>(closed \/ acknowledged = desired \/ failedRevision >= desiredRevision)
=============================================================================
