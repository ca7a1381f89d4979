-------------------------- MODULE MCRealtime_proofs --------------------------
(***************************************************************************)
(* Proofs about the parts of a Realtime call and about the doubles it is   *)
(* tested with, for every value of their bounds: first the tool surface    *)
(* (its specification Spec, whatever the provider answers and when), then  *)
(* the other parts, each with an inductive invariant of its own; the steps *)
(* of the others leave it alone, for `component` never changes.            *)
(***************************************************************************)
EXTENDS MCRealtime, SequenceTheorems, TLAPS

----------------------------------------------------------------------------
(* The tool surface of one call (ToolSurface).                             *)

\* What pump() may rely on: revisions only grow, the update in flight is the
\* last one sent, and the last one sent carries the desired state unless the
\* desired revision has moved past it.
Revisions ==
  /\ lastSent.revision <= desiredRevision
  /\ failedRevision <= lastSent.revision
  /\ inFlight # NoUpdate => inFlight = lastSent
  /\ lastSent.revision = desiredRevision => lastSent.state = desired

IInv == TypeOK /\ Revisions /\ NoLostTransition /\ BeliefIsLastWord

\* The part of IInv that pump() touches, and that TypeOK says of it.
PumpTypes ==
  /\ acknowledged \in Surface \cup {"unknown"}
  /\ failedRevision \in Nat \cup {-1}
  /\ inFlight \in Update \cup {NoUpdate}
  /\ toProvider \in Seq(Update)
  /\ lastSent \in Update

\* A channel never equals itself with one more event, or with one fewer.
LEMMA ChannelGrows ==
  ASSUME NEW c \in Seq(Update), NEW u, NEW v
  PROVE  /\ c # Append(c, u)
         /\ c # <<>> => Tail(c) # Append(c, u)
         /\ Append(c, u) = Append(c, v) => u = v
<1>1. Len(Append(c, u)) = Len(c) + 1 /\ Append(c, u)[Len(c) + 1] = u
      /\ Append(c, v)[Len(c) + 1] = v
  OBVIOUS
<1>2. c # <<>> => Len(Tail(c)) = Len(c) - 1
  OBVIOUS
<1> QED BY <1>1, <1>2

\* The step puts one update on the wire, for a revision above every earlier one.
FreshlySent(rev) ==
  /\ toProvider' = Append(toProvider, lastSent')
  /\ lastSent'.revision = rev
  /\ lastSent.revision < rev

\* pump() re-establishes everything for the desired state and revision it is
\* called with, provided that revision is new or its state is the last one sent.
LEMMA PumpRestores ==
  ASSUME TypeOK,
         NEW ack \in Surface \cup {"unknown"}, NEW failed \in Nat \cup {-1},
         NEW want \in Surface, NEW rev \in Nat,
         Pump(ack, failed, want, rev),
         lastSent.revision <= rev,
         failed <= lastSent.revision,
         lastSent.revision = rev => lastSent.state = want,
         ack # "unknown" => ack = lastSent.state,
         lastSent.revision = rev => NothingToSend(ack, failed, want, rev)
  PROVE  /\ PumpTypes'
         /\ lastSent.revision' <= rev
         /\ failedRevision' <= lastSent.revision'
         /\ inFlight' # NoUpdate => inFlight' = lastSent'
         /\ lastSent.revision' = rev => lastSent.state' = want
         /\ inFlight' = NoUpdate => NothingToSend(acknowledged', failedRevision', want, rev)
         /\ inFlight' = NoUpdate /\ acknowledged' # "unknown" => acknowledged' = lastSent.state'
         /\ toProvider' # toProvider => FreshlySent(rev)
<1> DEFINE update == [revision |-> rev, state |-> want]
<1>0. update \in Update /\ update # NoUpdate
  BY DEF Update, NoUpdate
<1>1. CASE NothingToSend(ack, failed, want, rev)
  BY <1>1 DEF Pump, NothingToSend, TypeOK, PumpTypes, Update, NoUpdate
<1>2. CASE ~NothingToSend(ack, failed, want, rev)
  <2>1. lastSent.revision < rev
    BY <1>2 DEF TypeOK, Update
  <2>2. CASE inFlight' = update /\ lastSent' = update /\ acknowledged' = ack
             /\ failedRevision' = failed /\ toProvider' = Append(toProvider, update)
    BY <1>0, <2>1, <2>2 DEF TypeOK, PumpTypes, Update, NoUpdate, FreshlySent
  <2>3. CASE inFlight' = NoUpdate /\ lastSent' = update /\ acknowledged' = "unknown"
             /\ failedRevision' = rev /\ toProvider' = toProvider
    BY <1>0, <2>1, <2>3 DEF TypeOK, PumpTypes, Update, NothingToSend
  <2> QED BY <1>2, <2>2, <2>3 DEF Pump
<1> QED BY <1>1, <1>2

\* The non-pump steps leave what pump() works on alone, or close the controller.
LEMMA InvInit == Init => IInv
<1> SUFFICES ASSUME Init PROVE IInv
  OBVIOUS
<1>1. <<>> \in Seq(Update) /\ <<>> \in Seq(Snapshot)
  OBVIOUS
<1>2. [revision |-> 0, state |-> "idle"] \in Update
  BY DEF Update, Surface
<1>3. TypeOK
  BY <1>1, <1>2 DEF Init, TypeOK, Surface
<1>4. Revisions /\ NoLostTransition /\ BeliefIsLastWord
  BY DEF Init, Revisions, NoLostTransition, BeliefIsLastWord, NothingToSend
<1> QED BY <1>3, <1>4 DEF IInv

\* A pump that runs on the current desired state and revision, from IInv.
LEMMA FailRestores ==
  ASSUME IInv, inFlight # NoUpdate, Fail
  PROVE  /\ PumpTypes'
         /\ lastSent.revision' <= desiredRevision
         /\ failedRevision' <= lastSent.revision'
         /\ inFlight' # NoUpdate => inFlight' = lastSent'
         /\ lastSent.revision' = desiredRevision => lastSent.state' = desired
         /\ inFlight' = NoUpdate =>
              NothingToSend(acknowledged', failedRevision', desired, desiredRevision)
         /\ inFlight' = NoUpdate /\ acknowledged' # "unknown" =>
              acknowledged' = lastSent.state'
         /\ toProvider' # toProvider => FreshlySent(desiredRevision)
<1>1. /\ inFlight.revision \in Nat
      /\ inFlight = lastSent
  BY DEF IInv, TypeOK, Revisions, Update
<1>2. lastSent.revision = desiredRevision =>
        NothingToSend("unknown", inFlight.revision, desired, desiredRevision)
  BY <1>1 DEF IInv, TypeOK, NothingToSend
<1> HIDE DEF NothingToSend
<1> QED BY <1>1, <1>2, PumpRestores DEF Fail, IInv, TypeOK, Revisions

LEMMA InvNext == IInv /\ [Next]_vars => IInv'
<1> SUFFICES ASSUME IInv, [Next]_vars PROVE IInv'
  OBVIOUS
<1>1. ASSUME NEW next \in Surface, Request(next) PROVE IInv'
  <2>1. /\ desired' = next /\ desiredRevision' = desiredRevision + 1
        /\ desiredRevision + 1 \in Nat /\ lastSent.revision < desiredRevision + 1
        /\ ~closed /\ UNCHANGED <<closed, fromProvider, provider, server>>
    BY <1>1 DEF Request, IInv, TypeOK, Revisions, Update
  <2>2. CASE inFlight # NoUpdate
    BY <1>1, <2>1, <2>2 DEF Request, IInv, TypeOK, Revisions, NoLostTransition,
         BeliefIsLastWord, Update
  <2>3. CASE inFlight = NoUpdate
    <3>1. Pump(acknowledged, failedRevision, next, desiredRevision + 1)
      BY <1>1, <2>3 DEF Request
    <3>2. acknowledged # "unknown" => acknowledged = lastSent.state
      BY <2>1, <2>3 DEF IInv, BeliefIsLastWord
    <3>3. lastSent.revision # desiredRevision + 1
      BY <2>1 DEF IInv, TypeOK, Update
    <3>4. /\ TypeOK
          /\ acknowledged \in Surface \cup {"unknown"} /\ failedRevision \in Nat \cup {-1}
          /\ lastSent.revision <= desiredRevision + 1 /\ failedRevision <= lastSent.revision
      BY <2>1 DEF IInv, TypeOK, Revisions, Update
    <3>5. /\ PumpTypes'
          /\ lastSent.revision' <= desiredRevision + 1
          /\ failedRevision' <= lastSent.revision'
          /\ inFlight' # NoUpdate => inFlight' = lastSent'
          /\ lastSent.revision' = desiredRevision + 1 => lastSent.state' = next
          /\ inFlight' = NoUpdate =>
               NothingToSend(acknowledged', failedRevision', next, desiredRevision + 1)
          /\ inFlight' = NoUpdate /\ acknowledged' # "unknown" =>
               acknowledged' = lastSent.state'
      BY <2>1, <3>1, <3>2, <3>3, <3>4, PumpRestores
    <3> QED BY <2>1, <3>5 DEF IInv, TypeOK, PumpTypes, Revisions, NoLostTransition,
              BeliefIsLastWord
  <2> QED BY <2>2, <2>3
<1>2. CASE HandleSessionUpdated
  <2>1. /\ fromProvider' \in Seq(Snapshot)
        /\ UNCHANGED <<closed, desired, desiredRevision, provider, server>>
    BY <1>2 DEF HandleSessionUpdated, IInv, TypeOK
  <2>2. CASE UNCHANGED <<acknowledged, failedRevision, inFlight, toProvider, lastSent>>
    BY <2>1, <2>2 DEF IInv, TypeOK, Revisions, NoLostTransition, BeliefIsLastWord
  <2>3. CASE inFlight # NoUpdate /\ Fail
    BY <2>1, <2>3, FailRestores DEF IInv, TypeOK, PumpTypes, Revisions,
         NoLostTransition, BeliefIsLastWord
  <2>4. CASE inFlight # NoUpdate /\ Pump(inFlight.state, -1, desired, desiredRevision)
    <3>1. /\ inFlight = lastSent /\ inFlight.state \in Surface
          /\ inFlight.state \in Surface \cup {"unknown"}
          /\ -1 <= lastSent.revision
      BY <2>4 DEF IInv, TypeOK, Revisions, Update
    <3>2. lastSent.revision = desiredRevision =>
            NothingToSend(inFlight.state, -1, desired, desiredRevision)
      BY <3>1 DEF IInv, Revisions, NothingToSend
    <3>3. /\ PumpTypes'
          /\ lastSent.revision' <= desiredRevision
          /\ failedRevision' <= lastSent.revision'
          /\ inFlight' # NoUpdate => inFlight' = lastSent'
          /\ lastSent.revision' = desiredRevision => lastSent.state' = desired
          /\ inFlight' = NoUpdate =>
               NothingToSend(acknowledged', failedRevision', desired, desiredRevision)
          /\ inFlight' = NoUpdate /\ acknowledged' # "unknown" =>
               acknowledged' = lastSent.state'
      BY <2>4, <3>1, <3>2, PumpRestores DEF IInv, TypeOK, Revisions
    <3> QED BY <2>1, <3>3 DEF IInv, TypeOK, PumpTypes, Revisions, NoLostTransition,
              BeliefIsLastWord
  <2> QED BY <1>2, <2>2, <2>3, <2>4 DEF HandleSessionUpdated
<1>3. CASE Timeout
  <2>1. inFlight # NoUpdate /\ Fail
        /\ UNCHANGED <<closed, desired, desiredRevision, fromProvider, provider, server>>
    BY <1>3 DEF Timeout
  <2> QED BY <2>1, FailRestores DEF IInv, TypeOK, PumpTypes, Revisions,
            NoLostTransition, BeliefIsLastWord
<1>4. CASE Close
  BY <1>4 DEF Close, IInv, TypeOK, Revisions, NoLostTransition, BeliefIsLastWord
<1>5. CASE ProviderUpdates
  <2>1. Head(toProvider) \in Update /\ Tail(toProvider) \in Seq(Update)
    BY <1>5 DEF ProviderUpdates, IInv, TypeOK
  <2>2. fromProvider' \in Seq(Snapshot)
    BY <1>5, <2>1 DEF ProviderUpdates, IInv, TypeOK, Update, Snapshot
  <2> QED BY <1>5, <2>1, <2>2 DEF ProviderUpdates, IInv, TypeOK, Revisions,
            NoLostTransition, BeliefIsLastWord, Update
<1>6. CASE ProviderRefuses
  BY <1>6 DEF ProviderRefuses, IInv, TypeOK, Revisions, NoLostTransition, BeliefIsLastWord
<1>7. CASE UNCHANGED vars
  BY <1>7 DEF vars, IInv, TypeOK, Revisions, NoLostTransition, BeliefIsLastWord
<1> QED BY <1>1, <1>2, <1>3, <1>4, <1>5, <1>6, <1>7 DEF Next

LEMMA Invariance == Spec => []IInv
BY InvInit, InvNext, PTL DEF Spec

\* Every state of every behaviour is well typed.
THEOREM TypeCorrect == Spec => []TypeOK
<1>1. IInv => TypeOK
  BY DEF IInv
<1> QED BY <1>1, Invariance, PTL

\* An open, idle controller has converged or has given up on the very revision
\* it wants: request() never loses a transition behind an update in flight.
THEOREM TransitionsNotLost == Spec => []NoLostTransition
<1>1. IInv => NoLostTransition
  BY DEF IInv
<1> QED BY <1>1, Invariance, PTL

\* What Wave believes is what it last asked for.
THEOREM LastWord == Spec => []BeliefIsLastWord
<1>1. IInv => BeliefIsLastWord
  BY DEF IInv
<1> QED BY <1>1, Invariance, PTL

\* A step of the controller or of the provider that puts an update on the wire
\* puts a revision there that was never tried before.
LEMMA FreshStep ==
  IInv /\ [Next]_vars =>
    \A u : toProvider' = Append(toProvider, u) => u.revision > lastSent.revision
<1> SUFFICES ASSUME IInv, [Next]_vars, NEW u, toProvider' = Append(toProvider, u)
             PROVE  u.revision > lastSent.revision
  OBVIOUS
<1>0. toProvider \in Seq(Update)
  BY DEF IInv, TypeOK
<1>1. toProvider' # toProvider
  BY <1>0, ChannelGrows
<1>sent. ASSUME NEW rev \in Nat, FreshlySent(rev) PROVE u.revision > lastSent.revision
  <2>1. u = lastSent'
    BY <1>0, <1>sent, ChannelGrows DEF FreshlySent
  <2> QED BY <1>sent, <2>1 DEF FreshlySent, IInv, TypeOK, Update
<1>2. ASSUME NEW next \in Surface, Request(next) PROVE u.revision > lastSent.revision
  <2>1. inFlight = NoUpdate /\ Pump(acknowledged, failedRevision, next, desiredRevision + 1)
    BY <1>1, <1>2 DEF Request
  <2>2. /\ lastSent.revision < desiredRevision + 1 /\ desiredRevision + 1 \in Nat
        /\ acknowledged # "unknown" => acknowledged = lastSent.state
    BY <1>2, <2>1 DEF Request, IInv, TypeOK, Revisions, BeliefIsLastWord, Update
  <2>3. lastSent.revision # desiredRevision + 1
    BY <2>2 DEF IInv, TypeOK, Update
  <2>4. /\ TypeOK
        /\ acknowledged \in Surface \cup {"unknown"} /\ failedRevision \in Nat \cup {-1}
        /\ lastSent.revision <= desiredRevision + 1 /\ failedRevision <= lastSent.revision
    BY <2>2 DEF IInv, TypeOK, Revisions, Update
  <2>5. toProvider' # toProvider => FreshlySent(desiredRevision + 1)
    BY <2>1, <2>2, <2>3, <2>4, PumpRestores
  <2> QED BY <1>1, <2>2, <2>5, <1>sent
<1>3. CASE HandleSessionUpdated
  <2>1. CASE inFlight # NoUpdate /\ Fail
    BY <1>1, <1>sent, <2>1, FailRestores DEF IInv, TypeOK
  <2>2. CASE inFlight # NoUpdate /\ Pump(inFlight.state, -1, desired, desiredRevision)
    <3>1. /\ inFlight = lastSent /\ inFlight.state \in Surface \cup {"unknown"}
          /\ -1 <= lastSent.revision
      BY <2>2 DEF IInv, TypeOK, Revisions, Update
    <3>2. lastSent.revision = desiredRevision =>
            NothingToSend(inFlight.state, -1, desired, desiredRevision)
      BY <3>1 DEF IInv, Revisions, NothingToSend
    <3>3. FreshlySent(desiredRevision)
      BY <1>1, <2>2, <3>1, <3>2, PumpRestores DEF IInv, TypeOK, Revisions
    <3> QED BY <3>3, <1>sent DEF IInv, TypeOK
  <2> QED BY <1>1, <1>3, <2>1, <2>2 DEF HandleSessionUpdated
<1>4. CASE Timeout
  BY <1>1, <1>4, <1>sent, FailRestores DEF Timeout, IInv, TypeOK
<1>5. CASE ProviderUpdates \/ ProviderRefuses
  BY <1>0, <1>5, ChannelGrows DEF ProviderUpdates, ProviderRefuses
<1>6. CASE Close \/ UNCHANGED vars
  BY <1>1, <1>6 DEF Close, vars
<1> QED BY <1>2, <1>3, <1>4, <1>5, <1>6 DEF Next

\* A failed or timed-out update is never retried.
THEOREM FailedNeverRetried == Spec => NeverRetried
<1>1. IInv /\ [Next]_vars =>
        [\A update \in {toProvider'[i] : i \in DOMAIN toProvider'} :
           toProvider' = Append(toProvider, update) =>
             update.revision > lastSent.revision]_vars
  BY FreshStep
<1> QED BY <1>1, Invariance, PTL DEF Spec, NeverRetried

-----------------------------------------------------------------------------
(* Belief and the provider's session *)

\* What the session's surface will be once the provider has read its socket.
Ahead == IF toProvider = <<>> THEN server ELSE toProvider[Len(toProvider)].state

\* A provider that is only late ends up with what was sent last, whatever answers
\* are still to come.
LateFollows ==
  provider = "late" /\ ~closed =>
    /\ inFlight # NoUpdate => Ahead = inFlight.state
    /\ inFlight = NoUpdate /\ acknowledged # "unknown" => Ahead = acknowledged

\* With one that may refuse, the update in flight is alone on the two channels:
\* not read, answered with what the session became, or refused in silence.
RefusingIsAlone ==
  provider = "refusing" /\ ~closed =>
    /\ inFlight = NoUpdate =>
         /\ toProvider = <<>> /\ fromProvider = <<>>
         /\ acknowledged # "unknown" => server = acknowledged
    /\ inFlight # NoUpdate =>
         \/ toProvider = <<>> /\ fromProvider = <<>>
         \/ toProvider = <<inFlight>> /\ fromProvider = <<>>
         \/ /\ toProvider = <<>>
            /\ fromProvider = <<[revision |-> inFlight.revision, state |-> server]>>

Pipeline == LateFollows /\ RefusingIsAlone

LEMMA PumpCases ==
  ASSUME NEW ack, NEW failed, NEW want \in Surface, NEW rev \in Nat, Pump(ack, failed, want, rev)
  PROVE  \/ inFlight' = NoUpdate /\ acknowledged' \in {ack, "unknown"} /\ toProvider' = toProvider
         \/ /\ inFlight' # NoUpdate /\ inFlight'.state = want
            /\ toProvider' = Append(toProvider, inFlight')
BY DEF Pump, NoUpdate

\* A pump keeps a late provider's session behind what Wave sent, or believes.
LEMMA PumpFollows ==
  ASSUME TypeOK, NEW ack, NEW failed, NEW want \in Surface, NEW rev \in Nat,
         Pump(ack, failed, want, rev), UNCHANGED server,
         ack # "unknown" => Ahead = ack
  PROVE  /\ inFlight' # NoUpdate => Ahead' = inFlight'.state
         /\ inFlight' = NoUpdate /\ acknowledged' # "unknown" => Ahead' = acknowledged'
<1>1. CASE inFlight' = NoUpdate /\ acknowledged' \in {ack, "unknown"} /\ toProvider' = toProvider
  BY <1>1 DEF Ahead
<1>2. CASE inFlight' # NoUpdate /\ toProvider' = Append(toProvider, inFlight')
  <2>1. /\ toProvider' # <<>> /\ Len(toProvider') = Len(toProvider) + 1
        /\ toProvider'[Len(toProvider')] = inFlight'
    BY <1>2 DEF TypeOK
  <2> QED BY <1>2, <2>1 DEF Ahead
<1> QED BY <1>1, <1>2, PumpCases

\* A pump on empty channels leaves them empty, or puts the new update there alone.
LEMMA PumpAlone ==
  ASSUME NEW ack, NEW failed, NEW want \in Surface, NEW rev \in Nat,
         Pump(ack, failed, want, rev), UNCHANGED server,
         toProvider = <<>>, fromProvider' = <<>>, ack # "unknown" => server = ack
  PROVE  /\ inFlight' = NoUpdate =>
              /\ toProvider' = <<>> /\ fromProvider' = <<>>
              /\ acknowledged' # "unknown" => server' = acknowledged'
         /\ inFlight' # NoUpdate => toProvider' = <<inFlight'>> /\ fromProvider' = <<>>
<1>1. CASE inFlight' = NoUpdate /\ acknowledged' \in {ack, "unknown"} /\ toProvider' = toProvider
  BY <1>1
<1>2. CASE inFlight' # NoUpdate /\ toProvider' = Append(toProvider, inFlight')
  BY <1>2
<1> QED BY <1>1, <1>2, PumpCases

\* Taking the first event of a channel leaves its last one where it is.
LEMMA ChannelShrinks ==
  ASSUME NEW S, NEW c \in Seq(S), c # <<>>
  PROVE  /\ Tail(c) = <<>> => c[Len(c)] = Head(c)
         /\ Tail(c) # <<>> => Tail(c)[Len(Tail(c))] = c[Len(c)]
<1>1. /\ Tail(c) \in Seq(S) /\ Len(c) \in Nat \ {0} /\ Len(Tail(c)) = Len(c) - 1
      /\ \A i \in 1 .. Len(Tail(c)) : Tail(c)[i] = c[i + 1]
  BY HeadTailProperties, EmptySeq
<1>2. CASE Tail(c) = <<>>
  <2>1. Len(c) = 1
    BY <1>1, <1>2, EmptySeq
  <2> QED BY <1>2, <2>1
<1>3. CASE Tail(c) # <<>>
  <2>1. Len(Tail(c)) \in Nat \ {0}
    BY <1>1, <1>3, EmptySeq
  <2> QED BY <1>1, <1>3, <2>1
<1> QED BY <1>2, <1>3

LEMMA PipelineInit == Init => Pipeline
BY DEF Init, Pipeline, LateFollows, RefusingIsAlone, Ahead

LEMMA LateKept ==
  ASSUME IInv, LateFollows, Next, provider = "late", ~closed'
  PROVE  LateFollows'
<1>0. TypeOK /\ desired \in Surface /\ desiredRevision \in Nat
  BY DEF IInv, TypeOK
<1>1. ASSUME NEW next \in Surface, Request(next) PROVE LateFollows'
  <2>1. CASE inFlight # NoUpdate
    BY <1>1, <2>1 DEF Request, LateFollows, Ahead
  <2>2. CASE inFlight = NoUpdate
    <3>1. /\ Pump(acknowledged, failedRevision, next, desiredRevision + 1) /\ UNCHANGED server
          /\ desiredRevision + 1 \in Nat /\ ~closed
      BY <1>0, <1>1, <2>2 DEF Request
    <3>2. acknowledged # "unknown" => Ahead = acknowledged
      BY <2>2, <3>1 DEF LateFollows
    <3> QED BY <1>0, <3>1, <3>2, PumpFollows DEF LateFollows
  <2> QED BY <2>1, <2>2
<1>2. CASE HandleSessionUpdated
  <2>0. UNCHANGED <<server, closed, provider>>
    BY <1>2 DEF HandleSessionUpdated
  <2>1. CASE UNCHANGED <<acknowledged, inFlight, toProvider>>
    BY <2>0, <2>1 DEF LateFollows, Ahead
  <2>2. CASE inFlight # NoUpdate /\ Fail
    <3>1. inFlight.revision \in Nat
      BY <2>2 DEF IInv, TypeOK, Update
    <3> QED BY <1>0, <2>0, <2>2, PumpFollows DEF Fail, LateFollows
  <2>3. CASE inFlight # NoUpdate /\ Pump(inFlight.state, -1, desired, desiredRevision)
    BY <1>0, <2>0, <2>3, PumpFollows DEF LateFollows
  <2> QED BY <1>2, <2>1, <2>2, <2>3 DEF HandleSessionUpdated
<1>3. CASE Timeout
  BY <1>0, <1>3, PumpFollows DEF Timeout, Fail, LateFollows
<1>4. CASE Close
  BY <1>4 DEF Close
<1>5. CASE ProviderUpdates
  <2>1. /\ toProvider \in Seq(Update) /\ toProvider # <<>> /\ toProvider' = Tail(toProvider)
        /\ server' = Head(toProvider).state
        /\ UNCHANGED <<acknowledged, closed, inFlight, provider>>
    BY <1>0, <1>5 DEF ProviderUpdates, TypeOK
  <2>2. Ahead' = Ahead
    <3>1. CASE toProvider' = <<>>
      BY <2>1, <3>1, ChannelShrinks DEF Ahead
    <3>2. CASE toProvider' # <<>>
      BY <2>1, <3>2, ChannelShrinks DEF Ahead
    <3> QED BY <3>1, <3>2
  <2> QED BY <2>1, <2>2 DEF LateFollows
<1>6. CASE ProviderRefuses
  BY <1>6 DEF ProviderRefuses
<1> QED BY <1>1, <1>2, <1>3, <1>4, <1>5, <1>6 DEF Next

LEMMA RefusingKept ==
  ASSUME IInv, RefusingIsAlone, Next, provider = "refusing", ~closed'
  PROVE  RefusingIsAlone'
<1>0. /\ desired \in Surface /\ desiredRevision \in Nat
      /\ inFlight # NoUpdate => inFlight.revision \in Nat
  BY DEF IInv, TypeOK, Update
<1>1. ASSUME NEW next \in Surface, Request(next) PROVE RefusingIsAlone'
  <2>1. CASE inFlight # NoUpdate
    BY <1>1, <2>1 DEF Request, RefusingIsAlone
  <2>2. CASE inFlight = NoUpdate
    <3>1. /\ Pump(acknowledged, failedRevision, next, desiredRevision + 1)
          /\ UNCHANGED <<server, fromProvider>> /\ desiredRevision + 1 \in Nat /\ ~closed
      BY <1>0, <1>1, <2>2 DEF Request
    <3> QED BY <2>2, <3>1, PumpAlone DEF RefusingIsAlone
  <2> QED BY <2>1, <2>2
<1>2. CASE HandleSessionUpdated
  <2>1. /\ ~closed /\ fromProvider # <<>> /\ fromProvider' = Tail(fromProvider)
        /\ UNCHANGED <<server, closed, provider>>
    BY <1>2 DEF HandleSessionUpdated
  <2>2. /\ inFlight # NoUpdate /\ toProvider = <<>> /\ fromProvider' = <<>>
        /\ Head(fromProvider) = [revision |-> inFlight.revision, state |-> server]
    BY <2>1 DEF RefusingIsAlone
  <2>3. CASE Fail
    BY <1>0, <2>1, <2>2, <2>3, PumpAlone DEF Fail, RefusingIsAlone
  <2>4. CASE /\ Matches(Head(fromProvider), inFlight.state)
             /\ Pump(inFlight.state, -1, desired, desiredRevision)
    <3>1. server = inFlight.state
      BY <2>2, <2>4 DEF Matches
    <3> QED BY <1>0, <2>1, <2>2, <2>4, <3>1, PumpAlone DEF RefusingIsAlone
  <2> QED BY <1>2, <2>1, <2>2, <2>3, <2>4 DEF HandleSessionUpdated
<1>3. CASE Timeout
  <2>1. /\ inFlight # NoUpdate /\ ~AnswerPending /\ ~closed /\ Fail
        /\ UNCHANGED <<closed, fromProvider, provider, server>>
    BY <1>3 DEF Timeout
  <2>2. toProvider # <<inFlight>>
    BY <2>1 DEF AnswerPending
  <2>3. fromProvider # <<[revision |-> inFlight.revision, state |-> server]>>
    BY <2>1 DEF AnswerPending
  <2>4. toProvider = <<>> /\ fromProvider = <<>>
    BY <2>1, <2>2, <2>3 DEF RefusingIsAlone
  <2> QED BY <1>0, <2>1, <2>4, PumpAlone DEF Fail, RefusingIsAlone
<1>4. CASE Close
  BY <1>4 DEF Close
<1>5. CASE ProviderUpdates
  <2>1. /\ toProvider # <<>> /\ toProvider' = Tail(toProvider)
        /\ UNCHANGED <<acknowledged, closed, inFlight, provider>>
        /\ fromProvider' = Append(fromProvider,
                                  [revision |-> Head(toProvider).revision, state |-> server'])
    BY <1>5 DEF ProviderUpdates
  <2>2. inFlight # NoUpdate /\ toProvider = <<inFlight>> /\ fromProvider = <<>>
    BY <2>1 DEF RefusingIsAlone
  <2>3. toProvider' = <<>> /\ fromProvider' = <<[revision |-> inFlight.revision, state |-> server']>>
    BY <2>1, <2>2
  <2> QED BY <2>1, <2>2, <2>3 DEF RefusingIsAlone
<1>6. CASE ProviderRefuses
  <2>1. /\ toProvider # <<>> /\ toProvider' = Tail(toProvider)
        /\ UNCHANGED <<acknowledged, closed, inFlight, provider, fromProvider, server>>
    BY <1>6 DEF ProviderRefuses
  <2>2. inFlight # NoUpdate /\ toProvider = <<inFlight>> /\ fromProvider = <<>>
    BY <2>1 DEF RefusingIsAlone
  <2>3. toProvider' = <<>>
    BY <2>1, <2>2
  <2> QED BY <2>1, <2>2, <2>3 DEF RefusingIsAlone
<1> QED BY <1>1, <1>2, <1>3, <1>4, <1>5, <1>6 DEF Next

LEMMA PipelineNext == IInv /\ Pipeline /\ [Next]_vars => Pipeline'
<1> SUFFICES ASSUME IInv, Pipeline, [Next]_vars PROVE Pipeline'
  OBVIOUS
<1>1. CASE UNCHANGED vars
  BY <1>1 DEF vars, Pipeline, LateFollows, RefusingIsAlone, Ahead
<1>2. CASE Next
  <2>1. provider' = provider
    BY <1>2 DEF Next, Request, HandleSessionUpdated, Timeout, Close, ProviderUpdates,
         ProviderRefuses
  <2>2. LateFollows'
    <3>1. CASE provider = "late" /\ ~closed'
      BY <1>2, <3>1, LateKept DEF Pipeline
    <3> QED BY <2>1, <3>1 DEF LateFollows
  <2>3. RefusingIsAlone'
    <3>1. CASE provider = "refusing" /\ ~closed'
      BY <1>2, <3>1, RefusingKept DEF Pipeline
    <3> QED BY <2>1, <3>1 DEF RefusingIsAlone
  <2> QED BY <2>2, <2>3 DEF Pipeline
<1> QED BY <1>1, <1>2

\* Once nothing is under way, a surface Wave believes in is the one the provider's
\* session has, whichever of the two providers it is.
THEOREM BeliefIsTrue == Spec => []BeliefMatchesServer
<1>1. IInv /\ Pipeline => BeliefMatchesServer
  BY SurfaceConstants DEF IInv, TypeOK, Pipeline, LateFollows, RefusingIsAlone, Ahead,
     BeliefMatchesServer
<1> QED BY <1>1, Invariance, PipelineInit, PipelineNext, PTL DEF Spec

----------------------------------------------------------------------------
(* One WebRTC session (RealtimeTransport).                                 *)

\* Where prepare() and connect() are: before there is a peer, and after.
Acquiring == {"idle", "permission", "media"}
TransportPlaces == Acquiring \cup {"offer", "ice", "prepared", "remote", "waiting", "connected",
                                   "failed", "rejected"}
PeerStates == {"none", "new", "connecting", "connected", "disconnected", "failed", "closed"}

WebRtcSession ==
  [at : TransportPlaces, aborted : BOOLEAN, stream : {"none", "live", "released"},
   peer : PeerStates, channel : {"none", "connecting", "open", "closed"}, closed : BOOLEAN,
   reconnect : {"off", "armed"}, poll : {"off", "armed", "reading"},
   drops : Nat, told : BOOLEAN, late : BOOLEAN]

\* Nothing is held before there is a peer, only close() closes the peer, and
\* nothing was ever said of a closed session.
TransportInv ==
  /\ here \in WebRtcSession
  /\ here.at \in Acquiring => here.peer = "none" /\ here.stream # "live"
  /\ here.peer = "none" => here.reconnect = "off"
  /\ here.peer = "closed" <=> here.closed
  /\ ~here.late
  /\ Transport!MicrophoneReleased
  /\ Transport!ClosedIsSilent

LEMMA TransportStarts == Transport!Init => TransportInv
  BY DEF Transport!Init, TransportInv, WebRtcSession, TransportPlaces, Acquiring, PeerStates,
         Transport!MicrophoneReleased, Transport!ClosedIsSilent, Transport!T

\* close() gives everything back and leaves the place of prepare() or connect() alone.
LEMMA SessionCloses ==
  ASSUME NEW t \in WebRtcSession, ~t.closed
  PROVE  LET over == Transport!Close(t)
         IN /\ over \in WebRtcSession /\ over.closed = TRUE /\ over.reconnect = "off"
            /\ over.poll # "armed" /\ over.peer = "closed" /\ over.stream = "released"
            /\ over.at = t.at /\ over.late = t.late
<1> DEFINE poll == IF t.poll = "armed" THEN "off" ELSE t.poll
           m == [t EXCEPT !.closed = TRUE, !.reconnect = "off", !.poll = poll]
           over == [m EXCEPT !.channel = "closed", !.peer = "closed", !.stream = "released"]
<1>1. poll \in {"off", "reading"}
  BY DEF WebRtcSession
<1>2. Transport!Close(t) = over
  BY DEF Transport!Close, WebRtcSession
<1> HIDE DEF poll
<1>3. /\ m \in WebRtcSession /\ m.closed = TRUE /\ m.reconnect = "off" /\ m.poll = poll
      /\ m.at = t.at /\ m.late = t.late
  BY <1>1 DEF WebRtcSession
<1> HIDE DEF m
<1>4. over \in WebRtcSession
  <2>1. /\ "closed" \in PeerStates /\ "closed" \in {"none", "connecting", "open", "closed"}
        /\ "released" \in {"none", "live", "released"}
    BY DEF PeerStates
  <2> QED BY <1>3, <2>1 DEF WebRtcSession
<1>5. /\ over.closed = TRUE /\ over.reconnect = "off" /\ over.poll = poll /\ over.peer = "closed"
      /\ over.stream = "released" /\ over.at = t.at /\ over.late = t.late
  BY <1>3 DEF WebRtcSession
<1> QED BY <1>1, <1>2, <1>4, <1>5

\* What the catch of prepare() leaves of a session that has not been closed, or
\* that never came to be.
LEMMA RejectedHoldsNothing ==
  ASSUME NEW t \in WebRtcSession,
         t.peer = "none" => t.reconnect = "off",
         t.peer = "closed" <=> t.closed,
         t.closed => t.stream # "live" /\ t.reconnect = "off" /\ t.poll # "armed",
         ~t.late,
         here' = Transport!Rejected(t)
  PROVE  TransportInv'
<1> DEFINE over == Transport!Rejected(t)
<1>1. CASE t.peer = "none"
  <2>1. over = [t EXCEPT !.stream = IF @ = "live" THEN "released" ELSE @, !.at = "rejected"]
    BY <1>1 DEF Transport!Rejected, Transport!HasSession, WebRtcSession
  <2>2. over \in WebRtcSession
    BY <2>1 DEF WebRtcSession, TransportPlaces
  <2>3. /\ over.at = "rejected" /\ over.peer = "none" /\ over.reconnect = "off"
        /\ over.stream # "live" /\ over.closed = t.closed /\ ~t.closed /\ over.late = t.late
    BY <2>1, <1>1 DEF WebRtcSession
  <2> QED
    BY <2>2, <2>3 DEF TransportInv, Acquiring, Transport!MicrophoneReleased,
                      Transport!ClosedIsSilent, Transport!T
<1>2. CASE t.peer # "none" /\ t.closed
  <2>1. over = [t EXCEPT !.at = "rejected"]
    BY <1>2 DEF Transport!Rejected, Transport!HasSession, Transport!Close
  <2>2. over \in WebRtcSession
    BY <2>1 DEF WebRtcSession, TransportPlaces
  <2>3. /\ over.at = "rejected" /\ over.peer = "closed" /\ over.reconnect = "off"
        /\ over.stream # "live" /\ over.closed = t.closed /\ over.late = t.late
        /\ over.poll = t.poll
    BY <2>1, <1>2 DEF WebRtcSession
  <2> QED
    BY <2>2, <2>3, <1>2 DEF TransportInv, Acquiring, Transport!MicrophoneReleased,
                            Transport!ClosedIsSilent, Transport!T
<1>3. CASE t.peer # "none" /\ ~t.closed
  <2> DEFINE m == Transport!Close(t)
  <2>1. over = [m EXCEPT !.at = "rejected"]
    BY <1>3 DEF Transport!Rejected, Transport!HasSession
  <2>2. /\ m \in WebRtcSession /\ m.closed = TRUE /\ m.reconnect = "off" /\ m.poll # "armed"
        /\ m.peer = "closed" /\ m.stream = "released" /\ m.late = t.late
    BY <1>3, SessionCloses
  <2> HIDE DEF m
  <2>3. /\ over \in WebRtcSession /\ over.at = "rejected" /\ over.peer = "closed"
        /\ over.reconnect = "off" /\ over.stream = "released" /\ over.closed = TRUE
        /\ over.late = t.late /\ over.poll # "armed"
    BY <2>1, <2>2 DEF WebRtcSession, TransportPlaces
  <2> QED
    BY <2>3 DEF TransportInv, Acquiring, Transport!MicrophoneReleased, Transport!ClosedIsSilent,
                Transport!T
<1> QED BY <1>1, <1>2, <1>3

LEMMA TransportSteps ==
  ASSUME TransportInv, Transport!Next PROVE TransportInv'
<1> USE DEF Transport!T
<1> DEFINE t == here
<1>1. /\ t \in WebRtcSession
      /\ t.at \in Acquiring => t.peer = "none" /\ t.stream # "live"
      /\ t.peer = "none" => t.reconnect = "off"
      /\ t.peer = "closed" <=> t.closed
      /\ ~t.late
      /\ t.at = "rejected" \/ t.closed =>
           t.stream # "live" /\ t.peer \in {"none", "closed"} /\ t.reconnect = "off"
      /\ t.closed => t.poll # "armed"
  BY DEF TransportInv, Transport!MicrophoneReleased, Transport!ClosedIsSilent
<1>rej. here' = Transport!Rejected(t) => TransportInv'
  BY <1>1, RejectedHoldsNothing
<1> USE DEF TransportInv, Transport!MicrophoneReleased, Transport!ClosedIsSilent
<1>2. CASE Transport!Prepare
  BY <1>1, <1>2 DEF Transport!Prepare, WebRtcSession, TransportPlaces, Acquiring
<1>3. CASE Transport!PermissionAnswered
  BY <1>1, <1>3, <1>rej DEF Transport!PermissionAnswered, WebRtcSession, TransportPlaces, Acquiring
<1>4. CASE Transport!MediaAnswered
  <2>1. CASE here' = Transport!Rejected([t EXCEPT !.stream = "live"])
    <3> DEFINE m == [t EXCEPT !.stream = "live"]
    <3>1. /\ m \in WebRtcSession /\ m.peer = "none" /\ m.reconnect = "off" /\ ~m.closed /\ ~m.late
      BY <1>1, <1>4 DEF Transport!MediaAnswered, WebRtcSession, Acquiring
    <3> HIDE DEF m
    <3>2. here' = Transport!Rejected(m)
      BY <2>1 DEF m
    <3> QED BY <3>1, <3>2, RejectedHoldsNothing
  <2>2. CASE here' = [t EXCEPT !.stream = "live", !.peer = "new",
                               !.channel = "connecting", !.at = "offer"]
    BY <1>1, <1>4, <2>2
       DEF Transport!MediaAnswered, WebRtcSession, TransportPlaces, Acquiring, PeerStates
  <2> QED BY <1>4, <2>1, <2>2, <1>rej DEF Transport!MediaAnswered
<1>5. CASE Transport!OfferMade
  BY <1>1, <1>5, <1>rej DEF Transport!OfferMade, WebRtcSession, TransportPlaces, Acquiring
<1>6. CASE Transport!OfferFails
  BY <1>6, <1>rej DEF Transport!OfferFails
<1>7. CASE Transport!IceSettles
  BY <1>1, <1>7, <1>rej DEF Transport!IceSettles, WebRtcSession, TransportPlaces, Acquiring
<1>8. CASE Transport!Abort
  <2> DEFINE m == [t EXCEPT !.aborted = TRUE]
  <2>1. /\ m \in WebRtcSession /\ m.peer = t.peer /\ m.reconnect = t.reconnect
        /\ m.closed = t.closed /\ m.late = t.late /\ m.stream = t.stream /\ m.poll = t.poll
        /\ m.at = t.at
    BY <1>1 DEF WebRtcSession
  <2>2. CASE t.at = "ice"
    <3>1. here' = Transport!Rejected(m)
      BY <1>8, <2>2 DEF Transport!Abort
    <3> HIDE DEF m
    <3> QED BY <1>1, <2>1, <3>1, RejectedHoldsNothing
  <2>3. CASE t.at = "waiting"
    <3>1. here' = [m EXCEPT !.at = "failed"]
      BY <1>8, <2>3 DEF Transport!Abort
    <3> HIDE DEF m
    <3> QED BY <1>1, <2>1, <3>1 DEF WebRtcSession, TransportPlaces, Acquiring
  <2>4. CASE t.at \notin {"ice", "waiting"}
    <3>1. here' = m
      BY <1>8, <2>4 DEF Transport!Abort
    <3> HIDE DEF m
    <3> QED BY <1>1, <2>1, <3>1 DEF WebRtcSession, TransportPlaces, Acquiring
  <2> QED BY <2>2, <2>3, <2>4
<1>9. CASE Transport!OwnerCloses
  <2> DEFINE over == Transport!Close(t)
  <2>1. here' = over /\ t.at \notin Acquiring /\ ~t.closed
    BY <1>9 DEF Transport!OwnerCloses, Acquiring
  <2>2. /\ over \in WebRtcSession /\ over.closed = TRUE /\ over.reconnect = "off"
        /\ over.poll # "armed" /\ over.peer = "closed" /\ over.stream = "released"
        /\ over.at = t.at /\ over.late = t.late
    BY <1>1, <2>1, SessionCloses
  <2> HIDE DEF over
  <2> QED BY <1>1, <2>1, <2>2
<1>10. CASE Transport!Connect
  BY <1>1, <1>10 DEF Transport!Connect, Transport!Emit, WebRtcSession, TransportPlaces, Acquiring
<1>11. CASE Transport!RemoteSet
  BY <1>1, <1>11 DEF Transport!RemoteSet, WebRtcSession, TransportPlaces, Acquiring
<1>12. CASE Transport!WaitEnds
  <2>1. CASE /\ t.peer = "connected" /\ t.at = "waiting"
             /\ here' = [Transport!Emit(t) EXCEPT !.at = "connected", !.poll = "armed"]
    <3> DEFINE m == Transport!Emit(t)
    <3>1. /\ m \in WebRtcSession /\ m.peer = t.peer /\ m.reconnect = t.reconnect /\ ~m.closed
          /\ ~m.late /\ m.stream = t.stream /\ ~t.closed
      BY <1>1, <2>1 DEF Transport!Emit, WebRtcSession
    <3>2. here' = [m EXCEPT !.at = "connected", !.poll = "armed"]
      BY <2>1
    <3> HIDE DEF m
    <3>3. /\ here' \in WebRtcSession /\ here'.at = "connected" /\ here'.peer = m.peer
          /\ here'.reconnect = m.reconnect /\ ~here'.closed /\ ~here'.late
          /\ here'.stream = m.stream
      <4>1. "connected" \in TransportPlaces /\ "armed" \in {"off", "armed", "reading"}
        BY DEF TransportPlaces
      <4> DEFINE over == [m EXCEPT !.at = "connected", !.poll = "armed"]
      <4>2. over \in WebRtcSession
        BY <3>1, <4>1 DEF WebRtcSession
      <4>3. /\ over.at = "connected" /\ over.peer = m.peer /\ over.reconnect = m.reconnect
            /\ ~over.closed /\ ~over.late /\ over.stream = m.stream
        BY <3>1 DEF WebRtcSession
      <4> QED BY <3>2, <4>2, <4>3
    <3> QED BY <1>1, <2>1, <3>1, <3>3 DEF Acquiring
  <2>2. CASE t.at = "waiting" /\ here' = [t EXCEPT !.at = "failed"]
    BY <1>1, <2>2 DEF WebRtcSession, TransportPlaces, Acquiring
  <2> QED BY <1>12, <2>1, <2>2 DEF Transport!WaitEnds
<1>13. ASSUME NEW s \in {"connecting", "connected", "disconnected", "failed"},
              Transport!PeerChanges(s)
       PROVE  TransportInv'
  <2> DEFINE drops == IF s = "disconnected" THEN t.drops + 1 ELSE t.drops
             timer == CASE s = "disconnected" -> "armed"
                        [] s \in {"connected", "failed"} -> "off"
                        [] OTHER -> t.reconnect
  <2>1. here' = [t EXCEPT !.told = s # "disconnected", !.late = t.late \/ t.closed, !.peer = s,
                          !.drops = drops, !.reconnect = timer]
    BY <1>1, <1>13 DEF Transport!PeerChanges, Transport!Emit, WebRtcSession
  <2>2. t.peer # "none" /\ ~t.closed /\ s \in PeerStates
    BY <1>13 DEF Transport!PeerChanges, Transport!HasSession, PeerStates
  <2>3. drops \in Nat /\ timer \in {"off", "armed"}
    BY <1>1 DEF WebRtcSession
  <2> HIDE DEF drops, timer
  <2>4. here' \in WebRtcSession
    BY <1>1, <2>1, <2>2, <2>3 DEF WebRtcSession
  <2>5. here'.peer = s /\ ~here'.late /\ ~here'.closed /\ here'.at = t.at
    BY <1>1, <2>1, <2>2 DEF WebRtcSession
  <2> QED BY <1>1, <2>2, <2>4, <2>5 DEF Acquiring
<1>14. CASE Transport!ReconnectTimeout
  BY <1>1, <1>14 DEF Transport!ReconnectTimeout, Transport!Emit, WebRtcSession, Acquiring
<1>15. CASE Transport!ChannelOpens
  BY <1>1, <1>15 DEF Transport!ChannelOpens, WebRtcSession, Acquiring
<1>16. CASE Transport!ChannelEnds
  BY <1>1, <1>16 DEF Transport!ChannelEnds, Transport!Emit, WebRtcSession, Acquiring
<1>17. CASE Transport!PollAudioLevels
  BY <1>1, <1>17 DEF Transport!PollAudioLevels, WebRtcSession, Acquiring
<1> QED
  BY <1>2, <1>3, <1>4, <1>5, <1>6, <1>7, <1>8, <1>9, <1>10, <1>11, <1>12, <1>13, <1>14,
     <1>15, <1>16, <1>17
     DEF Transport!Next, Transport!Setup
----------------------------------------------------------------------------
(* Starting and ending calls at the provider (RealtimeBackend).            *)
BackendRecord ==
  [at : [Attempts -> Backend!Places], aborted : SUBSET Attempts, created : SUBSET Attempts,
   live : SUBSET Attempts, table : SUBSET Attempts, orchestrating : SUBSET Attempts,
   sockets : SUBSET Attempts, hanging : SUBSET Attempts, tried : SUBSET Attempts,
   known : SUBSET Attempts, unread : SUBSET Attempts]

\* What the place of an attempt says of its call: it has a name from the headers
\* on, a socket from the body on, an entry once it has started, and a call with a
\* name is followed until a hang-up was tried or its body could not be read.
AttemptInv(b, c) ==
  /\ b.at[c] \in {"idle", "posting"} => c \notin b.known
  /\ c \in b.known => c \in b.table \/ c \in b.tried \/ c \in b.unread
                        \/ b.at[c] \in {"reading", "opening"}
  /\ c \in b.table => b.at[c] = "started" /\ c \notin b.tried
  /\ c \in b.sockets => b.at[c] \in {"opening", "started"} /\ c \notin b.tried
  /\ c \in b.tried => b.at[c] \in {"cleaning", "failed", "started"}
  /\ b.at[c] = "cleaning" => c \in b.tried
  /\ b.at[c] = "opening" => c \in b.sockets
  /\ c \in b.orchestrating => c \in b.table /\ c \in b.sockets

BackendInv == here \in BackendRecord /\ \A c \in Attempts : AttemptInv(here, c)

LEMMA BackendPromises ==
  BackendInv => Backend!CreatedIsTrackedOrHungUp /\ Backend!OnlyTrackedCallsWork
<1> USE DEF Backend!B
<1> SUFFICES ASSUME BackendInv
             PROVE  Backend!CreatedIsTrackedOrHungUp /\ Backend!OnlyTrackedCallsWork
  OBVIOUS
<1>1. /\ here.created \subseteq Attempts /\ here.orchestrating \subseteq Attempts
      /\ here.tried \subseteq Attempts
  BY DEF BackendInv, BackendRecord
<1> QED
  BY <1>1 DEF BackendInv, AttemptInv, Backend!CreatedIsTrackedOrHungUp, Backend!OnlyTrackedCallsWork

LEMMA BackendStarts == Backend!Init => BackendInv
  BY DEF Backend!Init, BackendInv, BackendRecord, AttemptInv, Backend!Places

\* A step that leaves every field of the other attempts alone.
LEMMA OneAttemptMoves ==
  ASSUME BackendInv, NEW c \in Attempts, here' \in BackendRecord,
         \A d \in Attempts \ {c} :
           /\ here'.at[d] = here.at[d]
           /\ d \in here'.table <=> d \in here.table
           /\ d \in here'.orchestrating <=> d \in here.orchestrating
           /\ d \in here'.sockets <=> d \in here.sockets
           /\ d \in here'.tried <=> d \in here.tried
           /\ d \in here'.known <=> d \in here.known
           /\ d \in here'.unread <=> d \in here.unread,
         AttemptInv(here', c)
  PROVE  BackendInv'
<1>1. ASSUME NEW d \in Attempts \ {c} PROVE AttemptInv(here', d)
  BY <1>1 DEF BackendInv, AttemptInv
<1> QED BY <1>1 DEF BackendInv

LEMMA BackendSteps ==
  ASSUME BackendInv, Backend!Next PROVE BackendInv'
<1> USE DEF Backend!B
<1>1. PICK c \in Attempts : Backend!Step(c)
  BY DEF Backend!Next
<1>2. here \in BackendRecord /\ AttemptInv(here, c)
  BY DEF BackendInv
<1> SUFFICES /\ here' \in BackendRecord
             /\ \A d \in Attempts \ {c} :
                  /\ here'.at[d] = here.at[d]
                  /\ d \in here'.table <=> d \in here.table
                  /\ d \in here'.orchestrating <=> d \in here.orchestrating
                  /\ d \in here'.sockets <=> d \in here.sockets
                  /\ d \in here'.tried <=> d \in here.tried
                  /\ d \in here'.known <=> d \in here.known
                  /\ d \in here'.unread <=> d \in here.unread
             /\ AttemptInv(here', c)
  BY OneAttemptMoves
<1> USE DEF BackendRecord, AttemptInv, Backend!Go, Backend!Places
<1>3. CASE Backend!StartRealtimeCall(c)
  BY <1>2, <1>3 DEF Backend!StartRealtimeCall
<1>4. CASE Backend!ProviderCreates(c)
  BY <1>2, <1>4 DEF Backend!ProviderCreates
<1>5. CASE Backend!PostFails(c)
  BY <1>2, <1>5 DEF Backend!PostFails
<1>6. CASE Backend!HeadersArrive(c)
  BY <1>2, <1>6 DEF Backend!HeadersArrive
<1>7. CASE Backend!BodyRead(c)
  <2>1. CASE here' = [Backend!Go(here, c, "opening") EXCEPT !.sockets = @ \cup {c}]
    <3>1. here.at[c] = "reading"
      BY <1>7 DEF Backend!BodyRead
    <3>2. here' = [here EXCEPT !.at[c] = "opening", !.sockets = @ \cup {c}]
      BY <1>2, <2>1
    <3>a. [here.at EXCEPT ![c] = "opening"] \in [Attempts -> Backend!Places]
      BY <1>2
    <3>b. here.sockets \cup {c} \in SUBSET Attempts
      BY <1>2
    <3>3. here' \in BackendRecord
      BY <1>2, <3>2, <3>a, <3>b
    <3>4. /\ here'.at[c] = "opening" /\ here'.sockets = here.sockets \cup {c}
          /\ here'.unread = here.unread /\ here'.table = here.table /\ here'.tried = here.tried
          /\ here'.known = here.known /\ here'.orchestrating = here.orchestrating
          /\ \A d \in Attempts \ {c} : here'.at[d] = here.at[d]
      BY <1>2, <3>2
    <3> QED BY <1>2, <3>1, <3>3, <3>4
  <2>2. CASE here' = [Backend!Go(here, c, "failed") EXCEPT !.unread = @ \cup {c}]
    <3>1. here.at[c] = "reading"
      BY <1>7 DEF Backend!BodyRead
    <3>2. here' = [here EXCEPT !.at[c] = "failed", !.unread = @ \cup {c}]
      BY <1>2, <2>2
    <3>a. [here.at EXCEPT ![c] = "failed"] \in [Attempts -> Backend!Places]
      BY <1>2
    <3>b. here.unread \cup {c} \in SUBSET Attempts
      BY <1>2
    <3>3. here' \in BackendRecord
      BY <1>2, <3>2, <3>a, <3>b
    <3>4. /\ here'.at[c] = "failed" /\ here'.unread = here.unread \cup {c}
          /\ here'.sockets = here.sockets /\ here'.table = here.table /\ here'.tried = here.tried
          /\ here'.known = here.known /\ here'.orchestrating = here.orchestrating
          /\ \A d \in Attempts \ {c} : here'.at[d] = here.at[d]
      BY <1>2, <3>2
    <3> QED BY <1>2, <3>1, <3>3, <3>4
  <2> QED BY <1>7, <2>1, <2>2 DEF Backend!BodyRead
<1>8. CASE Backend!SidebandOpens(c)
  BY <1>2, <1>8 DEF Backend!SidebandOpens
<1>9. CASE Backend!SidebandFails(c)
  BY <1>2, <1>9 DEF Backend!SidebandFails
<1>10. CASE Backend!HangUpDone(c)
  <2>1. PICK reached \in BOOLEAN :
          here' = [here EXCEPT !.hanging = @ \ {c}, !.live = IF reached THEN @ \ {c} ELSE @,
                               !.at[c] = IF @ = "cleaning" THEN "failed" ELSE @]
    BY <1>10 DEF Backend!HangUpDone
  <2> DEFINE live == IF reached THEN here.live \ {c} ELSE here.live
             there == IF here.at[c] = "cleaning" THEN "failed" ELSE here.at[c]
  <2>2. here' = [here EXCEPT !.hanging = @ \ {c}, !.live = live, !.at[c] = there]
    BY <2>1
  <2>3. live \in SUBSET Attempts /\ there \in Backend!Places
    BY <1>2
  <2>4. there = here.at[c] \/ (here.at[c] = "cleaning" /\ there = "failed")
    OBVIOUS
  <2> HIDE DEF live, there
  <2>5. here' \in BackendRecord
    BY <1>2, <2>2, <2>3
  <2>6. /\ here'.at[c] = there /\ here'.table = here.table /\ here'.sockets = here.sockets
        /\ here'.tried = here.tried /\ here'.known = here.known /\ here'.unread = here.unread
        /\ here'.orchestrating = here.orchestrating
        /\ \A d \in Attempts \ {c} : here'.at[d] = here.at[d]
    BY <1>2, <2>2
  <2> QED BY <1>2, <2>4, <2>5, <2>6
<1>11. CASE Backend!Abort(c)
  BY <1>2, <1>11 DEF Backend!Abort
<1>12. CASE Backend!EndRealtimeCall(c)
  BY <1>2, <1>12 DEF Backend!EndRealtimeCall
<1>13. CASE Backend!SidebandCloses(c)
  BY <1>2, <1>13 DEF Backend!SidebandCloses
<1>14. CASE Backend!CallOver(c)
  BY <1>2, <1>14 DEF Backend!CallOver
<1> QED
  BY <1>1, <1>3, <1>4, <1>5, <1>6, <1>7, <1>8, <1>9, <1>10, <1>11, <1>12, <1>13, <1>14
     DEF Backend!Step
----------------------------------------------------------------------------
(* Hearing a voice before it is chosen (VoicePreview).                     *)
Requests == 1..MaxRequests
Loading == {"key", "sample", "sampled", "rejected", "mode"}
CallPlaces == Loading \cup {"none", "playing", "over"}
LiveSocket == {"connecting", "open"}
SampleRecord == [socket : LiveSocket \cup {"none", "closed"}, chunks : Nat]
PreviewCall == [at : CallPlaces, voice : Voices \cup {0}, aborted : BOOLEAN,
                sample : SampleRecord, cached : BOOLEAN]
PreviewRecord ==
  [request : 0..MaxRequests, calls : [Requests -> PreviewCall], cache : SUBSET (Voices \cup {0}),
   player : 0..MaxRequests, sounding : SUBSET Requests,
   status : {"idle", "loading", "playing", "error"}, mounted : BOOLEAN]

\* A socket is open only for the sample of the request that is current; a request
\* that was not made, and the one a screen left behind, stands for no call.
PreviewInv ==
  /\ here \in PreviewRecord
  /\ \A r \in Requests : r > here.request => here.calls[r].at = "none"
  /\ \A r \in Requests : here.calls[r].sample.socket \in LiveSocket =>
       r = here.request /\ here.calls[r].at = "sample"
  /\ ~here.mounted => here.request \in Requests /\ here.calls[here.request].at = "none"
  /\ here.request = 0 => here.status # "loading"
  /\ here.sounding \subseteq {here.player} /\ here.player \in {0, here.request}
  /\ ~here.mounted => here.sounding = {}
  /\ here.player # 0 => here.calls[here.player].at = "playing"
  /\ here.status = "playing" /\ here.mounted => here.player # 0
  /\ here.status = "loading" /\ here.mounted => here.calls[here.request].at \in Loading

LEMMA PreviewPromises ==
  PreviewInv => /\ Preview!OnePreviewSounds /\ Preview!OneSampleAtATime
                /\ Preview!StatusTellsTheRequest
  BY DEF PreviewInv, Preview!OnePreviewSounds, Preview!OneSampleAtATime,
         Preview!StatusTellsTheRequest, Preview!P, Requests, LiveSocket, Loading

LEMMA PreviewStarts == Preview!Init => PreviewInv
<1> SUFFICES ASSUME Preview!Init PROVE PreviewInv
  OBVIOUS
<1>1. Preview!NoCall \in PreviewCall /\ Preview!NoCall.at = "none"
      /\ Preview!NoCall.sample.socket = "none"
  BY DEF Preview!NoCall, Preview!NoSample, PreviewCall, SampleRecord, CallPlaces
<1>2. here = [request |-> 0, calls |-> [r \in Requests |-> Preview!NoCall], cache |-> {},
              player |-> 0, sounding |-> {}, status |-> "idle", mounted |-> TRUE]
  BY DEF Preview!Init, Requests
<1>3. here \in PreviewRecord
  BY <1>1, <1>2, PartsConstants DEF PreviewRecord
<1> QED BY <1>1, <1>2, <1>3 DEF PreviewInv, LiveSocket

LEMMA SomeRequest ==
  ASSUME NEW r \in 0..MaxRequests, r # 0 PROVE r \in Requests
  BY PartsConstants DEF Requests

\* A call goes on, and nothing but the call and the cache changes.
LEMMA CallGoesOn ==
  ASSUME PreviewInv, NEW r \in Requests, NEW call \in PreviewCall,
         \/ here' = [here EXCEPT !.calls[r] = call]
         \/ \E v \in Voices \cup {0} : here' = [here EXCEPT !.cache = @ \cup {v}, !.calls[r] = call],
         here.calls[r].at \in Loading,
         call.sample.socket \in LiveSocket => r = here.request /\ call.at = "sample",
         r = here.request /\ here.status = "loading" => call.at \in Loading
  PROVE  PreviewInv'
<1>1. /\ here'.calls = [here.calls EXCEPT ![r] = call]
      /\ here'.request = here.request /\ here'.player = here.player
      /\ here'.sounding = here.sounding /\ here'.status = here.status
      /\ here'.mounted = here.mounted
      /\ here'.cache \in SUBSET (Voices \cup {0})
  <2>0. here \in PreviewRecord
    BY DEF PreviewInv
  <2>1. here.cache \in SUBSET (Voices \cup {0}) /\ here = [here EXCEPT !.cache = @]
    BY <2>0 DEF PreviewRecord
  <2>2. PICK cache \in SUBSET (Voices \cup {0}) :
          here' = [here EXCEPT !.cache = cache, !.calls[r] = call]
    <3>1. CASE here' = [here EXCEPT !.calls[r] = call]
      <4>1. here' = [here EXCEPT !.cache = here.cache, !.calls[r] = call]
        BY <2>0, <3>1 DEF PreviewRecord
      <4> QED BY <2>1, <4>1
    <3>2. ASSUME NEW v \in Voices \cup {0},
                 here' = [here EXCEPT !.cache = @ \cup {v}, !.calls[r] = call]
          PROVE  \E cache \in SUBSET (Voices \cup {0}) :
                   here' = [here EXCEPT !.cache = cache, !.calls[r] = call]
      <4>1. here.cache \cup {v} \in SUBSET (Voices \cup {0})
        BY <2>1
      <4> QED BY <3>2, <4>1
    <3> QED BY <3>1, <3>2
  <2> QED BY <2>0, <2>2 DEF PreviewRecord
<1>2. here.calls \in [Requests -> PreviewCall] /\ here.request \in 0..MaxRequests
  BY DEF PreviewInv, PreviewRecord
<1>3. \A q \in Requests : here'.calls[q] = IF q = r THEN call ELSE here.calls[q]
  BY <1>1, <1>2
<1>4. here'.calls \in [Requests -> PreviewCall]
  BY <1>1, <1>2
<1>5. here' \in PreviewRecord
  BY <1>1, <1>4 DEF PreviewInv, PreviewRecord
<1>6. here.calls[r].at \notin {"none", "playing"} /\ ~(r > here.request) /\ (~here.mounted => r # here.request)
  BY DEF PreviewInv, Loading
<1>n. here.request # 0 => here.request \in Requests
  BY <1>2, SomeRequest
<1>7. here.status = "loading" /\ here.mounted => here.request \in Requests
  <2>1. here.status = "loading" => here.request # 0
    BY DEF PreviewInv
  <2> QED BY <1>n, <2>1
<1>8. here.player # 0 => here.player # r /\ here.player \in Requests
  BY <1>n, <1>6 DEF PreviewInv
<1>9. /\ here'.status = "loading" /\ here'.mounted => here'.calls[here'.request].at \in Loading
      /\ here'.player # 0 => here'.calls[here'.player].at = "playing"
      /\ ~here'.mounted => here'.request \in Requests /\ here'.calls[here'.request].at = "none"
  <2>1. here.status = "loading" /\ here.mounted => here'.calls[here.request].at \in Loading
    BY <1>3, <1>7 DEF PreviewInv
  <2>2. here.player # 0 => here'.calls[here.player].at = "playing"
    BY <1>3, <1>8 DEF PreviewInv
  <2>3. ~here.mounted => here.request \in Requests /\ here'.calls[here.request].at = "none"
    BY <1>3, <1>6 DEF PreviewInv
  <2> QED BY <1>1, <2>1, <2>2, <2>3
<1>10. /\ \A q \in Requests : q > here.request => here'.calls[q].at = "none"
       /\ \A q \in Requests : here'.calls[q].sample.socket \in LiveSocket =>
            q = here.request /\ here'.calls[q].at = "sample"
  BY <1>3, <1>6 DEF PreviewInv
<1> QED BY <1>1, <1>5, <1>9, <1>10 DEF PreviewInv

\* The catch of play(): the call is over, and with it what the current one shows.
LEMMA CallIsCaught ==
  ASSUME PreviewInv, NEW r \in Requests, NEW status \in {"idle", "error"},
         here' = Preview!Caught(here, r, status),
         here.calls[r].at \in Loading \ {"sample"}
           \/ (here.calls[r].at = "playing" /\ r = here.request)
  PROVE  PreviewInv'
<1> DEFINE call == [here.calls[r] EXCEPT !.at = "over"]
<1>1. here.calls[r] \in PreviewCall
  BY DEF PreviewInv, PreviewRecord
<1>2. /\ call \in PreviewCall /\ call.at = "over"
      /\ call.sample.socket = here.calls[r].sample.socket
  BY <1>1 DEF PreviewCall, CallPlaces
<1>3. call.sample.socket \notin LiveSocket
  BY <1>2 DEF PreviewInv
<1>4. CASE r # here.request
  <2>1. here' = [here EXCEPT !.calls[r] = call]
    BY <1>4 DEF Preview!Caught
  <2> HIDE DEF call
  <2> QED BY <1>2, <1>3, <1>4, <2>1, CallGoesOn DEF Loading
<1>5. CASE r = here.request
  <2>1. here' = [here EXCEPT !.sounding = @ \ {here.player}, !.player = 0,
                             !.calls[r] = call, !.status = status]
    BY <1>5 DEF Preview!Caught, Preview!Released, PreviewInv, PreviewRecord
  <2> HIDE DEF call
  <2>2. here.calls \in [Requests -> PreviewCall] /\ 0 \in 0..MaxRequests
    BY PartsConstants DEF PreviewInv, PreviewRecord
  <2>3. /\ here'.calls = [here.calls EXCEPT ![r] = call]
        /\ here'.sounding = here.sounding \ {here.player} /\ here'.player = 0
        /\ here'.status = status /\ here'.request = here.request
        /\ here'.mounted = here.mounted /\ here'.cache = here.cache
    BY <2>1 DEF PreviewInv, PreviewRecord
  <2>4. here'.calls \in [Requests -> PreviewCall]
    BY <1>2, <2>2, <2>3
  <2>5. here' \in PreviewRecord
    <3>1. [here.calls EXCEPT ![r] = call] \in [Requests -> PreviewCall]
      BY <2>3, <2>4
    <3>2. here.sounding \ {here.player} \in SUBSET Requests
      BY DEF PreviewInv, PreviewRecord
    <3> QED BY <2>1, <2>2, <3>1, <3>2 DEF PreviewInv, PreviewRecord
  <2>6. \A q \in Requests : here'.calls[q] = IF q = r THEN call ELSE here.calls[q]
    BY <2>2, <2>3
  <2>7. here'.sounding = {}
    BY <2>3 DEF PreviewInv
  <2>8. here.mounted /\ ~(r > here.request)
    BY <1>5 DEF PreviewInv, Loading
  <2>9. \A q \in Requests : q > here.request => here'.calls[q].at = "none"
    BY <2>6, <2>8 DEF PreviewInv
  <2>10. \A q \in Requests : here'.calls[q].sample.socket \in LiveSocket =>
           q = here.request /\ here'.calls[q].at = "sample"
    BY <1>3, <2>6 DEF PreviewInv
  <2> QED BY <2>3, <2>5, <2>7, <2>8, <2>9, <2>10 DEF PreviewInv
<1> QED BY <1>4, <1>5

\* The abort settles the sample of the current request, the only one with a socket,
\* and the player of that request is released: nothing is open or sounds.
LEMMA AbortSilences ==
  ASSUME PreviewInv
  PROVE  LET p == Preview!Released(Preview!AbortCurrent(here))
         IN /\ p \in PreviewRecord
            /\ p.request = here.request /\ p.mounted = here.mounted /\ p.status = here.status
            /\ p.player = 0 /\ p.sounding = {} /\ p.cache = here.cache
            /\ \A r \in Requests : p.calls[r].sample.socket \notin LiveSocket
            /\ \A r \in Requests : r > p.request => p.calls[r].at = "none"
<1> DEFINE a == Preview!AbortCurrent(here)
           p == Preview!Released(a)
           now == here.request
<1>1. /\ here \in PreviewRecord /\ here.calls \in [Requests -> PreviewCall]
      /\ now \in 0..MaxRequests
      /\ now # 0 => now \in Requests
  BY PartsConstants DEF PreviewInv, PreviewRecord, Requests
<1>2. /\ a \in PreviewRecord
      /\ a.request = now /\ a.mounted = here.mounted /\ a.status = here.status
      /\ a.player = here.player /\ a.sounding = here.sounding /\ a.cache = here.cache
      /\ \A r \in Requests : a.calls[r].sample.socket \notin LiveSocket
      /\ \A r \in Requests : r > now => a.calls[r].at = "none"
  <2>1. CASE now = 0 \/ here.calls[now].at \in {"none", "over", "playing"}
    <3>1. a = here
      BY <2>1 DEF Preview!AbortCurrent
    <3>2. \A r \in Requests : here.calls[r].sample.socket \notin LiveSocket
      BY <2>1 DEF PreviewInv, Requests
    <3> HIDE DEF a
    <3> QED BY <1>1, <3>1, <3>2 DEF PreviewInv
  <2>2. CASE now # 0 /\ here.calls[now].at \notin {"none", "over", "playing"}
    <3> DEFINE sample == here.calls[now].sample
               settled == [sample EXCEPT !.socket = IF @ = "none" THEN @ ELSE "closed"]
               at == IF here.calls[now].at = "sample" THEN "rejected" ELSE here.calls[now].at
               call == [here.calls[now] EXCEPT !.sample = settled, !.aborted = TRUE, !.at = at]
    <3>1. here.calls[now] \in PreviewCall /\ sample \in SampleRecord /\ now \in Requests
      BY <1>1, <2>2 DEF PreviewCall
    <3>2. settled \in SampleRecord /\ settled.socket \notin LiveSocket
      BY <3>1 DEF SampleRecord, LiveSocket
    <3>3. at \in CallPlaces
      BY <3>1 DEF PreviewCall, CallPlaces, Loading
    <3>4. call \in PreviewCall /\ call.sample = settled
      <4> HIDE DEF settled, at
      <4> QED BY <3>1, <3>2, <3>3 DEF PreviewCall
    <3>5. a = [here EXCEPT !.calls[now] = call]
      <4> DEFINE quiet == [here.calls[now] EXCEPT !.sample = settled]
                 first == [here EXCEPT !.calls[now] = quiet]
      <4>1. Preview!Settled(here, now) = first
        BY DEF Preview!Settled
      <4>2. a = [first EXCEPT !.calls[now].aborted = TRUE,
                              !.calls[now].at = IF @ = "sample" THEN "rejected" ELSE @]
        BY <2>2, <4>1 DEF Preview!AbortCurrent
      <4>3. quiet.at = here.calls[now].at
        BY <3>1 DEF PreviewCall
      <4> HIDE DEF settled
      <4>4. first.calls = [here.calls EXCEPT ![now] = quiet] /\ first.calls[now] = quiet
        BY <1>1, <3>1 DEF PreviewRecord
      <4>5. a = [first EXCEPT !.calls = [first.calls EXCEPT ![now] =
                   [quiet EXCEPT !.aborted = TRUE, !.at = at]]]
        <5> DEFINE mute == [quiet EXCEPT !.aborted = TRUE]
                   second == [first EXCEPT !.calls[now] = mute]
        <5>1. a = [second EXCEPT !.calls[now].at = at]
          <6>1. a = [first EXCEPT !.calls[now].aborted = TRUE, !.calls[now].at = at]
            <7> HIDE DEF first, quiet
            <7> QED BY <4>2, <4>3, <4>4
          <6>2. [first EXCEPT !.calls[now].aborted = TRUE] = second
            <7> HIDE DEF first, quiet
            <7> QED BY <4>4
          <6> HIDE DEF first, second, at, a
          <6>3. a = [[first EXCEPT !.calls[now].aborted = TRUE] EXCEPT !.calls[now].at = at]
            BY <6>1
          <6> QED BY <6>2, <6>3
        <5>2. mute.at = here.calls[now].at
          BY <3>1, <4>3 DEF PreviewCall
        <5> HIDE DEF first, quiet, mute
        <5>3. first.calls \in [Requests -> PreviewCall \cup {quiet}] /\ DOMAIN first = DOMAIN here
          BY <1>1, <3>1, <4>4 DEF first
        <5>4. second.calls = [first.calls EXCEPT ![now] = mute] /\ second.calls[now] = mute
          BY <1>1, <3>1, <5>3 DEF PreviewRecord
        <5>5. a = [second EXCEPT !.calls = [second.calls EXCEPT ![now] = [mute EXCEPT !.at = at]]]
          BY <5>1, <5>2, <5>4
        <5>6. [second.calls EXCEPT ![now] = [mute EXCEPT !.at = at]]
                = [first.calls EXCEPT ![now] = [mute EXCEPT !.at = at]]
          BY <3>1, <5>3, <5>4
        <5>7. a = [first EXCEPT !.calls = [first.calls EXCEPT ![now] = [mute EXCEPT !.at = at]]]
          BY <1>1, <5>3, <5>5, <5>6
        <5> QED BY <5>7 DEF mute
      <4>6. [quiet EXCEPT !.aborted = TRUE, !.at = at] = call
        BY <3>1 DEF PreviewCall
      <4> HIDE DEF call, quiet, at
      <4>7. a = [first EXCEPT !.calls = [here.calls EXCEPT ![now] = call]]
        BY <1>1, <3>1, <4>4, <4>5, <4>6
      <4> QED BY <1>1, <4>7 DEF PreviewRecord
    <3> HIDE DEF call, a, settled, at
    <3>6. /\ a.calls = [here.calls EXCEPT ![now] = call]
          /\ a.request = now /\ a.mounted = here.mounted /\ a.status = here.status
          /\ a.player = here.player /\ a.sounding = here.sounding /\ a.cache = here.cache
      BY <1>1, <3>5 DEF PreviewRecord
    <3>7. a.calls \in [Requests -> PreviewCall]
      BY <1>1, <3>4, <3>6
    <3>8. a \in PreviewRecord
      BY <1>1, <3>5, <3>6, <3>7 DEF PreviewRecord
    <3>9. \A r \in Requests : a.calls[r] = IF r = now THEN call ELSE here.calls[r]
      BY <1>1, <3>6
    <3>10. \A r \in Requests : a.calls[r].sample.socket \notin LiveSocket
      BY <3>2, <3>4, <3>9 DEF PreviewInv
    <3>11. \A r \in Requests : r > now => a.calls[r].at = "none"
      BY <1>1, <3>9 DEF PreviewInv, Requests
    <3> QED BY <3>6, <3>8, <3>10, <3>11
  <2> QED BY <2>1, <2>2
<1>3. p = [a EXCEPT !.sounding = @ \ {a.player}, !.player = 0]
  BY DEF Preview!Released
<1> HIDE DEF a
<1>4. 0 \in 0..MaxRequests /\ a.sounding \ {a.player} \in SUBSET Requests
      /\ a.sounding \ {a.player} = {}
  BY <1>2, PartsConstants DEF PreviewInv, PreviewRecord
<1>5. p \in PreviewRecord
  BY <1>2, <1>3, <1>4 DEF PreviewRecord
<1>6. /\ p.request = a.request /\ p.mounted = a.mounted /\ p.status = a.status /\ p.player = 0
      /\ p.sounding = {} /\ p.cache = a.cache /\ p.calls = a.calls
  BY <1>2, <1>3, <1>4 DEF PreviewRecord
<1> HIDE DEF p
<1>7. /\ p \in PreviewRecord
      /\ p.request = here.request /\ p.mounted = here.mounted /\ p.status = here.status
      /\ p.player = 0 /\ p.sounding = {} /\ p.cache = here.cache
      /\ \A r \in Requests : p.calls[r].sample.socket \notin LiveSocket
      /\ \A r \in Requests : r > p.request => p.calls[r].at = "none"
  BY <1>2, <1>5, <1>6
<1> QED BY <1>7 DEF a, p

LEMMA PreviewSteps ==
  ASSUME PreviewInv, Preview!Next PROVE PreviewInv'
<1> USE DEF Preview!P
<1> DEFINE p == Preview!Released(Preview!AbortCurrent(here))
<1>1. /\ here \in PreviewRecord /\ here.calls \in [Requests -> PreviewCall]
      /\ here.request \in 0..MaxRequests
  BY DEF PreviewInv, PreviewRecord
<1>2. /\ p \in PreviewRecord
      /\ p.request = here.request /\ p.mounted = here.mounted /\ p.status = here.status
      /\ p.player = 0 /\ p.sounding = {} /\ p.cache = here.cache
      /\ \A r \in Requests : p.calls[r].sample.socket \notin LiveSocket
      /\ \A r \in Requests : r > p.request => p.calls[r].at = "none"
  BY AbortSilences
<1>3. ASSUME NEW v \in Voices, Preview!Play(v) PROVE PreviewInv'
  <2> DEFINE r == here.request + 1
             call == [Preview!NoCall EXCEPT !.voice = v, !.cached = v \in here.cache,
                        !.at = IF v \in here.cache THEN "mode" ELSE "key"]
             asked == [p EXCEPT !.request = r, !.status = "loading"]
  <2>1. here.mounted /\ r \in Requests
    BY <1>1, <1>3, PartsConstants DEF Preview!Play, Requests
  <2>2. /\ call \in PreviewCall /\ call.at \in Loading
        /\ call.sample.socket \notin LiveSocket
    <3> DEFINE at == IF v \in here.cache THEN "mode" ELSE "key"
    <3>1. at \in Loading /\ at \in CallPlaces
      BY DEF Loading, CallPlaces
    <3>2. Preview!NoCall \in PreviewCall /\ Preview!NoCall.sample.socket = "none"
      BY DEF Preview!NoCall, Preview!NoSample, PreviewCall, SampleRecord, CallPlaces
    <3>3. call = [Preview!NoCall EXCEPT !.voice = v, !.cached = v \in here.cache, !.at = at]
      OBVIOUS
    <3> HIDE DEF at
    <3>4. (v \in here.cache) \in BOOLEAN
      OBVIOUS
    <3>5. /\ call.at = at /\ call.sample = Preview!NoCall.sample
          /\ call.aborted = Preview!NoCall.aborted /\ call.voice = v
          /\ call.cached = (v \in here.cache)
      BY <3>2, <3>3 DEF PreviewCall
    <3>6. call \in PreviewCall
      BY <3>1, <3>2, <3>3, <3>4 DEF PreviewCall
    <3> QED BY <3>1, <3>2, <3>5, <3>6 DEF LiveSocket
  <2>3. here' = [asked EXCEPT !.calls[r] = call]
    BY <1>3 DEF Preview!Play
  <2> HIDE DEF p, call, r
  <2>4. asked \in PreviewRecord /\ asked.calls = p.calls
    <3>1. r \in 0..MaxRequests
      BY <2>1, PartsConstants DEF Requests
    <3> QED BY <1>2, <3>1 DEF PreviewRecord
  <2>5. asked.request = r /\ asked.status = "loading" /\ asked.mounted = p.mounted
        /\ asked.player = 0 /\ asked.sounding = {}
    BY <1>2 DEF PreviewRecord
  <2> HIDE DEF asked
  <2>6. /\ here'.calls = [p.calls EXCEPT ![r] = call]
        /\ here'.request = r /\ here'.status = "loading" /\ here'.mounted = here.mounted
        /\ here'.player = 0 /\ here'.sounding = {}
    BY <1>2, <2>3, <2>4, <2>5 DEF PreviewRecord
  <2>7. p.calls \in [Requests -> PreviewCall]
    BY <1>2 DEF PreviewRecord
  <2>8. here'.calls \in [Requests -> PreviewCall]
    BY <2>1, <2>2, <2>6, <2>7
  <2>9. here' \in PreviewRecord
    BY <2>3, <2>4, <2>6, <2>8 DEF PreviewRecord
  <2>10. \A q \in Requests : here'.calls[q] = IF q = r THEN call ELSE p.calls[q]
    BY <2>6, <2>7
  <2>11. /\ \A q \in Requests : q > r => here'.calls[q].at = "none"
         /\ \A q \in Requests : here'.calls[q].sample.socket \notin LiveSocket
         /\ here'.calls[r].at \in Loading
         /\ r # 0
    BY <1>1, <1>2, <2>1, <2>2, <2>10 DEF Requests, r
  <2> QED BY <2>1, <2>6, <2>9, <2>11 DEF PreviewInv
<1>4. CASE Preview!Stop
  <2>1. here' = [p EXCEPT !.request = here.request + 1, !.status = "idle"]
    BY <1>2, <1>4 DEF Preview!Stop, PreviewRecord
  <2>2. here.mounted /\ here.request + 1 \in 0..MaxRequests
    BY <1>1, <1>4, PartsConstants DEF Preview!Stop
  <2> HIDE DEF p
  <2>3. here' \in PreviewRecord
    BY <1>2, <2>1, <2>2 DEF PreviewRecord
  <2>4. /\ here'.calls = p.calls /\ here'.request = here.request + 1 /\ here'.status = "idle"
        /\ here'.mounted = p.mounted /\ here'.player = 0 /\ here'.sounding = {}
    BY <1>2, <2>1 DEF PreviewRecord
  <2>5. \A q \in Requests : q > here.request + 1 => here'.calls[q].at = "none"
    BY <1>1, <1>2, <2>4 DEF Requests
  <2> QED BY <1>2, <2>2, <2>3, <2>4, <2>5 DEF PreviewInv
<1>5. CASE Preview!Unmount
  <2>1. here' = [p EXCEPT !.request = here.request + 1, !.mounted = FALSE]
    BY <1>2, <1>5 DEF Preview!Unmount, PreviewRecord
  <2>2. here.request + 1 \in 0..MaxRequests /\ here.request + 1 \in Requests
    BY <1>1, <1>5, PartsConstants DEF Preview!Unmount, Requests
  <2> HIDE DEF p
  <2>3. here' \in PreviewRecord
    BY <1>2, <2>1, <2>2 DEF PreviewRecord
  <2>4. /\ here'.calls = p.calls /\ here'.request = here.request + 1
        /\ here'.mounted = FALSE /\ here'.player = 0 /\ here'.sounding = {}
    BY <1>2, <2>1 DEF PreviewRecord
  <2>5. \A q \in Requests : q > here.request => here'.calls[q].at = "none"
    BY <1>1, <1>2, <2>4 DEF Requests
  <2>6. \A q \in Requests : q > here.request + 1 => q > here.request
    BY <1>1 DEF Requests
  <2>7. here.request + 1 > here.request /\ here.request + 1 # 0
    BY <1>1
  <2> QED BY <1>2, <2>2, <2>3, <2>4, <2>5, <2>6, <2>7 DEF PreviewInv
<1> HIDE DEF p
<1>6. ASSUME NEW r \in Requests,
             \/ Preview!KeyLoaded(r) \/ Preview!SocketOpens(r) \/ Preview!SampleFails(r)
             \/ Preview!AudioDelta(r) \/ Preview!ResponseDone(r) \/ Preview!Continues(r)
             \/ Preview!ModeSwitched(r) \/ Preview!Finished(r)
      PROVE  PreviewInv'
  <2> DEFINE was == here.calls[r]
             Over == [was EXCEPT !.at = "over"]
  <2>1. was \in PreviewCall /\ was.sample \in SampleRecord
    BY <1>1 DEF PreviewCall
  <2>2. was.at # "sample" => was.sample.socket \notin LiveSocket
    BY DEF PreviewInv
  <2>3. ASSUME was.at \in Loading \ {"sample"}, r # here.request,
               here' = [here EXCEPT !.calls[r].at = "over"]
        PROVE  PreviewInv'
    <3>1. here' = [here EXCEPT !.calls[r] = Over]
      BY <2>3
    <3>2. Over \in PreviewCall /\ Over.sample = was.sample
      BY <2>1 DEF PreviewCall, CallPlaces
    <3> HIDE DEF Over
    <3> QED BY <2>2, <2>3, <3>1, <3>2, CallGoesOn
  <2>4. ASSUME was.at = "sample", NEW sample \in SampleRecord, sample.socket \notin LiveSocket,
               NEW there \in {"rejected", "sampled"},
               here' = [here EXCEPT !.calls[r] = [was EXCEPT !.sample = sample, !.at = there]]
        PROVE  PreviewInv'
    <3> DEFINE call == [was EXCEPT !.sample = sample, !.at = there]
    <3>1. call \in PreviewCall /\ call.sample = sample /\ call.at = there
      BY <2>1, <2>4 DEF PreviewCall, CallPlaces, Loading
    <3>2. there \in Loading /\ was.at \in Loading
      BY <2>4 DEF Loading
    <3>3. here' = [here EXCEPT !.calls[r] = call]
      BY <2>4
    <3> HIDE DEF call
    <3> QED BY <2>4, <3>1, <3>2, <3>3, CallGoesOn
  <2>5. CASE Preview!KeyLoaded(r)
    <3>1. was.at = "key"
      BY <2>5 DEF Preview!KeyLoaded
    <3>2. CASE here' = Preview!Caught(here, r, "error")
      BY <3>1, <3>2, CallIsCaught DEF Loading
    <3>3. CASE r # here.request /\ here' = [here EXCEPT !.calls[r].at = "over"]
      BY <2>3, <3>1, <3>3 DEF Loading
    <3>4. CASE /\ r = here.request
               /\ here' = [here EXCEPT !.calls[r].at = "sample",
                                       !.calls[r].sample.socket = "connecting"]
      <4> DEFINE sample == [was.sample EXCEPT !.socket = "connecting"]
                 call == [was EXCEPT !.at = "sample", !.sample = sample]
      <4>1. sample \in SampleRecord
        BY <2>1 DEF SampleRecord, LiveSocket
      <4>2. here' = [here EXCEPT !.calls[r] = call]
        BY <3>4, <1>1, <2>1 DEF PreviewRecord, PreviewCall
      <4> HIDE DEF sample
      <4>3. call \in PreviewCall /\ call.at = "sample"
        BY <2>1, <4>1 DEF PreviewCall, CallPlaces, Loading
      <4> HIDE DEF call
      <4> QED BY <3>1, <3>4, <4>2, <4>3, CallGoesOn DEF Loading
    <3> QED BY <2>5, <3>2, <3>3, <3>4 DEF Preview!KeyLoaded
  <2>6. CASE Preview!SocketOpens(r)
    <3> DEFINE sample == [was.sample EXCEPT !.socket = "open"]
               call == [was EXCEPT !.sample = sample]
    <3>1. was.at = "sample" /\ was.sample.socket = "connecting"
      BY <2>6 DEF Preview!SocketOpens, Preview!Sampling
    <3>2. r = here.request
      BY <3>1 DEF PreviewInv, LiveSocket
    <3>3. sample \in SampleRecord
      BY <2>1 DEF SampleRecord, LiveSocket
    <3>4. here' = [here EXCEPT !.calls[r] = call]
      BY <2>6, <1>1, <2>1 DEF Preview!SocketOpens, PreviewRecord, PreviewCall
    <3> HIDE DEF sample
    <3>5. call \in PreviewCall /\ call.at = "sample"
      BY <2>1, <3>1, <3>3 DEF PreviewCall
    <3> HIDE DEF call
    <3> QED BY <3>1, <3>2, <3>4, <3>5, CallGoesOn DEF Loading
  <2> DEFINE shut == [was.sample EXCEPT !.socket = IF @ = "none" THEN @ ELSE "closed"]
  <2>7. shut \in SampleRecord /\ shut.socket \notin LiveSocket
    BY <2>1 DEF SampleRecord, LiveSocket
  <2>8. ASSUME was.at = "sample", NEW there \in {"rejected", "sampled"},
               here' = [Preview!Settled(here, r) EXCEPT !.calls[r].at = there]
        PROVE  PreviewInv'
    <3> DEFINE mute == [was EXCEPT !.sample = shut]
    <3>1. Preview!Settled(here, r) = [here EXCEPT !.calls[r] = mute]
      BY DEF Preview!Settled
    <3>2. here' = [[here EXCEPT !.calls[r] = mute] EXCEPT !.calls[r].at = there]
      BY <2>8, <3>1
    <3> HIDE DEF shut
    <3>3. here' = [here EXCEPT !.calls[r] = [mute EXCEPT !.at = there]]
      <4> HIDE DEF mute
      <4> QED BY <1>1, <3>2 DEF PreviewRecord
    <3>4. [mute EXCEPT !.at = there] = [was EXCEPT !.sample = shut, !.at = there]
      OBVIOUS
    <3> QED BY <2>4, <2>7, <2>8, <3>3, <3>4
  <2>9. CASE Preview!SampleFails(r)
    BY <2>8, <2>9 DEF Preview!SampleFails, Preview!Sampling
  <2>10. CASE Preview!AudioDelta(r)
    <3> DEFINE more == [was.sample EXCEPT !.chunks = @ + 1]
               heard == [was EXCEPT !.sample = more]
               p2 == [here EXCEPT !.calls[r].sample.chunks = @ + 1]
    <3>1. was.at = "sample" /\ was.sample.socket = "open"
      BY <2>10 DEF Preview!AudioDelta, Preview!Sampling
    <3>2. r = here.request
      BY <3>1 DEF PreviewInv, LiveSocket
    <3>3. more \in SampleRecord /\ more.socket = "open"
      BY <2>1, <3>1 DEF SampleRecord
    <3>4. p2 = [here EXCEPT !.calls[r] = heard]
      OBVIOUS
    <3>5. CASE here' = p2
      <4> HIDE DEF more, p2
      <4>1. heard \in PreviewCall /\ heard.at = "sample"
        BY <2>1, <3>1, <3>3 DEF PreviewCall
      <4> HIDE DEF heard
      <4> QED BY <3>1, <3>2, <3>4, <3>5, <4>1, CallGoesOn DEF Loading
    <3>6. CASE here' = [Preview!Settled(p2, r) EXCEPT !.calls[r].at = "rejected"]
      <4> DEFINE last == [more EXCEPT !.socket = IF @ = "none" THEN @ ELSE "closed"]
                 mute == [heard EXCEPT !.sample = last]
      <4>1. last \in SampleRecord /\ last.socket \notin LiveSocket
        BY <3>3 DEF SampleRecord, LiveSocket
      <4> HIDE DEF more
      <4>2. p2.calls[r] = heard /\ heard.sample = more
        BY <1>1, <2>1, <3>4 DEF PreviewRecord, PreviewCall
      <4> HIDE DEF heard, p2
      <4>3. Preview!Settled(p2, r) = [p2 EXCEPT !.calls[r] = mute]
        BY <4>2 DEF Preview!Settled
      <4>4. here' = [[p2 EXCEPT !.calls[r] = mute] EXCEPT !.calls[r].at = "rejected"]
        BY <3>6, <4>3
      <4> HIDE DEF last, mute
      <4>5. here' = [here EXCEPT !.calls[r] = [mute EXCEPT !.at = "rejected"]]
        BY <1>1, <3>4, <4>4 DEF PreviewRecord
      <4>6. [mute EXCEPT !.at = "rejected"] = [was EXCEPT !.sample = last, !.at = "rejected"]
        BY <2>1 DEF mute, heard, PreviewCall
      <4> QED BY <2>4, <3>1, <4>1, <4>5, <4>6
    <3> QED BY <2>10, <3>5, <3>6 DEF Preview!AudioDelta
  <2>11. CASE Preview!ResponseDone(r)
    BY <2>8, <2>11 DEF Preview!ResponseDone, Preview!Sampling
  <2>12. CASE Preview!Continues(r)
    <3>1. CASE was.at = "sampled"
      <4>1. CASE r # here.request
        BY <2>3, <2>12, <3>1, <4>1 DEF Preview!Continues, Loading
      <4>2. CASE r = here.request
        <5> DEFINE call == [was EXCEPT !.at = "mode"]
        <5>1. here' = [here EXCEPT !.cache = @ \cup {was.voice}, !.calls[r] = call]
          BY <2>12, <3>1, <4>2 DEF Preview!Continues
        <5>2. call \in PreviewCall /\ call.at = "mode" /\ call.sample = was.sample
          BY <2>1 DEF PreviewCall, CallPlaces, Loading
        <5>3. was.voice \in Voices \cup {0}
          BY <2>1 DEF PreviewCall
        <5> HIDE DEF call
        <5> QED BY <2>2, <3>1, <4>2, <5>1, <5>2, <5>3, CallGoesOn DEF Loading
      <4> QED BY <4>1, <4>2
    <3>2. CASE was.at = "rejected"
      <4> DEFINE status == IF was.aborted THEN "idle" ELSE "error"
      <4>1. here' = Preview!Caught(here, r, status) /\ status \in {"idle", "error"}
        BY <2>12, <3>2 DEF Preview!Continues
      <4> HIDE DEF status
      <4> QED BY <3>2, <4>1, CallIsCaught DEF Loading
    <3> QED BY <2>12, <3>1, <3>2 DEF Preview!Continues
  <2>13. CASE Preview!ModeSwitched(r)
    <3>1. was.at = "mode"
      BY <2>13 DEF Preview!ModeSwitched
    <3>2. CASE here' = Preview!Caught(here, r, "error")
      BY <3>1, <3>2, CallIsCaught DEF Loading
    <3>3. CASE r # here.request /\ here' = [here EXCEPT !.calls[r].at = "over"]
      BY <2>3, <3>1, <3>3 DEF Loading
    <3>4. CASE /\ r = here.request
               /\ here' = [here EXCEPT !.calls[r].at = "playing", !.player = r,
                                       !.sounding = @ \cup {r}, !.status = "playing"]
      <4> DEFINE call == [was EXCEPT !.at = "playing"]
      <4>1. here' = [here EXCEPT !.calls[r] = call, !.player = r,
                                 !.sounding = @ \cup {r}, !.status = "playing"]
        BY <3>4
      <4>2. call \in PreviewCall /\ call.at = "playing" /\ call.sample = was.sample
        BY <2>1 DEF PreviewCall, CallPlaces
      <4>3. here.mounted /\ r \in 0..MaxRequests /\ here.sounding \cup {r} = {r}
            /\ here.sounding \cup {r} \in SUBSET Requests
        BY <1>1, <3>1, <3>4 DEF PreviewInv, PreviewRecord, Requests
      <4> HIDE DEF call
      <4>4. /\ here'.calls = [here.calls EXCEPT ![r] = call] /\ here'.player = r
            /\ here'.sounding = {r} /\ here'.status = "playing"
            /\ here'.request = here.request /\ here'.mounted = here.mounted
        BY <1>1, <4>1, <4>3 DEF PreviewRecord
      <4>5. here'.calls \in [Requests -> PreviewCall]
        BY <1>1, <4>2, <4>4
      <4>6. here' \in PreviewRecord
        BY <1>1, <4>1, <4>3, <4>4, <4>5 DEF PreviewRecord
      <4>7. \A q \in Requests : here'.calls[q] = IF q = r THEN call ELSE here.calls[q]
        BY <1>1, <4>4
      <4>8. \A q \in Requests : q > here.request => here'.calls[q].at = "none"
        BY <1>1, <3>4, <4>7 DEF PreviewInv, Requests
      <4>9. \A q \in Requests : here'.calls[q].sample.socket \in LiveSocket =>
              q = here.request /\ here'.calls[q].at = "sample"
        BY <2>2, <3>1, <4>2, <4>7 DEF PreviewInv
      <4>10. here'.calls[r].at = "playing" /\ r # 0
        BY <4>2, <4>7 DEF Requests
      <4> QED BY <3>4, <4>3, <4>4, <4>6, <4>8, <4>9, <4>10 DEF PreviewInv
    <3> QED BY <2>13, <3>2, <3>3, <3>4 DEF Preview!ModeSwitched
  <2>14. CASE Preview!Finished(r)
    <3>1. CASE r = here.request /\ here.player = r
      <4>1. was.at = "playing"
        BY <3>1 DEF PreviewInv, Requests
      <4>2. here' = [Preview!Released(here) EXCEPT !.status = "idle", !.calls[r].at = "over"]
        BY <2>14, <3>1 DEF Preview!Finished
      <4>3. here' = Preview!Caught(here, r, "idle")
        BY <1>1, <3>1, <4>2 DEF Preview!Caught, Preview!Released, PreviewRecord
      <4> QED BY <3>1, <4>1, <4>3, CallIsCaught
    <3>2. CASE ~(r = here.request /\ here.player = r)
      <4>1. here' = here
        BY <2>14, <3>2 DEF Preview!Finished
      <4> QED BY <4>1 DEF PreviewInv
    <3> QED BY <3>1, <3>2
  <2> QED BY <1>6, <2>5, <2>6, <2>9, <2>10, <2>11, <2>12, <2>13, <2>14
<1> QED BY <1>3, <1>4, <1>5, <1>6 DEF Preview!Next, Requests
----------------------------------------------------------------------------
(* The parts together.                                                     *)
CallPartsInv ==
  /\ component = "transport" => TransportInv
  /\ component = "backend" => BackendInv
  /\ component = "preview" => PreviewInv

\* Whatever fails or is aborted between two awaits, a part of a call gives back
\* what it opened (NothingLeftOpen of the run realtime): for any number of drops,
\* attempts and requests, and every outcome of every promise in between.
THEOREM OpenedIsGivenBack == RealtimeSpec => []NothingLeftOpen
<1>1. RealtimeInit => CallPartsInv
  BY TransportStarts, BackendStarts, PreviewStarts DEF RealtimeInit, CallPartsInv
<1>2. CallPartsInv /\ [RealtimeNext]_realtimeVars => CallPartsInv'
  <2> SUFFICES ASSUME CallPartsInv, [RealtimeNext]_realtimeVars PROVE CallPartsInv'
    OBVIOUS
  <2>1. component' = component
    BY DEF RealtimeNext, Alone, realtimeVars
  <2>2. ASSUME component = "transport" PROVE TransportInv'
    <3>1. CASE Transport!Next
      BY <2>2, <3>1, TransportSteps DEF CallPartsInv
    <3>2. CASE here' = here
      BY <2>2, <3>2
         DEF CallPartsInv, TransportInv, Transport!MicrophoneReleased, Transport!ClosedIsSilent,
             Transport!T
    <3> QED BY <2>2, <3>1, <3>2 DEF RealtimeNext, Alone, realtimeVars
  <2>3. ASSUME component = "backend" PROVE BackendInv'
    <3>1. CASE Backend!Next
      BY <2>3, <3>1, BackendSteps DEF CallPartsInv
    <3>2. CASE here' = here
      BY <2>3, <3>2 DEF CallPartsInv, BackendInv, AttemptInv
    <3> QED BY <2>3, <3>1, <3>2 DEF RealtimeNext, Alone, realtimeVars
  <2>4. ASSUME component = "preview" PROVE PreviewInv'
    <3>1. CASE Preview!Next
      BY <2>4, <3>1, PreviewSteps DEF CallPartsInv
    <3>2. CASE here' = here
      BY <2>4, <3>2 DEF CallPartsInv, PreviewInv
    <3> QED BY <2>4, <3>1, <3>2 DEF RealtimeNext, Alone, realtimeVars
  <2> QED BY <2>1, <2>2, <2>3, <2>4 DEF CallPartsInv
<1>3. CallPartsInv => NothingLeftOpen
  BY BackendPromises, PreviewPromises DEF CallPartsInv, TransportInv, NothingLeftOpen
<1> QED BY <1>1, <1>2, <1>3, PTL DEF RealtimeSpec
=============================================================================
