---------------------- MODULE RealtimeController_proofs ----------------------
(***************************************************************************)
(* Proofs about RealtimeController, for every number of operations,        *)
(* attempts and re-offers, with no assumption about the transport, the     *)
(* backend or the user: hang-ups fail, answers come late, stop() comes     *)
(* during a cleanup, and a re-offer fails while it is set up.  What such   *)
(* an operation may do is excepted by name (outlived, forgotten, refused). *)
(***************************************************************************)
EXTENDS RealtimeController, SequenceTheorems, FiniteSetTheorems, TLAPS

Pending(n) == attempts[n].at # "over"

OfLoop(n) == attempts[n].via = "loop"

Current(n) == attempts[n].op = operation

\* The open sessions of operations whose loop ends with them.
SoundOpen == {n \in DOMAIN attempts : attempts[n].open /\ Sound(n)}

\* The grace timer runs for the latest operation.
Armed == reconnectTimer # 0 /\ reconnectTimer = operation

\* Attempts and operations are numbered as they come; the newest signal belongs
\* to the latest operation.
Numbered ==
  /\ {abortController, transportSession, callId} \subseteq 0 .. Len(attempts)
  /\ abortController # 0 => Current(abortController)
  /\ \A n \in DOMAIN attempts : attempts[n].op \in 1 .. operation
  /\ loop.op <= operation /\ reconnectTimer <= operation
  /\ \A e \in ending : e.op \in 1 .. operation /\ e.call <= Len(attempts)
  /\ outlived \subseteq 1 .. operation

\* The attempts the loop may still make, and those a grace timer may start.
LoopRoom ==
  CASE loop.at = "none"         -> 0
    [] loop.at = "delay"        -> MaxReconnectAttempts - loop.attempt
    [] loop.at = "establishing" -> MaxReconnectAttempts - loop.attempt - 1

TimerRoom == IF reconnectTimer = 0 THEN 0 ELSE MaxReconnectAttempts

\* Room() reserved what the loop and the timer will use.
Reserved ==
  /\ Len(attempts) + LoopRoom + TimerRoom <= MaxAttempts
  /\ reconnecting <=> loop.at # "none"
  /\ loop.at = "none" => loop = NoLoop
  /\ reconnecting => reconnectTimer = 0 /\ loop.op # 0

\* At most one re-offer is under way, and it is the loop's; a loop that failed
\* its call waits for the one hang-up it asked for.
OneLoop ==
  /\ \A n \in DOMAIN attempts : OfLoop(n) /\ Pending(n) =>
       /\ loop.at = "establishing" /\ loop.op = attempts[n].op
       /\ \A m \in DOMAIN attempts : OfLoop(m) /\ Pending(m) => m = n
       /\ \A e \in ending : e.by # "failLoop"
  /\ \A e \in ending : e.by = "failLoop" =>
       /\ loop.at = "establishing"
       /\ \A f \in ending : f.by = "failLoop" => f = e

\* Of the latest operation: the attempt that may still open a session holds the
\* newest signal and no other session is open; the one that connects holds it
\* too, or was aborted.  start() makes one attempt; the others are the loop's.
CurrentAttempts ==
  /\ \A n \in DOMAIN attempts : Current(n) =>
       /\ ~At(n, "finishing")
       /\ At(n, "preparing") \/ At(n, "starting") \/ (OfLoop(n) /\ Pending(n)) =>
            abortController = n /\ ~attempts[n].aborted
       /\ At(n, "connecting") => attempts[n].aborted \/ abortController = n
       /\ \A m \in DOMAIN attempts : Current(m) /\ ~OfLoop(n) /\ ~OfLoop(m) => m = n
       /\ At(n, "preparing") => SoundOpen = {} /\ ~Armed
       /\ At(n, "starting") => SoundOpen \subseteq {n} /\ ~Armed
  /\ SoundOpen # {} => abortController # 0 /\ ~attempts[abortController].aborted
  /\ \A n \in SoundOpen : Current(n)
  /\ Armed => abortController # 0

\* An attempt that will open nothing any more.
Spent(n) ==
  attempts[n].at = "over"
    \/ (attempts[n].via = "start" /\ attempts[n].at = "connecting" /\ attempts[n].aborted)

\* A loop of the latest operation has closed and aborted what came before it.
LoopAlone ==
  loop.op = operation =>
    /\ loop.at = "delay" =>
         /\ SoundOpen = {} /\ abortController # 0 /\ attempts[abortController].aborted
         /\ \A n \in DOMAIN attempts : Current(n) => Spent(n)
    /\ loop.at = "establishing" =>
         /\ \A n \in DOMAIN attempts : Current(n) => ~Pending(n) \/ OfLoop(n)
         /\ \A n \in SoundOpen : OfLoop(n) /\ Pending(n)

\* The latest operation can open no session any more.
Dead ==
  /\ SoundOpen = {} /\ ~Armed
  /\ \A n \in DOMAIN attempts : Current(n) => Spent(n)
  /\ loop.op = operation => loop.at # "delay"

FailedIsDead ==
  phase = "error" \/ (\E e \in ending : e.by \in {"fail", "failLoop"} /\ e.op = operation) => Dead

\* The latest operation is a stop(): it has no timer, attempt, loop or failure.
Silent ==
  /\ Dead /\ expiryTimer = 0 /\ reconnectTimer = 0
  /\ \A n \in DOMAIN attempts : Pending(n) => ~Current(n)
  /\ loop.at # "none" => loop.op # operation
  /\ \A e \in ending : e.by \in {"fail", "failLoop"} => e.op # operation

StoppedIsSilent ==
  phase \in {"idle", "stopping"} \/ (\E e \in ending : e.by = "stop" /\ e.op = operation) => Silent

\* The open session of such an operation is the controller's.
Owned == SoundOpen \subseteq {transportSession}

\* What holds in every operation, and what in those whose loop ends with them.
Base == TypeOK /\ Numbered /\ Reserved /\ OneLoop

Media == Owned /\ CurrentAttempts /\ LoopAlone /\ FailedIsDead /\ StoppedIsSilent

Sane == Base /\ Media /\ operation \notin outlived

\* The latest operation is no stop().
Talking ==
  phase \notin {"idle", "stopping"} /\ \A e \in ending : ~(e.by = "stop" /\ e.op = operation)

IInv ==
  /\ Base
  /\ operation \notin outlived => Media
  /\ operation \in outlived => SoundOpen = {} /\ Talking

-----------------------------------------------------------------------------
(* What a step makes of the attempts *)

\* att is attempts with attempt n moved on to `next', those of ab aborted, and
\* exactly the sessions of open left open.
Effect(att, n, next, ab, open) ==
  /\ att \in Seq(Attempt) /\ Len(att) = Len(attempts)
  /\ \A m \in DOMAIN attempts :
       /\ att[m].op = attempts[m].op /\ att[m].via = attempts[m].via
       /\ att[m].at = IF m = n THEN next ELSE attempts[m].at
       /\ att[m].aborted <=> (attempts[m].aborted \/ m \in ab)
       /\ att[m].open /\ Sound(m) <=> m \in open

Stages == {"preparing", "starting", "connecting", "finishing", "over"}

LEMMA AttemptFields ==
  ASSUME TypeOK, NEW n \in DOMAIN attempts
  PROVE  /\ DOMAIN attempts = 1 .. Len(attempts) /\ Len(attempts) \in Nat
         /\ attempts[n] \in Attempt
<1>1. attempts \in Seq(Attempt)
  BY DEF TypeOK
<1>2. DOMAIN attempts = 1 .. Len(attempts) /\ Len(attempts) \in Nat
  BY <1>1
<1> QED BY <1>1, <1>2, ElementOfSeq

\* Nothing that matters changes.
LEMMA SameEffect ==
  ASSUME TypeOK
  PROVE  Effect(attempts, 0, "none", {}, SoundOpen)
<1>1. attempts \in Seq(Attempt)
  BY DEF TypeOK
<1>2. \A m \in DOMAIN attempts : m # 0 /\ attempts[m].aborted \in BOOLEAN /\ attempts[m].open \in BOOLEAN
  BY AttemptFields DEF Attempt
<1> QED BY <1>1, <1>2 DEF Effect, SoundOpen

\* Replacing the record of attempt n.
LEMMA ExceptEffect ==
  ASSUME TypeOK, NEW n \in DOMAIN attempts, NEW r \in Attempt,
         r.op = attempts[n].op, r.via = attempts[n].via, r.aborted = attempts[n].aborted
  PROVE  /\ r.open = attempts[n].open =>
              Effect([attempts EXCEPT ![n] = r], n, r.at, {}, SoundOpen)
         /\ r.open => Effect([attempts EXCEPT ![n] = r], n, r.at, {},
                            {m \in SoundOpen \cup {n} : Sound(m)})
<1>1. attempts \in Seq(Attempt) /\ n \in 1 .. Len(attempts) /\ DOMAIN attempts = 1 .. Len(attempts)
  BY AttemptFields DEF TypeOK
<1>2. /\ [attempts EXCEPT ![n] = r] \in Seq(Attempt)
      /\ Len([attempts EXCEPT ![n] = r]) = Len(attempts)
      /\ \A m \in DOMAIN attempts :
           [attempts EXCEPT ![n] = r][m] = IF m = n THEN r ELSE attempts[m]
  BY <1>1, ExceptSeq
<1>3. \A m \in DOMAIN attempts : attempts[m].aborted \in BOOLEAN /\ attempts[m].open \in BOOLEAN
  BY AttemptFields DEF Attempt
<1>4. r.open \in BOOLEAN
  BY DEF Attempt
<1> DEFINE new == [attempts EXCEPT ![n] = r]
<1> HIDE DEF new
<1>5. \A m \in DOMAIN attempts : new[m] = IF m = n THEN r ELSE attempts[m]
  BY <1>2 DEF new
<1>6. new \in Seq(Attempt) /\ Len(new) = Len(attempts)
  BY <1>2 DEF new
<1>7. r.open = attempts[n].open => Effect(new, n, r.at, {}, SoundOpen)
  BY <1>3, <1>4, <1>5, <1>6 DEF Effect, SoundOpen
<1>8. r.open => Effect(new, n, r.at, {}, {m \in SoundOpen \cup {n} : Sound(m)})
  BY <1>3, <1>4, <1>5, <1>6 DEF Effect, SoundOpen
<1> QED BY <1>7, <1>8 DEF new

\* The attempt moves on and nothing else changes.
LEMMA MovesEffect ==
  ASSUME TypeOK, NEW n \in DOMAIN attempts, NEW at \in Stages
  PROVE  Effect([attempts EXCEPT ![n].at = at], n, at, {}, SoundOpen)
<1>1. attempts[n] \in Attempt
  BY AttemptFields
<1> DEFINE r == [attempts[n] EXCEPT !.at = at]
<1>2. /\ r \in Attempt /\ r.at = at
      /\ r.op = attempts[n].op /\ r.via = attempts[n].via
      /\ r.aborted = attempts[n].aborted /\ r.open = attempts[n].open
  BY <1>1 DEF Attempt, Stages
<1> HIDE DEF r
<1>3. Effect([attempts EXCEPT ![n] = r], n, r.at, {}, SoundOpen)
  BY <1>2, ExceptEffect
<1>4. [attempts EXCEPT ![n].at = at] = [attempts EXCEPT ![n] = r]
  BY DEF r
<1> QED BY <1>2, <1>3, <1>4

LEMMA OverEffect ==
  ASSUME TypeOK, NEW n \in DOMAIN attempts
  PROVE  Effect(Over(n), n, "over", {}, SoundOpen)
BY MovesEffect DEF Over, Stages

\* The session's timer and the microphone track are the transport's business.
LEMMA LostEffect ==
  ASSUME TypeOK, NEW n \in DOMAIN attempts, NEW b \in BOOLEAN
  PROVE  Effect([attempts EXCEPT ![n].lost = b], 0, "none", {}, SoundOpen)
<1>1. attempts[n] \in Attempt
  BY AttemptFields
<1> DEFINE r == [attempts[n] EXCEPT !.lost = b]
<1>2. /\ r \in Attempt /\ r.at = attempts[n].at
      /\ r.op = attempts[n].op /\ r.via = attempts[n].via
      /\ r.aborted = attempts[n].aborted /\ r.open = attempts[n].open
  BY <1>1 DEF Attempt
<1>3. [attempts EXCEPT ![n].lost = b] = [attempts EXCEPT ![n] = r]
  OBVIOUS
<1> HIDE DEF r
<1>4. Effect([attempts EXCEPT ![n] = r], n, r.at, {}, SoundOpen)
  BY <1>2, ExceptEffect
<1>5. \A m \in DOMAIN attempts : m # 0
  BY AttemptFields
<1> QED BY <1>2, <1>3, <1>4, <1>5 DEF Effect

LEMMA TrackEffect ==
  ASSUME TypeOK, NEW b \in BOOLEAN,
         attempts' = [n \in DOMAIN attempts |->
                        IF n = transportSession THEN [attempts[n] EXCEPT !.track = b]
                        ELSE attempts[n]]
  PROVE  Effect(attempts', 0, "none", {}, SoundOpen)
<1> DEFINE r(n) == IF n = transportSession THEN [attempts[n] EXCEPT !.track = b] ELSE attempts[n]
<1>1. attempts \in Seq(Attempt) /\ DOMAIN attempts = 1 .. Len(attempts) /\ Len(attempts) \in Nat
  BY LenProperties DEF TypeOK
<1>2. \A n \in 1 .. Len(attempts) :
        /\ r(n) \in Attempt /\ r(n).op = attempts[n].op /\ r(n).via = attempts[n].via
        /\ r(n).at = attempts[n].at /\ r(n).open = attempts[n].open
        /\ r(n).aborted = attempts[n].aborted
  <2>1. \A n \in 1 .. Len(attempts) : attempts[n] \in Attempt
    BY <1>1, ElementOfSeq
  <2> QED BY <2>1 DEF Attempt
<1>3. attempts' = [n \in 1 .. Len(attempts) |-> r(n)]
  BY <1>1
<1> HIDE DEF r
<1>4. attempts' \in [1 .. Len(attempts) -> Attempt]
  BY <1>2, <1>3
<1>5. attempts' \in Seq(Attempt) /\ Len(attempts') = Len(attempts)
  BY <1>1, <1>4
<1>6. \A n \in DOMAIN attempts : attempts'[n] = r(n) /\ n # 0
  BY <1>1, <1>3
<1> QED BY <1>1, <1>2, <1>5, <1>6 DEF Effect, SoundOpen

\* Aborting the newest signal and closing the transport session.
LEMMA ShutEffect ==
  ASSUME TypeOK, NEW att, NEW n, NEW next, Effect(att, n, next, {}, SoundOpen)
  PROVE  Effect(Shut(att), n, next, {abortController}, SoundOpen \ {transportSession})
<1>1. att \in Seq(Attempt) /\ Len(att) = Len(attempts)
  BY DEF Effect
<1>2. DOMAIN att = 1 .. Len(attempts) /\ DOMAIN attempts = 1 .. Len(attempts) /\ Len(attempts) \in Nat
  BY <1>1 DEF TypeOK
<1> DEFINE r(m) == [att[m] EXCEPT !.aborted = @ \/ m = abortController,
                                  !.open = @ /\ m # transportSession,
                                  !.lost = @ /\ m # transportSession]
<1>3. \A m \in 1 .. Len(attempts) :
        /\ r(m) \in Attempt /\ r(m).op = att[m].op /\ r(m).via = att[m].via /\ r(m).at = att[m].at
        /\ r(m).aborted <=> (att[m].aborted \/ m = abortController)
        /\ r(m).open <=> (att[m].open /\ m # transportSession)
  <2>1. \A m \in 1 .. Len(attempts) : att[m] \in Attempt
    BY <1>1, ElementOfSeq
  <2> SUFFICES ASSUME NEW m \in 1 .. Len(attempts)
               PROVE  /\ r(m) \in Attempt /\ r(m).op = att[m].op /\ r(m).via = att[m].via
                      /\ r(m).at = att[m].at
                      /\ r(m).aborted <=> (att[m].aborted \/ m = abortController)
                      /\ r(m).open <=> (att[m].open /\ m # transportSession)
    OBVIOUS
  <2>2. att[m] \in Attempt
    BY <2>1
  <2>3. r(m) \in Attempt
    BY <2>2 DEF Attempt
  <2>4. /\ r(m).op = att[m].op /\ r(m).via = att[m].via /\ r(m).at = att[m].at
        /\ r(m).aborted <=> (att[m].aborted \/ m = abortController)
        /\ r(m).open <=> (att[m].open /\ m # transportSession)
    BY <2>2 DEF Attempt
  <2> QED BY <2>3, <2>4
<1> HIDE DEF r
<1>4. Shut(att) = [m \in 1 .. Len(attempts) |-> r(m)]
  BY <1>2 DEF Shut, r
<1>5. Shut(att) \in [1 .. Len(attempts) -> Attempt]
  BY <1>3, <1>4
<1>6. Shut(att) \in Seq(Attempt) /\ Len(Shut(att)) = Len(attempts)
  BY <1>2, <1>5
<1>7. \A m \in DOMAIN attempts : Shut(att)[m] = r(m)
  BY <1>2, <1>4
<1> QED BY <1>2, <1>3, <1>6, <1>7 DEF Effect, SoundOpen

LEMMA NewAttemptEffect ==
  ASSUME TypeOK, NEW op \in Operations, NEW via \in {"start", "loop"}, NewAttempt(op, via)
  PROVE  /\ attempts' \in Seq(Attempt) /\ Len(attempts') = Len(attempts) + 1
         /\ abortController' = Len(attempts) + 1
         /\ \A m \in DOMAIN attempts : attempts'[m] = attempts[m]
         /\ attempts'[Len(attempts) + 1].op = op /\ attempts'[Len(attempts) + 1].via = via
         /\ attempts'[Len(attempts) + 1].at = "preparing"
         /\ ~attempts'[Len(attempts) + 1].aborted /\ ~attempts'[Len(attempts) + 1].open
<1> DEFINE r == [op |-> op, via |-> via, at |-> "preparing", aborted |-> FALSE, open |-> FALSE,
                 track |-> TRUE, lost |-> FALSE]
<1>1. /\ r \in Attempt /\ r.op = op /\ r.via = via /\ r.at = "preparing"
      /\ ~r.aborted /\ ~r.open
  BY DEF Attempt
<1>2. attempts' = Append(attempts, r) /\ attempts \in Seq(Attempt)
      /\ abortController' = Len(attempts) + 1
  BY DEF NewAttempt, TypeOK
<1> HIDE DEF r
<1>3. /\ attempts' \in Seq(Attempt) /\ Len(attempts') = Len(attempts) + 1
      /\ \A m \in 1 .. Len(attempts) : attempts'[m] = attempts[m]
      /\ attempts'[Len(attempts) + 1] = r
  BY <1>1, <1>2
<1> QED BY <1>1, <1>2, <1>3, LenProperties

\* No attempt comes or goes in such a step, and each keeps its operation.
LEMMA EffectFields ==
  ASSUME TypeOK, NEW n, NEW next, NEW ab, NEW open, Effect(attempts', n, next, ab, open)
  PROVE  /\ DOMAIN attempts' = 1 .. Len(attempts) /\ DOMAIN attempts = 1 .. Len(attempts)
         /\ Len(attempts') = Len(attempts) /\ Len(attempts) \in Nat
         /\ attempts' \in Seq(Attempt)
         /\ \A m \in 1 .. Len(attempts) :
              /\ attempts'[m].op = attempts[m].op /\ attempts'[m].via = attempts[m].via
              /\ attempts'[m].at = IF m = n THEN next ELSE attempts[m].at
<1> QED BY LenProperties DEF Effect, TypeOK

-----------------------------------------------------------------------------
(* Types, numbers, reservations and the loop *)

\* What a step leaves of the history; every step does (HistoryKept).
Remembered ==
  /\ outlived' \subseteq 1 .. operation' /\ outlived' \subseteq Operations
  /\ refused' \subseteq Ids /\ forgotten' \subseteq Ids /\ swallowed' \subseteq Operations

\* A step that makes no attempt, starts no operation and leaves the loop alone
\* or ends it keeps the numbering.
LEMMA NumberedKept ==
  ASSUME Base, Remembered, NEW n, NEW next, NEW ab, NEW open, Effect(attempts', n, next, ab, open),
         operation' = operation, abortController' \in {abortController, 0},
         {transportSession', callId'} \subseteq 0 .. Len(attempts),
         loop'.op <= operation, reconnectTimer' <= operation,
         \A e \in ending' : e.op \in 1 .. operation /\ e.call <= Len(attempts)
  PROVE  Numbered'
<1>1. /\ DOMAIN attempts' = 1 .. Len(attempts) /\ DOMAIN attempts = 1 .. Len(attempts)
      /\ Len(attempts') = Len(attempts) /\ Len(attempts) \in Nat
      /\ \A m \in 1 .. Len(attempts) : attempts'[m].op = attempts[m].op
  BY EffectFields DEF Base
<1>2. /\ \A m \in 1 .. Len(attempts) : attempts[m].op \in 1 .. operation
      /\ abortController \in 0 .. Len(attempts)
      /\ abortController # 0 => attempts[abortController].op = operation
  BY <1>1 DEF Base, Numbered, Current
<1>3. \A m \in DOMAIN attempts' : attempts'[m].op \in 1 .. operation'
  BY <1>1, <1>2
<1>4. abortController' # 0 => Current(abortController)'
  BY <1>1, <1>2 DEF Current
<1>5. {abortController', transportSession', callId'} \subseteq 0 .. Len(attempts')
  BY <1>1, <1>2
<1> QED BY <1>1, <1>3, <1>4, <1>5 DEF Numbered, Remembered

\* The loop and the grace timer go on or end.
LEMMA ReservedKept ==
  ASSUME Base, Len(attempts') = Len(attempts), reconnectTimer' \in {reconnectTimer, 0},
         UNCHANGED recovery \/ LeaveLoop
  PROVE  Reserved'
<1>1. MaxReconnectAttempts \in Nat /\ MaxAttempts \in Nat
  BY ControllerConstants
<1>2. /\ Len(attempts) \in Nat /\ loop.attempt \in 0 .. MaxReconnectAttempts - 1
      /\ loop.at \in {"none", "delay", "establishing"}
  BY LenProperties DEF Base, TypeOK
<1>3. LoopRoom \in Nat /\ TimerRoom \in Nat
  BY <1>1, <1>2 DEF LoopRoom, TimerRoom
<1>4. TimerRoom' \in Nat /\ TimerRoom' <= TimerRoom
  BY <1>1 DEF TimerRoom
<1>5. CASE UNCHANGED recovery
  <2>1. reconnecting' = reconnecting /\ loop' = loop /\ LoopRoom' = LoopRoom
    BY <1>5 DEF recovery, LoopRoom
  <2>2. Len(attempts') + LoopRoom' + TimerRoom' <= MaxAttempts
    BY <1>1, <1>2, <1>3, <1>4, <2>1 DEF Base, Reserved
  <2> QED BY <2>1, <2>2 DEF Base, Reserved
<1>6. CASE LeaveLoop
  <2>1. LoopRoom' = 0 /\ loop' = NoLoop /\ loop'.at = "none" /\ reconnecting' = FALSE
    BY <1>6 DEF LoopRoom, LeaveLoop, NoLoop
  <2>2. Len(attempts) + LoopRoom + TimerRoom <= MaxAttempts
    BY DEF Base, Reserved
  <2>3. Len(attempts') + LoopRoom' + TimerRoom' <= MaxAttempts
    BY <1>1, <1>2, <1>3, <1>4, <2>1, <2>2
  <2> QED BY <2>1, <2>3 DEF Reserved
<1> QED BY <1>5, <1>6

\* Types, numbers and reservations of a step that starts no operation and makes
\* no attempt.
LEMMA BaseKept ==
  ASSUME Base, Remembered, NEW n, NEW next, NEW ab, NEW open, Effect(attempts', n, next, ab, open),
         phase' \in Phases, cleanupPending' \in BOOLEAN, microphoneEnabled' \in BOOLEAN,
         operation' = operation, failingOperation' \in Operations,
         abortController' \in {abortController, 0},
         {transportSession', callId'} \subseteq 0 .. Len(attempts),
         expiryTimer' \in Operations, reconnectTimer' \in {reconnectTimer, 0},
         UNCHANGED recovery \/ LeaveLoop,
         ending' \subseteq Ending, calls' \subseteq Ids,
         \A e \in ending' : e.op \in 1 .. operation /\ e.call <= Len(attempts)
  PROVE  TypeOK' /\ Numbered' /\ Reserved'
<1>1. /\ attempts' \in Seq(Attempt) /\ Len(attempts') = Len(attempts)
      /\ Len(attempts) \in Nat /\ Len(attempts) <= MaxAttempts /\ MaxAttempts \in Nat
  BY EffectFields, ControllerConstants DEF Base, TypeOK
<1>2. MaxReconnectAttempts - 1 \in Nat /\ operation \in Nat /\ 0 \in Operations
  <2>1. MaxReconnectAttempts - 1 \in Nat /\ MaxOperations \in Nat
    BY ControllerConstants
  <2>2. operation \in Operations
    BY DEF Base, TypeOK
  <2> QED BY <2>1, <2>2 DEF Operations
<1>3. /\ loop' \in [op : Operations, attempt : 0 .. MaxReconnectAttempts - 1,
                    at : {"none", "delay", "establishing"}]
      /\ reconnecting' \in BOOLEAN /\ loop'.op <= operation
  <2>1. CASE UNCHANGED recovery
    BY <2>1 DEF recovery, Base, TypeOK, Numbered
  <2>2. CASE LeaveLoop
    <3>1. NoLoop \in [op : Operations, attempt : 0 .. MaxReconnectAttempts - 1,
                      at : {"none", "delay", "establishing"}] /\ NoLoop.op = 0
      BY <1>2 DEF NoLoop
    <3>2. loop' = NoLoop /\ reconnecting' = FALSE
      BY <2>2 DEF LeaveLoop
    <3>3. 0 <= operation
      BY <1>2
    <3> QED BY <3>1, <3>2, <3>3
  <2> QED BY <2>1, <2>2
<1>4. {abortController', callId', transportSession'} \subseteq Ids \cup {0}
  BY <1>1 DEF Base, TypeOK, Ids
<1>5. {expiryTimer', reconnectTimer'} \subseteq Operations /\ reconnectTimer' <= operation
  BY <1>2 DEF Base, TypeOK, Numbered
<1>6. operation' \in Operations
  BY DEF Base, TypeOK
<1>7. TypeOK'
  BY <1>1, <1>3, <1>4, <1>5, <1>6 DEF TypeOK, Remembered
<1>8. Numbered'
  BY <1>3, <1>5, NumberedKept
<1>9. Reserved'
  BY <1>1, ReservedKept
<1> QED BY <1>7, <1>8, <1>9

\* A step keeps OneLoop when it makes no re-offer pending and the loop goes on,
\* or when it ends both the re-offer and the loop.
LEMMA OneLoopKept ==
  ASSUME Base, NEW n, NEW next, NEW ab, NEW open, Effect(attempts', n, next, ab, open),
         n \in DOMAIN attempts => Pending(n),
         UNCHANGED recovery \/ (n \in DOMAIN attempts /\ LeaveLoop /\ OfLoop(n) /\ next = "over"),
         \A e \in ending' : e.by = "failLoop" => e \in ending
  PROVE  OneLoop'
<1>1. /\ DOMAIN attempts' = 1 .. Len(attempts) /\ DOMAIN attempts = 1 .. Len(attempts)
      /\ \A m \in 1 .. Len(attempts) :
              /\ attempts'[m].op = attempts[m].op /\ attempts'[m].via = attempts[m].via
              /\ attempts'[m].at = IF m = n THEN next ELSE attempts[m].at
  BY EffectFields DEF Base
<1>2. CASE UNCHANGED recovery
  BY <1>1, <1>2 DEF Base, OneLoop, OfLoop, Pending, recovery
<1>3. CASE n \in DOMAIN attempts /\ LeaveLoop /\ OfLoop(n) /\ next = "over"
  BY <1>1, <1>3 DEF Base, OneLoop, OfLoop, Pending, LeaveLoop, NoLoop
<1> QED BY <1>2, <1>3

LEMMA ReturnedLoop ==
  ASSUME Base, NEW n \in DOMAIN attempts, Pending(n), Returned(n)
  PROVE  /\ UNCHANGED recovery \/ (LeaveLoop /\ OfLoop(n))
         /\ OfLoop(n) => LeaveLoop
<1>1. OfLoop(n) => loop.at = "establishing" /\ loop.op = attempts[n].op
  BY DEF Base, OneLoop
<1> QED BY <1>1 DEF Returned, OfLoop

\* What the scalar variables are worth to the lemmas above.
LEMMA Scalars ==
  ASSUME Base
  PROVE  /\ phase \in Phases /\ cleanupPending \in BOOLEAN /\ microphoneEnabled \in BOOLEAN
         /\ failingOperation \in Operations /\ expiryTimer \in Operations
         /\ {transportSession, callId} \subseteq 0 .. Len(attempts)
         /\ ending \subseteq Ending /\ calls \subseteq Ids
         /\ \A e \in ending : e.op \in 1 .. operation /\ e.call <= Len(attempts)
         /\ operation \in Operations /\ 0 \in Operations /\ operation \in Nat
         /\ DOMAIN attempts = 1 .. Len(attempts) /\ DOMAIN attempts \subseteq Ids
         /\ Len(attempts) \in Nat
         /\ \A n \in DOMAIN attempts : attempts[n].op \in 1 .. operation
         /\ 1 .. operation \subseteq Operations
<1>1. MaxOperations \in Nat /\ MaxAttempts \in Nat
  BY ControllerConstants
<1>2. DOMAIN attempts = 1 .. Len(attempts) /\ Len(attempts) \in Nat
  BY LenProperties DEF Base, TypeOK
<1> QED BY <1>1, <1>2 DEF Base, TypeOK, Numbered, Operations, Ids

-----------------------------------------------------------------------------
(* establish() keeps Base *)

LEMMA PrepareEffect ==
  ASSUME TypeOK, NEW n \in DOMAIN attempts, PrepareResolves(n)
  PROVE  IF IsCurrent(attempts[n].op)
         THEN Effect(attempts', n, "starting", {}, {m \in SoundOpen \cup {n} : Sound(m)})
         ELSE Effect(attempts', n, "over", {}, SoundOpen)
<1>1. CASE IsCurrent(attempts[n].op)
  <2> DEFINE r == [attempts[n] EXCEPT !.open = TRUE, !.at = "starting"]
  <2>1. /\ r \in Attempt /\ r.at = "starting" /\ r.open
        /\ r.op = attempts[n].op /\ r.via = attempts[n].via /\ r.aborted = attempts[n].aborted
    BY AttemptFields DEF Attempt
  <2> HIDE DEF r
  <2>2. Effect([attempts EXCEPT ![n] = r], n, r.at, {}, {m \in SoundOpen \cup {n} : Sound(m)})
    BY <2>1, ExceptEffect
  <2>3. attempts' = [attempts EXCEPT ![n] = r]
    BY <1>1 DEF PrepareResolves, r
  <2> QED BY <1>1, <2>1, <2>2, <2>3
<1>2. CASE ~IsCurrent(attempts[n].op)
  BY <1>2, OverEffect DEF PrepareResolves
<1> QED BY <1>1, <1>2

LEMMA PrepareKeepsBase ==
  ASSUME Base, Remembered, NEW n \in DOMAIN attempts, PrepareResolves(n)
  PROVE  Base'
<1>1. Pending(n) /\ UNCHANGED <<operation, abortController, callId, failingOperation, timers, ending, calls>>
  BY DEF PrepareResolves, Pending, At
<1>2. CASE IsCurrent(attempts[n].op)
  <2>1. Effect(attempts', n, "starting", {}, {m \in SoundOpen \cup {n} : Sound(m)})
    BY <1>2, PrepareEffect DEF Base
  <2>2. UNCHANGED recovery /\ phase' \in Phases /\ UNCHANGED <<cleanupPending, microphoneEnabled>>
        /\ transportSession' = n
    BY <1>2 DEF PrepareResolves, Patch, Phases
  <2>3. OneLoop'
    BY <1>1, <2>1, <2>2, OneLoopKept
  <2>4. TypeOK' /\ Numbered' /\ Reserved'
    BY <1>1, <2>1, <2>2, Scalars, BaseKept DEF timers
  <2> QED BY <2>3, <2>4 DEF Base
<1>3. CASE ~IsCurrent(attempts[n].op)
  <2>1. Effect(attempts', n, "over", {}, SoundOpen)
    BY <1>3, PrepareEffect DEF Base
  <2>2. Returned(n) /\ UNCHANGED <<state, transportSession>>
    BY <1>3 DEF PrepareResolves
  <2>3. UNCHANGED recovery \/ (LeaveLoop /\ OfLoop(n))
    BY <1>1, <2>2, ReturnedLoop
  <2>4. OneLoop'
    BY <1>1, <2>1, <2>3, OneLoopKept
  <2>5. TypeOK' /\ Numbered' /\ Reserved'
    BY <1>1, <2>1, <2>2, <2>3, Scalars, BaseKept DEF timers, state
  <2> QED BY <2>4, <2>5 DEF Base
<1> QED BY <1>2, <1>3

LEMMA StartEffect ==
  ASSUME TypeOK, NEW n \in DOMAIN attempts, StartResolves(n)
  PROVE  IF IsCurrent(attempts[n].op)
         THEN Effect(attempts', n, "connecting", {}, SoundOpen)
         ELSE Effect(attempts', n, "finishing", {}, SoundOpen)
BY MovesEffect DEF StartResolves, Stages

LEMMA StartResolvesKeepsBase ==
  ASSUME Base, Remembered, NEW n \in DOMAIN attempts, StartResolves(n)
  PROVE  Base'
<1>1. Pending(n) /\ callId' = n /\ calls' = calls \cup {n}
      /\ UNCHANGED <<state, operation, abortController, failingOperation, transportSession,
                 reconnectTimer, recovery>>
  BY DEF StartResolves, Pending, At
<1>2. CASE IsCurrent(attempts[n].op)
  <2>1. Effect(attempts', n, "connecting", {}, SoundOpen)
    BY <1>2, StartEffect DEF Base
  <2>2. expiryTimer' = attempts[n].op /\ UNCHANGED ending
    BY <1>2 DEF StartResolves
  <2>3. expiryTimer' \in Operations
    BY <1>2, <2>2, Scalars DEF IsCurrent
  <2>4. OneLoop'
    BY <1>1, <2>1, <2>2, OneLoopKept
  <2>5. TypeOK' /\ Numbered' /\ Reserved'
    BY <1>1, <2>1, <2>2, <2>3, Scalars, BaseKept DEF state
  <2> QED BY <2>4, <2>5 DEF Base
<1>3. CASE ~IsCurrent(attempts[n].op)
  <2>1. Effect(attempts', n, "finishing", {}, SoundOpen)
    BY <1>3, StartEffect DEF Base
  <2> DEFINE e0 == [by |-> "finish", call |-> n, op |-> attempts[n].op]
  <2>2. UNCHANGED expiryTimer /\ ending' = ending \cup {e0}
    BY <1>3 DEF StartResolves
  <2>3. e0 \in Ending /\ e0.by = "finish" /\ e0.op \in 1 .. operation /\ e0.call <= Len(attempts)
    BY Scalars DEF Ending, Operations
  <2> HIDE DEF e0
  <2>4. OneLoop'
    BY <1>1, <2>1, <2>2, <2>3, OneLoopKept
  <2>5. TypeOK' /\ Numbered' /\ Reserved'
    BY <1>1, <2>1, <2>2, <2>3, Scalars, BaseKept DEF state
  <2> QED BY <2>4, <2>5 DEF Base
<1> QED BY <1>2, <1>3

LEMMA ConnectKeepsBase ==
  ASSUME Base, Remembered, NEW n \in DOMAIN attempts, ConnectResolves(n)
  PROVE  Base'
<1>1. /\ Pending(n) /\ Returned(n)
      /\ UNCHANGED <<operation, abortController, callId, failingOperation, transportSession,
                 timers, ending, calls>>
  BY DEF ConnectResolves, Pending, At
<1>2. Effect(attempts', n, "over", {}, SoundOpen)
  BY OverEffect DEF ConnectResolves, Base
<1>3. UNCHANGED recovery \/ (LeaveLoop /\ OfLoop(n))
  BY <1>1, ReturnedLoop
<1>4. phase' \in Phases /\ UNCHANGED <<cleanupPending, microphoneEnabled>>
  BY Scalars DEF ConnectResolves, Patch, Phases, Activities, state
<1>5. OneLoop'
  BY <1>1, <1>2, <1>3, OneLoopKept
<1>6. TypeOK' /\ Numbered' /\ Reserved'
  BY <1>1, <1>2, <1>3, <1>4, Scalars, BaseKept DEF timers
<1> QED BY <1>5, <1>6 DEF Base

\* A failure of the latest operation: an event of an open session, the start's
\* own attempt, or the loop's last one.
LEMMA FailKeepsBase ==
  ASSUME Base, Remembered, NEW n, NEW att, Effect(att, n, IF n = 0 THEN "none" ELSE "over", {}, SoundOpen),
         n # 0 => n \in DOMAIN attempts /\ Pending(n),
         NEW by \in {"fail", "failLoop"}, (by = "failLoop") => n # 0 /\ OfLoop(n),
         Fail(operation, att, by)
  PROVE  Base'
<1> DEFINE next == IF n = 0 THEN "none" ELSE "over"
           e0 == [by |-> by, call |-> callId, op |-> operation]
<1> HIDE DEF next
<1>1. Effect(att, n, next, {}, SoundOpen) /\ (n # 0 => next = "over")
  BY DEF next
<1>2. UNCHANGED <<operation, callId, calls>>
  BY DEF Fail
<1>3. 0 \notin DOMAIN attempts
  BY Scalars
<1>4. PICK ab, open : Effect(attempts', n, next, ab, open)
  <2>1. attempts' = att \/ attempts' = Shut(att)
    BY DEF Fail
  <2>2. Effect(Shut(att), n, next, {abortController}, SoundOpen \ {transportSession})
    BY <1>1, ShutEffect DEF Base
  <2> QED BY <1>1, <2>1, <2>2
<1>5. /\ phase' \in Phases /\ cleanupPending' \in BOOLEAN /\ microphoneEnabled' \in BOOLEAN
      /\ failingOperation' \in Operations /\ expiryTimer' \in Operations
      /\ abortController' \in {abortController, 0} /\ reconnectTimer' \in {reconnectTimer, 0}
      /\ transportSession' \in 0 .. Len(attempts)
  <2>1. CASE failingOperation = operation
    BY <2>1, Scalars DEF Fail, state, timers
  <2>2. CASE failingOperation # operation
    <3>1. phase' \in Phases /\ cleanupPending' \in BOOLEAN /\ microphoneEnabled' \in BOOLEAN
      BY <2>2, Scalars DEF Fail, Reset, Phases, state
    <3>2. abortController' = 0 /\ transportSession' = 0 /\ expiryTimer' = 0 /\ reconnectTimer' = 0
      BY <2>2 DEF Fail
    <3>3. failingOperation' \in {0, operation}
      BY <2>2 DEF Fail
    <3> QED BY <3>1, <3>2, <3>3, Scalars
  <2> QED BY <2>1, <2>2
<1>6. UNCHANGED recovery \/ (by = "failLoop" /\ LeaveLoop)
  BY DEF Fail
<1>7. ending' = ending \/ (UNCHANGED recovery /\ callId # 0 /\ ending' = ending \cup {e0})
  BY DEF Fail
<1>8. callId # 0 => e0 \in Ending /\ e0.op \in 1 .. operation /\ e0.call <= Len(attempts)
  <2>1. callId # 0 => callId \in DOMAIN attempts
    BY Scalars
  <2>2. callId # 0 => operation \in 1 .. operation
    BY <2>1, Scalars
  <2> QED BY <2>1, <2>2, Scalars DEF Ending
<1>9. e0.by = by
  OBVIOUS
<1> HIDE DEF e0
<1>10. TypeOK' /\ Numbered' /\ Reserved'
  <2>1. \A e \in ending' : e \in Ending /\ e.op \in 1 .. operation /\ e.call <= Len(attempts)
    BY <1>7, <1>8, Scalars
  <2> QED BY <1>2, <1>4, <1>5, <1>6, <2>1, Scalars, BaseKept
<1>11. OneLoop'
  <2>1. CASE by = "fail" \/ ending' = ending
    <3>1. \A e \in ending' : e.by = "failLoop" => e \in ending
      BY <1>7, <1>9, <2>1
    <3>2. UNCHANGED recovery \/ (n \in DOMAIN attempts /\ LeaveLoop /\ OfLoop(n) /\ next = "over")
      BY <1>1, <1>6, <2>1
    <3>3. n \in DOMAIN attempts => Pending(n)
      BY <1>3
    <3> QED BY <1>4, <3>1, <3>2, <3>3, OneLoopKept
  <2>2. CASE by = "failLoop" /\ ending' = ending \cup {e0} /\ UNCHANGED recovery
    <3>1. /\ n \in DOMAIN attempts /\ Pending(n) /\ OfLoop(n) /\ next = "over"
          /\ DOMAIN attempts' = DOMAIN attempts
          /\ \A m \in DOMAIN attempts :
               /\ attempts'[m].op = attempts[m].op /\ attempts'[m].via = attempts[m].via
               /\ attempts'[m].at = IF m = n THEN "over" ELSE attempts[m].at
      BY <1>1, <1>4, <2>2, EffectFields DEF Base
    <3>2. \A m \in DOMAIN attempts' : OfLoop(m)' => ~Pending(m)'
      BY <3>1 DEF Base, OneLoop, OfLoop, Pending
    <3>3. /\ loop'.at = "establishing"
          /\ \A e \in ending' : e.by = "failLoop" => e = e0
      BY <2>2, <3>1 DEF Base, OneLoop, recovery
    <3> QED BY <3>2, <3>3 DEF OneLoop
  <2> QED BY <1>6, <1>7, <2>1, <2>2
<1> QED BY <1>10, <1>11 DEF Base

\* The reconnect loop starts, or goes round, with room for what is left of it.
LEMMA ReofferKeepsBase ==
  ASSUME Base, Remembered, NEW n, NEW att, NEW next, Effect(att, n, next, {}, SoundOpen),
         NEW k \in 0 .. MaxReconnectAttempts - 1,
         Len(attempts) + MaxReconnectAttempts - k <= MaxAttempts,
         \A m \in DOMAIN attempts : OfLoop(m) /\ Pending(m) => m = n /\ next = "over",
         n \in DOMAIN attempts => Pending(n),
         \A e \in ending : e.by # "failLoop",
         Reoffer(operation, k, att), reconnectTimer' = 0, operation # 0
  PROVE  Base'
<1> DEFINE e0 == [by |-> "finish", call |-> callId, op |-> operation]
           l0 == [op |-> operation, attempt |-> k, at |-> "delay"]
<1>1. Effect(attempts', n, next, {abortController}, SoundOpen \ {transportSession})
  BY ShutEffect DEF Reoffer, Base
<1>2. /\ attempts' \in Seq(Attempt) /\ Len(attempts') = Len(attempts)
      /\ Len(attempts) \in Nat /\ Len(attempts) <= MaxAttempts /\ MaxAttempts \in Nat
      /\ DOMAIN attempts' = DOMAIN attempts
      /\ \A m \in DOMAIN attempts :
           /\ attempts'[m].via = attempts[m].via
           /\ attempts'[m].at = IF m = n THEN next ELSE attempts[m].at
  <2>1. TypeOK /\ Len(attempts) <= MaxAttempts /\ MaxAttempts \in Nat
    BY ControllerConstants DEF Base, TypeOK
  <2> QED BY <1>1, <2>1, EffectFields
<1>3. MaxReconnectAttempts \in Nat
  BY ControllerConstants
<1>4. /\ transportSession' = 0 /\ callId' = 0 /\ reconnecting' = TRUE /\ loop' = l0
      /\ UNCHANGED <<operation, abortController, failingOperation, expiryTimer, calls>>
      /\ phase' \in Phases /\ UNCHANGED <<cleanupPending, microphoneEnabled>>
  BY DEF Reoffer, Patch, Phases
<1>5. /\ l0 \in [op : Operations, attempt : 0 .. MaxReconnectAttempts - 1,
                 at : {"none", "delay", "establishing"}]
      /\ l0.op = operation /\ l0.attempt = k /\ l0.at = "delay"
  BY Scalars
<1>6. \A e \in ending' : e \in Ending /\ e.op \in 1 .. operation /\ e.call <= Len(attempts)
                         /\ e.by # "failLoop"
  <2>1. CASE callId = 0
    BY <2>1, Scalars DEF Reoffer
  <2>2. CASE callId # 0
    <3>1. callId \in DOMAIN attempts /\ callId \in Ids
      BY <2>2, Scalars
    <3>2. operation \in 1 .. operation
      BY <3>1, Scalars
    <3>3. e0 \in Ending /\ e0.by = "finish" /\ e0.op = operation /\ e0.call = callId
      BY <3>1, Scalars DEF Ending
    <3>4. ending' = ending \cup {e0}
      BY <2>2 DEF Reoffer
    <3> HIDE DEF e0
    <3> QED BY <3>1, <3>2, <3>3, <3>4, Scalars
  <2> QED BY <2>1, <2>2
<1> HIDE DEF l0, e0
<1>7. TypeOK'
  <2>1. {abortController', callId', transportSession'} \subseteq Ids \cup {0}
    BY <1>4 DEF Base, TypeOK
  <2>2. {expiryTimer', reconnectTimer'} \subseteq Operations
    BY <1>4, Scalars
  <2>3. ending' \subseteq Ending
    BY <1>6
  <2> QED BY <1>2, <1>4, <1>5, <2>1, <2>2, <2>3, Scalars DEF TypeOK, Remembered
<1>8. Numbered'
  <2>1. loop'.op <= operation /\ reconnectTimer' <= operation
    BY <1>4, <1>5, Scalars
  <2>2. {transportSession', callId'} \subseteq 0 .. Len(attempts)
    BY <1>4, Scalars
  <2> QED BY <1>1, <1>4, <1>6, <2>1, <2>2, NumberedKept
<1>9. Reserved'
  <2>1. LoopRoom' = MaxReconnectAttempts - k /\ TimerRoom' = 0 /\ loop'.at = "delay"
    BY <1>4, <1>5 DEF LoopRoom, TimerRoom
  <2> QED BY <1>2, <1>3, <1>4, <1>5, <2>1 DEF Reserved
<1>10. OneLoop'
  <2>1. \A m \in DOMAIN attempts' : ~(OfLoop(m)' /\ Pending(m)')
    BY <1>2 DEF OfLoop, Pending
  <2> QED BY <1>6, <2>1 DEF OneLoop
<1> QED BY <1>7, <1>8, <1>9, <1>10 DEF Base

\* A step that ends one attempt and nothing else.
LEMMA EndsQuietly ==
  ASSUME Base, Remembered, NEW n \in DOMAIN attempts, Pending(n), attempts' = Over(n),
         UNCHANGED recovery \/ (LeaveLoop /\ OfLoop(n)),
         UNCHANGED <<state, operation, abortController, callId, failingOperation,
                     transportSession, timers, ending, calls>>
  PROVE  Base'
<1>1. Effect(attempts', n, "over", {}, SoundOpen)
  BY OverEffect DEF Base
<1>2. OneLoop'
  BY <1>1, OneLoopKept
<1>3. TypeOK' /\ Numbered' /\ Reserved'
  BY <1>1, Scalars, BaseKept DEF timers, state
<1> QED BY <1>2, <1>3 DEF Base

LEMMA StartThrowsKeepsBase ==
  ASSUME Base, Remembered, NEW n \in DOMAIN attempts, Pending(n), StartThrows(n, attempts[n].op)
  PROVE  Base'
<1>1. CASE IsCurrent(attempts[n].op)
  <2>1. Fail(operation, Over(n), "fail")
    BY <1>1 DEF StartThrows, IsCurrent
  <2>2. Effect(Over(n), n, IF n = 0 THEN "none" ELSE "over", {}, SoundOpen)
    BY OverEffect, Scalars DEF Base
  <2> QED BY <2>1, <2>2, FailKeepsBase
<1>2. CASE ~IsCurrent(attempts[n].op)
  BY <1>2, EndsQuietly DEF StartThrows, recovery
<1> QED BY <1>1, <1>2

LEMMA ReofferThrowsKeepsBase ==
  ASSUME Base, Remembered, NEW n \in DOMAIN attempts, Pending(n), ReofferThrows(n, attempts[n].op)
  PROVE  Base'
<1>1. OfLoop(n)
  BY DEF ReofferThrows, OfLoop
<1>2. /\ loop.at = "establishing" /\ loop.op = attempts[n].op
      /\ \A m \in DOMAIN attempts : OfLoop(m) /\ Pending(m) => m = n
      /\ \A e \in ending : e.by # "failLoop"
  BY <1>1 DEF Base, OneLoop
<1>3. Effect(Over(n), n, "over", {}, SoundOpen)
  BY OverEffect DEF Base
<1>4. CASE attempts[n].op = operation /\ loop.attempt + 1 < MaxReconnectAttempts
             /\ Reoffer(operation, loop.attempt + 1, Over(n)) /\ UNCHANGED reconnectTimer
  <2>1. Reoffer(operation, loop.attempt + 1, Over(n)) /\ UNCHANGED reconnectTimer
    BY <1>4
  <2>2. loop.attempt \in 0 .. MaxReconnectAttempts - 1 /\ MaxReconnectAttempts \in Nat
        /\ MaxAttempts \in Nat
    BY ControllerConstants DEF Base, TypeOK
  <2>3. reconnectTimer = 0 /\ LoopRoom = MaxReconnectAttempts - loop.attempt - 1 /\ TimerRoom = 0
    BY <1>2 DEF Base, Reserved, LoopRoom, TimerRoom
  <2>4. Len(attempts) + MaxReconnectAttempts - (loop.attempt + 1) <= MaxAttempts
    BY <2>2, <2>3, Scalars DEF Base, Reserved
  <2>5. loop.attempt + 1 \in 0 .. MaxReconnectAttempts - 1
    BY <1>4, <2>2
  <2>6. operation # 0
    BY <1>4, Scalars
  <2> QED BY <1>2, <1>3, <2>1, <2>3, <2>4, <2>5, <2>6, ReofferKeepsBase
<1>5. CASE attempts[n].op = operation /\ Fail(operation, Over(n), "failLoop")
  <2>1. Fail(operation, Over(n), "failLoop")
    BY <1>5
  <2>2. n # 0
    BY Scalars
  <2> QED BY <1>1, <1>3, <2>1, <2>2, FailKeepsBase
<1>6. CASE attempts' = Over(n) /\ LeaveLoop
           /\ UNCHANGED <<state, operation, abortController, callId, failingOperation,
                          transportSession, timers, ending, calls>>
  BY <1>1, <1>6, EndsQuietly
<1> QED BY <1>4, <1>5, <1>6 DEF ReofferThrows

LEMMA EstablishKeepsBase ==
  ASSUME Base, Remembered, NEW n \in DOMAIN attempts, Establish(n)
  PROVE  Base'
<1>1. CASE EstablishThrows(n)
  <2>1. Pending(n)
    BY <1>1 DEF EstablishThrows, At, Pending
  <2> QED BY <1>1, <2>1, StartThrowsKeepsBase, ReofferThrowsKeepsBase DEF EstablishThrows
<1> QED BY <1>1, PrepareKeepsBase, StartResolvesKeepsBase, ConnectKeepsBase DEF Establish

-----------------------------------------------------------------------------
(* The user, the loop, the timers and the transport keep Base *)

\* A step that only shows something, drops the grace timer, or marks a session.
LEMMA EventKeepsBase ==
  ASSUME Base, Remembered, Effect(attempts', 0, "none", {}, SoundOpen),
         phase' \in Phases, cleanupPending' \in BOOLEAN, microphoneEnabled' \in BOOLEAN,
         reconnectTimer' \in {reconnectTimer, 0},
         UNCHANGED <<operation, abortController, callId, failingOperation, transportSession,
                     expiryTimer, recovery, ending, calls>>
  PROVE  Base'
<1>1. 0 \notin DOMAIN attempts
  BY Scalars
<1>2. OneLoop'
  BY <1>1, OneLoopKept
<1>3. TypeOK' /\ Numbered' /\ Reserved'
  BY Scalars, BaseKept
<1> QED BY <1>2, <1>3 DEF Base

\* A new attempt, of the latest operation or of the next one.
LEMMA NewAttemptKeepsBase ==
  ASSUME Base, Remembered, NEW via \in {"start", "loop"}, operation' \in Operations, operation <= operation',
         NewAttempt(operation', via), operation' \in 1 .. operation',
         loop' \in [op : Operations, attempt : 0 .. MaxReconnectAttempts - 1,
                    at : {"none", "delay", "establishing"}],
         loop'.op <= operation',
         Len(attempts) + 1 + LoopRoom' + TimerRoom <= MaxAttempts, LoopRoom' \in Nat,
         phase' \in Phases, cleanupPending' \in BOOLEAN, microphoneEnabled' \in BOOLEAN,
         UNCHANGED <<reconnecting, callId, failingOperation, transportSession, timers, ending, calls>>
  PROVE  /\ TypeOK' /\ Numbered'
         /\ Len(attempts') + LoopRoom' + TimerRoom' <= MaxAttempts
<1>1. /\ attempts' \in Seq(Attempt) /\ Len(attempts') = Len(attempts) + 1
      /\ abortController' = Len(attempts) + 1
      /\ \A m \in DOMAIN attempts : attempts'[m] = attempts[m]
      /\ attempts'[Len(attempts) + 1].op = operation'
  BY NewAttemptEffect DEF Base
<1>2. DOMAIN attempts' = 1 .. Len(attempts) + 1 /\ DOMAIN attempts = 1 .. Len(attempts)
      /\ Len(attempts) \in Nat /\ MaxAttempts \in Nat
  BY <1>1, LenProperties, ControllerConstants DEF Base, TypeOK
<1>3. TimerRoom' = TimerRoom /\ TimerRoom \in Nat
  BY ControllerConstants DEF TimerRoom, timers
<1>4. Len(attempts') <= MaxAttempts /\ abortController' \in Ids
  BY <1>1, <1>2, <1>3 DEF Ids
<1>5. TypeOK'
  BY <1>1, <1>4 DEF TypeOK, Remembered, Base, timers
<1>6. Numbered'
  <2>1. {abortController', transportSession', callId'} \subseteq 0 .. Len(attempts')
    BY <1>1, <1>2, Scalars
  <2>2. abortController' # 0 => attempts'[abortController'].op = operation'
    BY <1>1
  <2>3. \A n \in DOMAIN attempts' : attempts'[n].op \in 1 .. operation'
    <3>1. \A n \in DOMAIN attempts : attempts'[n].op \in 1 .. operation
      BY <1>1, Scalars
    <3>2. 1 .. operation \subseteq 1 .. operation'
      BY Scalars DEF Operations
    <3> QED BY <1>1, <1>2, <3>1, <3>2
  <2>4. loop'.op <= operation' /\ reconnectTimer' <= operation'
    <3>1. reconnectTimer \in Operations /\ reconnectTimer <= operation
      BY DEF Base, Numbered, TypeOK
    <3>2. reconnectTimer' = reconnectTimer
      BY DEF timers
    <3>3. reconnectTimer \in Nat /\ operation \in Nat /\ operation' \in Nat
      BY <3>1, Scalars DEF Operations
    <3> QED BY <3>1, <3>2, <3>3
  <2>5. \A e \in ending' : e.op \in 1 .. operation' /\ e.call <= Len(attempts')
    <3>1. 1 .. operation \subseteq 1 .. operation'
      BY Scalars DEF Operations
    <3>2. \A e \in ending : e.call \in Int
      BY Scalars DEF Ending, Ids
    <3>3. \A e \in ending : e.op \in 1 .. operation /\ e.call <= Len(attempts)
      BY Scalars
    <3>4. Len(attempts) <= Len(attempts') /\ ending' = ending
      BY <1>1, <1>2
    <3>5. \A e \in ending : e.call <= Len(attempts')
      BY <1>1, <1>2, <3>2, <3>3, <3>4
    <3> QED BY <3>1, <3>3, <3>4, <3>5
  <2> QED BY <2>1, <2>2, <2>3, <2>4, <2>5 DEF Numbered, Remembered, Current
<1> QED BY <1>1, <1>2, <1>3, <1>5, <1>6

\* What Room(k) asks for, added up.
LEMMA RoomFor ==
  ASSUME Base, NEW k \in Nat, Room(k)
  PROVE  Len(attempts) + (IF reconnecting THEN MaxReconnectAttempts ELSE 0) + TimerRoom + k <= MaxAttempts
<1>1. MaxReconnectAttempts \in Nat /\ MaxAttempts \in Nat /\ Len(attempts) \in Nat
  BY ControllerConstants, Scalars
<1>2. CASE reconnecting /\ reconnectTimer # 0
  BY <1>1, <1>2 DEF Room, TimerRoom
<1>3. CASE reconnecting /\ reconnectTimer = 0
  BY <1>1, <1>3 DEF Room, TimerRoom
<1>4. CASE ~reconnecting /\ reconnectTimer # 0
  BY <1>1, <1>4 DEF Room, TimerRoom
<1>5. CASE ~reconnecting /\ reconnectTimer = 0
  BY <1>1, <1>5 DEF Room, TimerRoom
<1> QED BY <1>2, <1>3, <1>4, <1>5

LEMMA StartKeepsBase ==
  ASSUME Base, Remembered, Start
  PROVE  Base'
<1>1. CASE callId # 0
  <2>1. /\ phase' \in Phases /\ attempts' = attempts
        /\ cleanupPending' \in BOOLEAN /\ microphoneEnabled' \in BOOLEAN
        /\ UNCHANGED <<operation, abortController, callId, failingOperation, transportSession,
                       timers, recovery, ending, calls>>
    BY <1>1, Scalars DEF Start, Phases
  <2>2. Effect(attempts', 0, "none", {}, SoundOpen)
    BY <2>1, SameEffect DEF Base
  <2> QED BY <2>1, <2>2, EventKeepsBase DEF timers
<1>2. CASE callId = 0
  <2>1. /\ operation' = operation + 1 /\ operation < MaxOperations /\ Room(1)
        /\ NewAttempt(operation', "start")
        /\ UNCHANGED <<callId, failingOperation, transportSession, timers, recovery, ending, calls>>
        /\ phase' \in Phases /\ cleanupPending' \in BOOLEAN /\ microphoneEnabled' \in BOOLEAN
    BY <1>2 DEF Start, Reset, Phases
  <2>2. operation' \in Operations /\ operation <= operation' /\ operation' \in 1 .. operation'
    BY <2>1, ControllerConstants, Scalars DEF Operations
  <2>3. /\ loop' \in [op : Operations, attempt : 0 .. MaxReconnectAttempts - 1,
                      at : {"none", "delay", "establishing"}]
        /\ loop'.op <= operation' /\ UNCHANGED <<reconnecting, loop>>
    BY <2>1, Scalars DEF Base, TypeOK, Numbered, recovery, Operations
  <2>4. LoopRoom' = LoopRoom
    BY <2>3 DEF LoopRoom
  <2>5. LoopRoom \in Nat /\ Len(attempts) + 1 + LoopRoom + TimerRoom <= MaxAttempts
    <3>1. MaxReconnectAttempts \in Nat /\ MaxAttempts \in Nat /\ loop.attempt \in 0 .. MaxReconnectAttempts - 1
          /\ loop.at \in {"none", "delay", "establishing"}
      BY ControllerConstants DEF Base, TypeOK
    <3>2. reconnecting <=> loop.at # "none"
      BY DEF Base, Reserved
    <3>3. LoopRoom \in Nat /\ LoopRoom <= IF reconnecting THEN MaxReconnectAttempts ELSE 0
      BY <3>1, <3>2 DEF LoopRoom
    <3>4. Len(attempts) + (IF reconnecting THEN MaxReconnectAttempts ELSE 0) + TimerRoom + 1 <= MaxAttempts
      BY <2>1, <3>1, RoomFor
    <3>5. TimerRoom \in Nat
      BY <3>1 DEF TimerRoom
    <3> QED BY <3>1, <3>3, <3>4, <3>5, Scalars
  <2>6. /\ TypeOK' /\ Numbered'
        /\ Len(attempts') + LoopRoom' + TimerRoom' <= MaxAttempts
    BY <2>1, <2>2, <2>3, <2>4, <2>5, NewAttemptKeepsBase
  <2>7. Reserved'
    BY <2>1, <2>3, <2>6 DEF Reserved, Base, timers
  <2>8. OneLoop'
    <3>1. /\ DOMAIN attempts' = 1 .. Len(attempts) + 1 /\ DOMAIN attempts = 1 .. Len(attempts)
          /\ Len(attempts) \in Nat
          /\ \A m \in DOMAIN attempts : attempts'[m] = attempts[m]
          /\ attempts'[Len(attempts) + 1].via = "start"
      BY <2>1, <2>2, NewAttemptEffect, LenProperties DEF Base, TypeOK
    <3>2. \A m \in DOMAIN attempts' : OfLoop(m)' => m \in DOMAIN attempts /\ OfLoop(m)
      BY <3>1 DEF OfLoop
    <3> QED BY <2>1, <2>3, <3>1, <3>2 DEF Base, OneLoop, OfLoop, Pending
  <2> QED BY <2>6, <2>7, <2>8 DEF Base
<1> QED BY <1>1, <1>2

LEMMA LoopWakesKeepsBase ==
  ASSUME Base, Remembered, LoopWakes
  PROVE  Base'
<1>1. CASE loop.op = operation
  <2> DEFINE l0 == [loop EXCEPT !.at = "establishing"]
  <2>1. /\ loop.at = "delay" /\ NewAttempt(operation, "loop") /\ loop' = l0
        /\ UNCHANGED reconnecting
        /\ UNCHANGED <<state, operation, callId, failingOperation, transportSession, timers,
                       ending, calls>>
    BY <1>1 DEF LoopWakes
  <2>2. MaxReconnectAttempts \in Nat
    BY ControllerConstants
  <2>3. /\ l0 \in [op : Operations, attempt : 0 .. MaxReconnectAttempts - 1,
                   at : {"none", "delay", "establishing"}]
        /\ l0.op = operation /\ l0.at = "establishing" /\ l0.attempt = loop.attempt
        /\ loop.attempt \in 0 .. MaxReconnectAttempts - 1
    BY <1>1 DEF Base, TypeOK
  <2> HIDE DEF l0
  <2>4. LoopRoom' = MaxReconnectAttempts - loop.attempt - 1
        /\ LoopRoom = MaxReconnectAttempts - loop.attempt
    BY <2>1, <2>3 DEF LoopRoom
  <2>5. LoopRoom' \in Nat /\ Len(attempts) + 1 + LoopRoom' + TimerRoom <= MaxAttempts
    <3>1. TimerRoom \in Nat /\ MaxAttempts \in Nat
      BY ControllerConstants DEF TimerRoom
    <3>2. Len(attempts) + LoopRoom + TimerRoom <= MaxAttempts
      BY DEF Base, Reserved
    <3>3. loop.attempt \in Nat /\ loop.attempt <= MaxReconnectAttempts - 1
      BY <2>2, <2>3
    <3>4. LoopRoom' \in Nat /\ LoopRoom = LoopRoom' + 1
      BY <2>2, <2>4, <3>3
    <3>5. Len(attempts) \in Nat
      BY Scalars
    <3> QED BY <3>1, <3>2, <3>4, <3>5
  <2>6. phase' \in Phases /\ cleanupPending' \in BOOLEAN /\ microphoneEnabled' \in BOOLEAN
    BY <2>1, Scalars DEF state
  <2>7. operation \in 1 .. operation
    BY <1>1, <2>1, Scalars DEF Base, Reserved
  <2>8. /\ TypeOK' /\ Numbered'
        /\ Len(attempts') + LoopRoom' + TimerRoom' <= MaxAttempts
    <3>1. operation' = operation /\ operation' \in Operations /\ operation <= operation'
          /\ loop'.op <= operation'
      BY <2>1, <2>3, Scalars
    <3>2. NewAttempt(operation', "loop")
      BY <2>1
    <3> QED BY <2>1, <2>3, <2>5, <2>6, <2>7, <3>1, <3>2, NewAttemptKeepsBase
  <2>9. Reserved'
    BY <1>1, <2>1, <2>3, <2>8 DEF Base, Reserved, timers
  <2>10. OneLoop'
    <3>1. /\ DOMAIN attempts' = 1 .. Len(attempts) + 1 /\ DOMAIN attempts = 1 .. Len(attempts)
          /\ Len(attempts) \in Nat
          /\ \A m \in DOMAIN attempts : attempts'[m] = attempts[m]
          /\ attempts'[Len(attempts) + 1].op = operation
      BY <2>1, NewAttemptEffect, LenProperties, Scalars DEF Base, TypeOK
    <3>2. /\ \A m \in DOMAIN attempts : ~(OfLoop(m) /\ Pending(m))
          /\ \A e \in ending' : e.by # "failLoop"
      BY <2>1 DEF Base, OneLoop
    <3>3. \A m \in DOMAIN attempts' : OfLoop(m)' /\ Pending(m)' => m = Len(attempts) + 1
      BY <3>1, <3>2 DEF OfLoop, Pending
    <3> QED BY <1>1, <2>1, <2>3, <3>1, <3>2, <3>3 DEF OneLoop
  <2> QED BY <2>8, <2>9, <2>10 DEF Base
<1>2. CASE loop.op # operation
  <2>1. /\ loop.at = "delay" /\ LeaveLoop /\ attempts' = attempts
        /\ UNCHANGED <<state, operation, abortController, callId, failingOperation,
                       transportSession, timers, ending, calls>>
    BY <1>2 DEF LoopWakes
  <2>2. Effect(attempts', 0, "none", {}, SoundOpen)
    BY <2>1, SameEffect DEF Base
  <2>3. TypeOK' /\ Numbered' /\ Reserved'
    BY <2>1, <2>2, Scalars, BaseKept DEF state, timers
  <2>4. OneLoop'
    BY <2>1 DEF Base, OneLoop, OfLoop, Pending
  <2> QED BY <2>3, <2>4 DEF Base
<1> QED BY <1>1, <1>2

LEMMA StopKeepsBase ==
  ASSUME Base, Remembered, Stop
  PROVE  Base'
<1> DEFINE e0 == [by |-> "stop", call |-> callId, op |-> operation + 1]
<1>1. Effect(attempts', 0, "none", {abortController}, SoundOpen \ {transportSession})
  BY SameEffect, ShutEffect DEF Stop, Base
<1>2. /\ operation' = operation + 1 /\ operation < MaxOperations
      /\ failingOperation' = 0 /\ abortController' = 0 /\ transportSession' = 0
      /\ expiryTimer' = 0 /\ reconnectTimer' = 0
      /\ UNCHANGED <<callId, recovery, calls>>
  BY DEF Stop
<1>3. operation' \in Operations /\ 1 .. operation \subseteq 1 .. operation'
      /\ operation' \in 1 .. operation' /\ operation <= operation'
  BY <1>2, ControllerConstants, Scalars DEF Operations
<1>4. phase' \in Phases /\ cleanupPending' \in BOOLEAN /\ microphoneEnabled' \in BOOLEAN
  BY Scalars DEF Stop, Reset, Patch, Phases
<1>5. \A e \in ending' : /\ e \in Ending /\ e.op \in 1 .. operation' /\ e.call <= Len(attempts)
                         /\ e.by = "failLoop" => e \in ending
  <2>1. CASE callId = 0
    <3>1. ending' = ending
      BY <2>1 DEF Stop
    <3> QED BY <1>3, <3>1, Scalars
  <2>2. CASE callId # 0
    <3>1. ending' = ending \cup {e0}
      BY <2>2 DEF Stop
    <3>2. callId \in DOMAIN attempts /\ callId \in Ids /\ callId <= Len(attempts)
      BY <2>2, Scalars
    <3>3. e0.by = "stop" /\ e0.op = operation' /\ e0.call = callId
      BY <1>2
    <3>4. e0 \in Ending
      BY <1>2, <1>3, <3>2 DEF Ending
    <3> HIDE DEF e0
    <3> QED BY <1>3, <3>1, <3>2, <3>3, <3>4, Scalars
  <2> QED BY <2>1, <2>2
<1>6. /\ attempts' \in Seq(Attempt) /\ Len(attempts') = Len(attempts)
      /\ DOMAIN attempts' = DOMAIN attempts
      /\ \A m \in DOMAIN attempts : attempts'[m].op = attempts[m].op
  BY <1>1, EffectFields DEF Base
<1>7. TypeOK'
  <2>1. ending' \subseteq Ending
    BY <1>5
  <2> QED BY <1>2, <1>3, <1>4, <1>6, <2>1, Scalars DEF Base, TypeOK, Remembered, recovery
<1>8. Numbered'
  <2>1. loop'.op <= operation'
    BY <1>2, <1>3, Scalars DEF Base, Numbered, TypeOK, recovery, Operations
  <2>2. \A n \in DOMAIN attempts' : attempts'[n].op \in 1 .. operation'
    BY <1>3, <1>6, Scalars
  <2>3. {abortController', transportSession', callId'} \subseteq 0 .. Len(attempts')
    BY <1>2, <1>6, Scalars
  <2>4. \A e \in ending' : e.op \in 1 .. operation' /\ e.call <= Len(attempts')
    BY <1>5, <1>6
  <2> QED BY <1>2, <1>3, <2>1, <2>2, <2>3, <2>4 DEF Numbered, Remembered
<1>9. Reserved'
  BY <1>2, <1>6, ReservedKept
<1>10. OneLoop'
  BY <1>1, <1>2, <1>5, OneLoopKept, Scalars
<1> QED BY <1>7, <1>8, <1>9, <1>10 DEF Base

LEMMA EndedKeepsBase ==
  ASSUME Base, Remembered, NEW e \in ending, Ended(e)
  PROVE  Base'
<1>1. e \in Ending /\ ending' = ending \ {e} /\ e.call <= Len(attempts)
  BY Scalars DEF Ended
<1>2. /\ phase' \in Phases /\ cleanupPending' \in BOOLEAN /\ microphoneEnabled' \in BOOLEAN
      /\ failingOperation' \in Operations
  BY Scalars DEF Ended, Reset, Phases, state
<1>3. calls' \subseteq Ids /\ callId' \in {callId, 0}
  BY Scalars DEF Ended, Forget
<1>4. UNCHANGED <<operation, abortController, transportSession, timers>>
  BY DEF Ended
<1>5. \A f \in ending' : f \in Ending /\ f.op \in 1 .. operation /\ f.call <= Len(attempts)
                         /\ f \in ending
  BY <1>1, Scalars
<1>6. CASE e.by = "finish" /\ At(e.call, "finishing")
  <2>1. attempts' = Over(e.call) /\ Returned(e.call)
    BY <1>6 DEF Ended
  <2>2. e.call \in DOMAIN attempts
    BY <1>1, Scalars DEF Ending, Ids
  <2>3. Pending(e.call)
    BY <1>6 DEF Pending, At
  <2>4. Effect(attempts', e.call, "over", {}, SoundOpen)
    BY <2>1, <2>2, OverEffect DEF Base
  <2>5. UNCHANGED recovery \/ (LeaveLoop /\ OfLoop(e.call))
    BY <2>1, <2>2, <2>3, ReturnedLoop
  <2>6. OneLoop'
    BY <1>5, <2>2, <2>3, <2>4, <2>5, OneLoopKept
  <2>7. TypeOK' /\ Numbered' /\ Reserved'
    BY <1>2, <1>3, <1>4, <1>5, <2>4, <2>5, Scalars, BaseKept DEF timers
  <2> QED BY <2>6, <2>7 DEF Base
<1>7. CASE ~(e.by = "finish" /\ At(e.call, "finishing"))
  <2>1. attempts' = attempts /\ ((LeaveLoop /\ e.by = "failLoop") \/ UNCHANGED recovery)
    BY <1>7 DEF Ended
  <2>2. Effect(attempts', 0, "none", {}, SoundOpen)
    BY <2>1, SameEffect DEF Base
  <2>3. TypeOK' /\ Numbered' /\ Reserved'
    BY <1>2, <1>3, <1>4, <1>5, <2>1, <2>2, Scalars, BaseKept DEF timers
  <2>4. OneLoop'
    <3>1. CASE UNCHANGED recovery
      BY <1>5, <2>2, <3>1, OneLoopKept, Scalars
    <3>2. CASE LeaveLoop /\ e.by = "failLoop"
      <4>1. \A f \in ending' : f.by # "failLoop"
        BY <1>1, <3>2 DEF Base, OneLoop
      <4>2. \A m \in DOMAIN attempts' : OfLoop(m)' => ~Pending(m)'
        BY <2>1, <3>2 DEF Base, OneLoop, OfLoop, Pending
      <4> QED BY <4>1, <4>2 DEF OneLoop
    <3> QED BY <2>1, <3>1, <3>2
  <2> QED BY <2>3, <2>4 DEF Base
<1> QED BY <1>6, <1>7

\* Without a loop nothing of a loop is pending.
LEMMA NoLoopNoReoffer ==
  ASSUME Base, ~reconnecting
  PROVE  /\ \A m \in DOMAIN attempts : ~(OfLoop(m) /\ Pending(m))
         /\ \A e \in ending : e.by # "failLoop"
BY DEF Base, Reserved, OneLoop

\* A lost connection starts a loop.
LEMMA ReconnectKeepsBase ==
  ASSUME Base, Remembered, NEW att, Effect(att, 0, "none", {}, SoundOpen), ~reconnecting,
         Reoffer(operation, 0, att), reconnectTimer' = 0, operation # 0,
         reconnectTimer # 0 \/ Room(MaxReconnectAttempts)
  PROVE  Base'
<1>1. MaxReconnectAttempts \in Nat \ {0} /\ MaxAttempts \in Nat
  BY ControllerConstants
<1>2. Len(attempts) + MaxReconnectAttempts <= MaxAttempts
  <2>1. CASE reconnectTimer # 0
    BY <1>1, <2>1, Scalars DEF Base, Reserved, TimerRoom, LoopRoom, NoLoop
  <2>2. CASE Room(MaxReconnectAttempts)
    BY <1>1, <2>2, RoomFor, Scalars DEF TimerRoom
  <2> QED BY <2>1, <2>2
<1>3. 0 \in 0 .. MaxReconnectAttempts - 1 /\ Len(attempts) + MaxReconnectAttempts - 0 <= MaxAttempts
  BY <1>1, <1>2, Scalars
<1> QED BY <1>3, ReofferKeepsBase, NoLoopNoReoffer, Scalars

LEMMA GraceKeepsBase ==
  ASSUME Base, Remembered, GraceFires
  PROVE  Base'
<1>1. reconnectTimer # 0 /\ reconnectTimer' = 0
  BY DEF GraceFires
<1>2. Effect(attempts, 0, "none", {}, SoundOpen)
  BY SameEffect DEF Base
<1>3. CASE GraceOver(reconnectTimer) /\ Reconnect(reconnectTimer)
  <2>1. reconnectTimer = operation
    BY <1>3 DEF GraceOver, IsCurrent
  <2>2. ~reconnecting /\ Reoffer(operation, 0, attempts)
    BY <1>3, <2>1 DEF Reconnect
  <2> QED BY <1>1, <1>2, <2>1, <2>2, ReconnectKeepsBase
<1>4. CASE Idle
  <2>1. attempts' = attempts
    BY <1>4 DEF Idle
  <2>2. Effect(attempts', 0, "none", {}, SoundOpen)
    BY <1>2, <2>1
  <2> QED BY <1>1, <1>4, <2>2, EventKeepsBase, Scalars DEF Idle, state
<1> QED BY <1>3, <1>4 DEF GraceFires

\* The states an event can find the controller in.
LEMMA HeardIsCurrent ==
  ASSUME Base, NEW n \in DOMAIN attempts, Heard(n)
  PROVE  attempts[n].op = operation /\ operation # 0 /\ n # 0
BY Scalars DEF Heard, IsCurrent

LEMMA ShownKeepsBase ==
  ASSUME Base, Remembered, NEW n \in DOMAIN attempts, Activity(n) \/ Connected(n)
  PROVE  Base'
<1>1. CASE Activity(n)
  <2>1. Effect(attempts', 0, "none", {}, SoundOpen)
    BY <1>1, SameEffect DEF Base, Activity
  <2>2. phase' \in Phases /\ UNCHANGED <<cleanupPending, microphoneEnabled, reconnectTimer>> /\ Quietly
    BY <1>1 DEF Activity, Patch, Phases
  <2> QED BY <2>1, <2>2, EventKeepsBase, Scalars DEF Quietly
<1>2. CASE Connected(n)
  <2>1. Effect(attempts', 0, "none", {}, SoundOpen)
    BY <1>2, LostEffect DEF Base, Connected
  <2>2. phase' \in Phases /\ UNCHANGED <<cleanupPending, microphoneEnabled>> /\ Quietly
        /\ reconnectTimer' = 0
    BY <1>2 DEF Connected, Patch, Phases, Activities
  <2> QED BY <2>1, <2>2, EventKeepsBase, Scalars DEF Quietly
<1> QED BY <1>1, <1>2

LEMMA DisconnectedKeepsBase ==
  ASSUME Base, Remembered, NEW n \in DOMAIN attempts, Disconnected(n)
  PROVE  Base'
<1>1. Effect(attempts', 0, "none", {}, SoundOpen)
  BY LostEffect DEF Base, Disconnected
<1>2. phase' \in Phases /\ UNCHANGED <<cleanupPending, microphoneEnabled>> /\ Quietly
      /\ Room(MaxReconnectAttempts) /\ attempts[n].op = operation /\ operation # 0
  BY HeardIsCurrent DEF Disconnected, Patch, Phases
<1>3. CASE reconnectTimer = 0 /\ ~reconnecting
  <2>1. reconnectTimer' = operation
    BY <1>2, <1>3 DEF Disconnected
  <2>2. /\ attempts' \in Seq(Attempt) /\ Len(attempts') = Len(attempts)
    BY <1>1, EffectFields DEF Base
  <2>3. TypeOK'
    BY <1>2, <2>1, <2>2, Scalars DEF Base, TypeOK, Remembered, Quietly, recovery
  <2>4. Numbered'
    BY <1>1, <1>2, <2>1, NumberedKept, Scalars DEF Quietly, recovery, Base, Numbered
  <2>5. Reserved'
    <3>1. Len(attempts) + MaxReconnectAttempts <= MaxAttempts
      <4>1. Len(attempts) + TimerRoom + MaxReconnectAttempts <= MaxAttempts
        BY <1>2, <1>3, RoomFor, ControllerConstants, Scalars DEF TimerRoom
      <4> QED BY <1>3, <4>1, ControllerConstants, Scalars DEF TimerRoom
    <3>2. TimerRoom' = MaxReconnectAttempts /\ LoopRoom' = 0
      BY <1>2, <1>3, <2>1 DEF TimerRoom, LoopRoom, Base, Reserved, Quietly, recovery
    <3> QED BY <1>2, <1>3, <2>2, <3>1, <3>2, ControllerConstants, Scalars
            DEF Reserved, Base, Quietly, recovery
  <2>6. OneLoop'
    BY <1>1, <1>2, OneLoopKept, Scalars DEF Quietly, recovery
  <2> QED BY <2>3, <2>4, <2>5, <2>6 DEF Base
<1>4. CASE ~(reconnectTimer = 0 /\ ~reconnecting)
  <2>1. reconnectTimer' = reconnectTimer
    BY <1>4 DEF Disconnected
  <2> QED BY <1>1, <1>2, <2>1, EventKeepsBase, Scalars DEF Quietly
<1> QED BY <1>3, <1>4

\* failAndCleanup called by an event.
LEMMA EventFailureKeepsBase ==
  ASSUME Base, Remembered, NEW n \in DOMAIN attempts, Heard(n),
         NEW att, Effect(att, 0, "none", {}, SoundOpen), Fail(attempts[n].op, att, "fail")
  PROVE  Base'
<1>1. Fail(operation, att, "fail")
  BY HeardIsCurrent
<1>2. Effect(att, 0, IF 0 = 0 THEN "none" ELSE "over", {}, SoundOpen)
  OBVIOUS
<1> QED BY <1>1, <1>2, FailKeepsBase

LEMMA FailuresKeepBase ==
  ASSUME Base, Remembered, NEW n \in DOMAIN attempts, Failed(n) \/ ChannelError(n) \/ PeerTimesOut(n)
  PROVE  Base'
<1> DEFINE att == [attempts EXCEPT ![n].lost = FALSE]
<1>1. Effect(att, 0, "none", {}, SoundOpen)
  BY LostEffect DEF Base
<1>2. Effect(attempts, 0, "none", {}, SoundOpen)
  BY SameEffect DEF Base
<1>3. Heard(n)
  BY DEF Failed, ChannelError, PeerTimesOut
<1>4. CASE ChannelError(n)
  BY <1>2, <1>3, <1>4, EventFailureKeepsBase DEF ChannelError
<1>5. CASE PeerTimesOut(n)
  <2>1. Fail(attempts[n].op, att, "fail")
    BY <1>5 DEF PeerTimesOut
  <2> HIDE DEF att
  <2> QED BY <1>1, <1>3, <2>1, EventFailureKeepsBase
<1>6. CASE Failed(n)
  <2>1. Room(MaxReconnectAttempts)
    BY <1>6 DEF Failed
  <2>2. CASE Fail(attempts[n].op, att, "fail")
    <3> HIDE DEF att
    <3> QED BY <1>1, <1>3, <2>2, EventFailureKeepsBase
  <2>3. CASE reconnectTimer' = 0 /\ ~reconnecting /\ Reoffer(attempts[n].op, 0, att)
    <3>1. Reoffer(operation, 0, att) /\ operation # 0
      BY <1>3, <2>3, HeardIsCurrent
    <3> HIDE DEF att
    <3> QED BY <1>1, <2>1, <2>3, <3>1, ReconnectKeepsBase
  <2>4. CASE reconnectTimer' = 0 /\ attempts' = att /\ UNCHANGED state /\ Quietly
    <3>1. Effect(attempts', 0, "none", {}, SoundOpen)
      BY <1>1, <2>4
    <3> HIDE DEF att
    <3> QED BY <2>4, <3>1, EventKeepsBase, Scalars DEF Quietly, state
  <2> QED BY <1>6, <2>2, <2>3, <2>4 DEF Failed
<1> QED BY <1>4, <1>5, <1>6

LEMMA MicrophoneKeepsBase ==
  ASSUME Base, Remembered, NEW enabled \in BOOLEAN, SetMicrophoneEnabled(enabled)
  PROVE  Base'
<1>1. Effect(attempts', 0, "none", {}, SoundOpen)
  BY TrackEffect DEF SetMicrophoneEnabled, Base
<1> QED BY <1>1, EventKeepsBase, Scalars DEF SetMicrophoneEnabled, timers

-----------------------------------------------------------------------------
LEMMA InitBase == Init => Base
<1> SUFFICES ASSUME Init PROVE Base
  OBVIOUS
<1> USE DEF Init
<1>1. MaxReconnectAttempts \in Nat \ {0} /\ MaxAttempts \in Nat \ {0} /\ MaxOperations \in Nat \ {0}
  BY ControllerConstants
<1>2. NoLoop \in [op : Operations, attempt : 0 .. MaxReconnectAttempts - 1,
                  at : {"none", "delay", "establishing"}]
      /\ NoLoop.op = 0 /\ NoLoop.at = "none"
  BY <1>1 DEF NoLoop, Operations
<1>3. TypeOK
  <2>1. attempts \in Seq(Attempt) /\ Len(attempts) = 0
    OBVIOUS
  <2>2. 0 \in Operations /\ "idle" \in Phases
    BY <1>1 DEF Operations, Phases
  <2>3. calls \subseteq Ids /\ ending \subseteq Ending
    OBVIOUS
  <2>4. Len(attempts) <= MaxAttempts
    BY <1>1, <2>1
  <2> QED BY <1>2, <2>1, <2>2, <2>3, <2>4 DEF TypeOK
<1>4. Numbered
  BY <1>2 DEF Numbered
<1>5. Reserved
  BY <1>1, <1>2 DEF Reserved, LoopRoom, TimerRoom
<1>6. OneLoop
  BY DEF OneLoop
<1> QED BY <1>3, <1>4, <1>5, <1>6 DEF Base

\* start() and stop() number the operations.
LEMMA OperationSteps ==
  ASSUME Base, [Next]_vars
  PROVE  operation' \in {operation, operation + 1}
<1>1. ASSUME Start \/ Stop \/ ExpiryFires \/ LoopWakes \/ GraceFires
      PROVE  operation' \in {operation, operation + 1}
  BY <1>1 DEF Start, Stop, ExpiryFires, LoopWakes, GraceFires, Reconnect, Reoffer, Idle
<1>2. ASSUME NEW n \in DOMAIN attempts, Establish(n) PROVE operation' = operation
  BY <1>2 DEF Establish, PrepareResolves, StartResolves, ConnectResolves, EstablishThrows,
              StartThrows, ReofferThrows, Fail, Reoffer
<1>3. ASSUME NEW n \in DOMAIN attempts, TransportEvent(n) \/ PeerTimesOut(n)
      PROVE  operation' \in {operation, operation + 1}
  BY <1>1, <1>3 DEF TransportEvent, Activity, Connected, Disconnected, Failed, ChannelError,
                    PeerTimesOut, StopPhrase, Fail, Reoffer, Quietly
<1>4. ASSUME NEW e \in ending, Ended(e) PROVE operation' = operation
  BY <1>4 DEF Ended
<1>5. ASSUME NEW enabled \in BOOLEAN, SetMicrophoneEnabled(enabled) PROVE operation' = operation
  BY <1>5 DEF SetMicrophoneEnabled
<1>6. CASE UNCHANGED vars
  BY <1>6 DEF vars
<1> QED BY <1>1, <1>2, <1>3, <1>4, <1>5, <1>6 DEF Next

LEMMA HistoryKept ==
  ASSUME Base, [Next]_vars
  PROVE  Remembered /\ outlived \subseteq outlived'
<1>1. /\ outlived \subseteq 1 .. operation /\ outlived \subseteq Operations
      /\ refused \subseteq Ids /\ forgotten \subseteq Ids /\ callId \in Ids \cup {0}
      /\ swallowed \subseteq Operations
  BY DEF Base, TypeOK, Numbered
<1>2. operation \in Nat /\ operation \in Operations /\ operation + 1 \in Nat
  BY Scalars
<1>3. ASSUME UNCHANGED history, operation' \in {operation, operation + 1} PROVE Remembered
  BY <1>1, <1>2, <1>3 DEF Remembered, history
<1>4. ASSUME NEW att, NEW by, operation \in 1 .. operation, Fail(operation, att, by)
      PROVE  Remembered /\ outlived \subseteq outlived'
  <2>1. outlived' \in {outlived, outlived \cup {operation}} /\ UNCHANGED <<operation, refused, forgotten, swallowed>>
    BY <1>4 DEF Fail
  <2> QED BY <1>1, <1>2, <1>4, <2>1 DEF Remembered
<1>5. \A c : Loses(c) => forgotten' \subseteq Ids
  BY <1>1 DEF Loses
<1>6. \A n \in DOMAIN attempts : attempts[n].op = operation => operation \in 1 .. operation
  BY Scalars
<1>7. CASE Start \/ Stop \/ ExpiryFires \/ LoopWakes \/ GraceFires
  <2>1. UNCHANGED history /\ operation' \in {operation, operation + 1}
    BY <1>7 DEF Start, Stop, ExpiryFires, LoopWakes, GraceFires, Reconnect, Reoffer, Idle
  <2> QED BY <1>3, <2>1 DEF history
<1>8. ASSUME NEW n \in DOMAIN attempts, Establish(n)
      PROVE  Remembered /\ outlived \subseteq outlived'
  <2>1. CASE StartResolves(n)
    BY <1>1, <1>2, <1>5, <2>1 DEF StartResolves, Remembered
  <2>2. CASE PrepareResolves(n) \/ ConnectResolves(n)
    BY <1>3, <2>2 DEF PrepareResolves, ConnectResolves, history
  <2>3. CASE EstablishThrows(n)
    <3>1. \/ UNCHANGED history /\ operation' = operation
          \/ \E by : Fail(operation, Over(n), by) /\ attempts[n].op = operation
      BY <2>3 DEF EstablishThrows, StartThrows, ReofferThrows, Reoffer, IsCurrent
    <3> QED BY <1>3, <1>4, <1>6, <3>1 DEF history
  <2> QED BY <1>8, <2>1, <2>2, <2>3 DEF Establish
<1>9. ASSUME NEW n \in DOMAIN attempts, TransportEvent(n) \/ PeerTimesOut(n)
      PROVE  Remembered /\ outlived \subseteq outlived'
  <2>1. CASE Activity(n) \/ Connected(n) \/ Disconnected(n)
    BY <1>3, <2>1 DEF Activity, Connected, Disconnected, Quietly, history
  <2>2. CASE StopPhrase(n)
    BY <1>7, <2>2 DEF StopPhrase
  <2>3. CASE Failed(n) \/ ChannelError(n) \/ PeerTimesOut(n)
    <3>1. attempts[n].op = operation
      BY <2>3 DEF Failed, ChannelError, PeerTimesOut, Heard, IsCurrent
    <3>2. \/ UNCHANGED history /\ operation' = operation
          \/ \E att : Fail(operation, att, "fail")
          \/ Quietly /\ swallowed' \subseteq swallowed \cup {operation}
      BY <2>3, <3>1 DEF Failed, ChannelError, PeerTimesOut, Reoffer
    <3>3. CASE Quietly /\ swallowed' \subseteq swallowed \cup {operation}
      BY <1>1, <1>2, <3>3 DEF Quietly, Remembered
    <3> QED BY <1>3, <1>4, <1>6, <3>1, <3>2, <3>3 DEF history
  <2> QED BY <1>9, <2>1, <2>2, <2>3 DEF TransportEvent
<1>10. ASSUME NEW e \in ending, Ended(e)
       PROVE  Remembered /\ outlived \subseteq outlived'
  <2>1. UNCHANGED <<operation, outlived, swallowed>> /\ e.call \in Ids
    BY <1>10, Scalars DEF Ended, Ending
  <2>2. refused' \in {refused, refused \cup {e.call}}
    BY <1>10 DEF Ended
  <2>3. Loses(e.call) \/ forgotten' = forgotten \cup {e.call} \/ forgotten' = forgotten
    BY <1>10 DEF Ended
  <2> QED BY <1>1, <1>5, <2>1, <2>2, <2>3 DEF Remembered
<1>11. ASSUME NEW enabled \in BOOLEAN, SetMicrophoneEnabled(enabled)
       PROVE  Remembered /\ outlived \subseteq outlived'
  BY <1>3, <1>11 DEF SetMicrophoneEnabled, history
<1>12. CASE UNCHANGED vars
  BY <1>3, <1>12 DEF vars, history
<1> QED BY <1>7, <1>8, <1>9, <1>10, <1>11, <1>12 DEF Next

LEMMA NextKeepsBase == Base /\ [Next]_vars => Base'
<1> SUFFICES ASSUME Base, [Next]_vars PROVE Base'
  OBVIOUS
<1>0. Remembered
  BY HistoryKept
<1>1. CASE Start
  BY <1>0, <1>1, StartKeepsBase
<1>2. CASE Stop \/ ExpiryFires
  BY <1>0, <1>2, StopKeepsBase DEF ExpiryFires
<1>3. ASSUME NEW n \in DOMAIN attempts, Establish(n) PROVE Base'
  BY <1>0, <1>3, EstablishKeepsBase
<1>4. ASSUME NEW n \in DOMAIN attempts, TransportEvent(n) \/ PeerTimesOut(n) PROVE Base'
  <2>1. CASE StopPhrase(n)
    BY <1>0, <2>1, StopKeepsBase DEF StopPhrase
  <2> QED BY <1>0, <1>4, <2>1, ShownKeepsBase, DisconnectedKeepsBase, FailuresKeepBase DEF TransportEvent
<1>5. ASSUME NEW e \in ending, Ended(e) PROVE Base'
  BY <1>0, <1>5, EndedKeepsBase
<1>6. CASE LoopWakes
  BY <1>0, <1>6, LoopWakesKeepsBase
<1>7. CASE GraceFires
  BY <1>0, <1>7, GraceKeepsBase
<1>8. ASSUME NEW enabled \in BOOLEAN, SetMicrophoneEnabled(enabled) PROVE Base'
  BY <1>0, <1>8, MicrophoneKeepsBase
<1>9. CASE UNCHANGED vars
  BY <1>9 DEF vars, history, state, timers, recovery, Base, TypeOK, Numbered, Reserved, OneLoop, LoopRoom,
              TimerRoom, OfLoop, Pending, Current
<1> QED BY <1>1, <1>2, <1>3, <1>4, <1>5, <1>6, <1>7, <1>8, <1>9 DEF Next

\* Every variable of the controller has its type, and the attempts it makes stay
\* within what Room() reserved for the loop and the grace timer: for any
\* behaviour of the transport, the backend and the user.
THEOREM TypeCorrect == Spec => []TypeOK
<1>1. Spec => []Base
  BY InitBase, NextKeepsBase, PTL DEF Spec
<1>2. Base => TypeOK
  BY DEF Base
<1> QED BY <1>1, <1>2, PTL

-----------------------------------------------------------------------------
(* Who owns the microphone *)

LEMMA EffectMedia ==
  ASSUME TypeOK, UNCHANGED outlived, NEW n, NEW next, NEW ab, NEW open, Effect(attempts', n, next, ab, open)
  PROVE  /\ SoundOpen' = open \cap DOMAIN attempts
         /\ DOMAIN attempts' = DOMAIN attempts
         /\ \A m \in DOMAIN attempts :
              /\ attempts'[m].op = attempts[m].op /\ attempts'[m].via = attempts[m].via
              /\ attempts'[m].at = IF m = n THEN next ELSE attempts[m].at
              /\ attempts'[m].aborted <=> (attempts[m].aborted \/ m \in ab)
<1>1. DOMAIN attempts' = DOMAIN attempts
  BY EffectFields
<1>2. \A m \in DOMAIN attempts : attempts'[m].open /\ Sound(m) <=> m \in open
  BY DEF Effect
<1>3. \A m \in DOMAIN attempts : Sound(m)' <=> Sound(m)
  BY DEF Effect, Sound
<1>4. SoundOpen' = open \cap DOMAIN attempts
  BY <1>1, <1>2, <1>3 DEF SoundOpen
<1> QED BY <1>1, <1>4 DEF Effect

\* A step that opens, closes and aborts nothing.
LEMMA MediaKept ==
  ASSUME Sane, UNCHANGED outlived, NEW n, NEW next, Effect(attempts', n, next, {}, SoundOpen),
         n \in DOMAIN attempts =>
           /\ Pending(n)
           /\ \/ next = "over"
              \/ ~Current(n)
              \/ At(n, "starting") /\ next = "connecting",
         UNCHANGED <<operation, abortController, transportSession>>,
         reconnectTimer' \in {reconnectTimer, 0}, Silent => expiryTimer' = 0,
         \/ UNCHANGED loop /\ (n \in DOMAIN attempts /\ next = "over" => ~OfLoop(n))
         \/ loop' = NoLoop,
         \A e \in ending' : e \in ending \/ e.by = "finish",
         phase' = "error" => Dead, phase' \in {"idle", "stopping"} => Silent
  PROVE  Media'
<1>1. /\ SoundOpen' = SoundOpen
      /\ DOMAIN attempts' = DOMAIN attempts
      /\ \A m \in DOMAIN attempts :
           /\ attempts'[m].op = attempts[m].op /\ attempts'[m].via = attempts[m].via
           /\ attempts'[m].at = IF m = n THEN next ELSE attempts[m].at
           /\ attempts'[m].aborted <=> attempts[m].aborted
  BY EffectMedia DEF Sane, Base, SoundOpen
<1>2. Owned'
  BY <1>1 DEF Sane, Media, Owned
<1>3. CurrentAttempts'
  <2>1. abortController # 0 => abortController \in DOMAIN attempts
    BY Scalars DEF Sane, Base, Numbered
  <2>2. Armed' => Armed
    BY DEF Armed
  <2>3. SoundOpen \subseteq DOMAIN attempts
    BY DEF SoundOpen
  <2>4. \A m \in DOMAIN attempts :
          /\ Current(m)' <=> Current(m)
          /\ OfLoop(m)' <=> OfLoop(m)
    BY <1>1 DEF Current, OfLoop
  <2>5. \A m \in DOMAIN attempts : Current(m) =>
          \/ attempts'[m].at \in {attempts[m].at, "over"}
          \/ At(m, "starting") /\ attempts'[m].at = "connecting"
    BY <1>1 DEF Current, At
  <2>6. \A m \in DOMAIN attempts : Current(m) =>
          /\ ~At(m, "finishing") => ~At(m, "finishing")'
          /\ At(m, "preparing")' => At(m, "preparing")
          /\ At(m, "starting")' => At(m, "starting")
          /\ Pending(m)' => Pending(m)
          /\ At(m, "connecting")' => At(m, "connecting") \/ At(m, "starting")
    BY <2>5 DEF At, Pending
  <2> QED BY <1>1, <2>1, <2>2, <2>3, <2>4, <2>6 DEF Sane, Media, CurrentAttempts
<1>4. \A m \in DOMAIN attempts : Current(m) /\ Spent(m) => Spent(m)'
  BY <1>1 DEF Spent, Pending, At, Current
<1>5. NoLoop.at = "none"
  BY DEF NoLoop
<1>6. LoopAlone'
  <2>1. abortController # 0 => abortController \in DOMAIN attempts
    BY Scalars DEF Sane, Base, Numbered
  <2>2. CASE loop' = NoLoop
    BY <1>5, <2>2 DEF LoopAlone
  <2>3. CASE UNCHANGED loop /\ (n \in DOMAIN attempts /\ next = "over" => ~OfLoop(n))
    <3>1. CASE loop.op = operation /\ loop.at = "delay"
      BY <1>1, <1>4, <2>1, <2>3, <3>1 DEF Sane, Media, LoopAlone, Current
    <3>2. CASE loop.op = operation /\ loop.at = "establishing"
      BY <1>1, <2>3, <3>2 DEF Sane, Media, LoopAlone, Current, Pending, OfLoop, SoundOpen
    <3> QED BY <2>3, <3>1, <3>2 DEF LoopAlone
  <2> QED BY <2>2, <2>3
<1>7. Dead => Dead'
  BY <1>1, <1>4, <1>5 DEF Dead, Armed, Current
<1>8. Silent => Silent'
  BY <1>1, <1>5, <1>7 DEF Silent, Pending, Current
<1>9. FailedIsDead'
  BY <1>7 DEF Sane, Media, FailedIsDead
<1>10. StoppedIsSilent'
  BY <1>8 DEF Sane, Media, StoppedIsSilent
<1> QED BY <1>2, <1>3, <1>6, <1>9, <1>10 DEF Media

\* What the state says of the phases the lemma above asks about.
LEMMA PhaseFacts ==
  ASSUME Sane
  PROVE  /\ Silent => Dead /\ expiryTimer = 0
         /\ phase = "error" => Dead
         /\ phase \in {"idle", "stopping"} => Silent
BY DEF Sane, Media, FailedIsDead, StoppedIsSilent, Silent

\* A session that is heard is the only one, and no other attempt of its operation
\* can still open one.
LEMMA HeardFacts ==
  ASSUME Sane, NEW n \in DOMAIN attempts, Heard(n)
  PROVE  /\ n \in SoundOpen /\ Current(n) /\ ~Dead /\ ~Silent
         /\ abortController # 0 /\ ~attempts[abortController].aborted
         /\ \A m \in DOMAIN attempts : Current(m) => ~At(m, "preparing") /\ ~At(m, "starting")
         /\ loop.op = operation => loop.at # "delay"
<1>1. n \in SoundOpen /\ Current(n) /\ ~At(n, "starting")
  BY DEF Heard, IsCurrent, SoundOpen, Sound, Current, At, Sane
<1>2. ~Dead /\ ~Silent
  BY <1>1 DEF Dead, Silent
<1>3. \A m \in DOMAIN attempts : Current(m) => ~At(m, "preparing") /\ ~At(m, "starting")
  BY <1>1 DEF Sane, Media, CurrentAttempts
<1>4. loop.op = operation => loop.at # "delay"
  BY <1>1 DEF Sane, Media, LoopAlone
<1> QED BY <1>1, <1>2, <1>3, <1>4 DEF Sane, Media, CurrentAttempts

\* A session opens only for the attempt that holds the newest signal, when no
\* other is open.
LEMMA PrepareKeepsMedia ==
  ASSUME Sane, UNCHANGED outlived, NEW n \in DOMAIN attempts, PrepareResolves(n)
  PROVE  Media'
<1>1. Pending(n) /\ UNCHANGED <<operation, abortController, callId, failingOperation, timers, ending, calls>>
      /\ At(n, "preparing")
  BY DEF PrepareResolves, Pending, At
<1>2. CASE IsCurrent(attempts[n].op)
  <2>1. /\ UNCHANGED recovery /\ phase' = "connecting" /\ transportSession' = n
    BY <1>2 DEF PrepareResolves, Patch
  <2>2. /\ Current(n) /\ abortController = n /\ ~attempts[n].aborted
        /\ SoundOpen = {} /\ ~Armed
    BY <1>1, <1>2 DEF Sane, Media, CurrentAttempts, IsCurrent, Current
  <2>3. ~Dead /\ ~Silent /\ n # 0
    BY <1>1, <2>2, Scalars DEF Dead, Silent, Spent, At, Sane
  <2>4. /\ SoundOpen' = {n}
        /\ DOMAIN attempts' = DOMAIN attempts
        /\ \A m \in DOMAIN attempts :
             /\ attempts'[m].op = attempts[m].op /\ attempts'[m].via = attempts[m].via
             /\ attempts'[m].at = IF m = n THEN "starting" ELSE attempts[m].at
             /\ attempts'[m].aborted <=> attempts[m].aborted
    <3>1. Effect(attempts', n, "starting", {}, {m \in SoundOpen \cup {n} : Sound(m)})
      BY <1>2, PrepareEffect DEF Sane, Base
    <3>2. {m \in SoundOpen \cup {n} : Sound(m)} = {n}
      BY <2>2 DEF Sane, Sound, Current
    <3> QED BY <3>1, <3>2, EffectMedia DEF Sane, Base
  <2>5. Owned'
    BY <2>1, <2>3, <2>4 DEF Owned
  <2>6. CurrentAttempts'
    BY <1>1, <2>2, <2>3, <2>4 DEF Sane, Media, CurrentAttempts, Current, At, OfLoop, Pending, Armed, timers
  <2>7. LoopAlone'
    <3>1. loop.op = operation => loop.at # "delay"
      BY <1>1, <2>2 DEF Sane, Media, LoopAlone, Spent, At
    <3> QED BY <1>1, <2>1, <2>2, <2>4, <3>1
            DEF Sane, Media, LoopAlone, Current, OfLoop, Pending, recovery, At
  <2>8. FailedIsDead' /\ StoppedIsSilent'
    BY <1>1, <2>1, <2>3 DEF Sane, Media, FailedIsDead, StoppedIsSilent
  <2> QED BY <2>5, <2>6, <2>7, <2>8 DEF Media
<1>3. CASE ~IsCurrent(attempts[n].op)
  <2>1. Effect(attempts', n, "over", {}, SoundOpen)
    BY <1>3, PrepareEffect DEF Sane, Base
  <2>2. Returned(n) /\ UNCHANGED <<state, transportSession>>
    BY <1>3 DEF PrepareResolves
  <2>3. (UNCHANGED loop /\ ~OfLoop(n)) \/ loop' = NoLoop
    BY <1>1, <2>2, ReturnedLoop DEF recovery, LeaveLoop, Sane
  <2> QED BY <1>1, <2>1, <2>2, <2>3, MediaKept, PhaseFacts DEF state, timers
<1> QED BY <1>2, <1>3

LEMMA StartResolvesKeepsMedia ==
  ASSUME Sane, UNCHANGED outlived, NEW n \in DOMAIN attempts, StartResolves(n)
  PROVE  Media'
<1>1. /\ Pending(n) /\ At(n, "starting")
      /\ UNCHANGED <<state, operation, abortController, failingOperation, transportSession,
                 reconnectTimer, recovery>>
  BY DEF StartResolves, Pending, At
<1>2. CASE Current(n)
  <2>1. IsCurrent(attempts[n].op)
    BY <1>1, <1>2 DEF Sane, Media, CurrentAttempts, IsCurrent, Current
  <2>2. Effect(attempts', n, "connecting", {}, SoundOpen)
    BY <2>1, StartEffect DEF Sane, Base
  <2>3. ~Silent /\ UNCHANGED ending
    BY <1>1, <1>2, <2>1 DEF Silent, StartResolves
  <2> QED BY <1>1, <2>2, <2>3, MediaKept, PhaseFacts DEF state, recovery
<1>3. CASE ~Current(n)
  <2>1. ~IsCurrent(attempts[n].op)
    BY <1>3 DEF IsCurrent, Current
  <2>2. Effect(attempts', n, "finishing", {}, SoundOpen)
    BY <2>1, StartEffect DEF Sane, Base
  <2>3. UNCHANGED expiryTimer /\ \A e \in ending' : e \in ending \/ e.by = "finish"
    BY <2>1 DEF StartResolves
  <2> QED BY <1>1, <1>3, <2>2, <2>3, MediaKept, PhaseFacts DEF state, recovery
<1> QED BY <1>2, <1>3

LEMMA ConnectKeepsMedia ==
  ASSUME Sane, UNCHANGED outlived, NEW n \in DOMAIN attempts, ConnectResolves(n)
  PROVE  Media'
<1>1. /\ Pending(n) /\ Returned(n)
      /\ UNCHANGED <<operation, abortController, callId, failingOperation, transportSession,
                 timers, ending, calls>>
  BY DEF ConnectResolves, Pending, At
<1>2. Effect(attempts', n, "over", {}, SoundOpen)
  BY OverEffect DEF ConnectResolves, Sane, Base
<1>3. (UNCHANGED loop /\ ~OfLoop(n)) \/ loop' = NoLoop
  BY <1>1, ReturnedLoop DEF recovery, LeaveLoop, Sane
<1>4. phase' = phase \/ phase' = "listening"
  BY DEF ConnectResolves, Patch, state
<1> QED BY <1>1, <1>2, <1>3, <1>4, MediaKept, PhaseFacts DEF timers

\* After a failure of the latest operation nothing of it can open a session.
LEMMA FailKeepsMedia ==
  ASSUME Sane, UNCHANGED outlived, NEW n, NEW att, Effect(att, n, IF n = 0 THEN "none" ELSE "over", {}, SoundOpen),
         n # 0 => n \in DOMAIN attempts /\ Pending(n),
         NEW by \in {"fail", "failLoop"}, (by = "failLoop") <=> (n # 0 /\ OfLoop(n)),
         \A m \in DOMAIN attempts : Current(m) =>
            m = n \/ ~Pending(m) \/ (~OfLoop(m) /\ At(m, "connecting")),
         loop.op = operation => loop.at # "delay",
         ~Silent, Fail(operation, att, by)
  PROVE  Media'
<1> DEFINE next == IF n = 0 THEN "none" ELSE "over"
           e0 == [by |-> by, call |-> callId, op |-> operation]
<1>1. Effect(att, n, next, {}, SoundOpen) /\ (n # 0 => next = "over")
      /\ e0.by = by /\ e0.op = operation
  OBVIOUS
<1> HIDE DEF next, e0
<1>2. UNCHANGED <<operation, callId, calls>>
  BY DEF Fail
<1>3. 0 \notin DOMAIN attempts
  BY Scalars DEF Sane
<1>4. CASE failingOperation = operation
  <2>1. /\ attempts' = att
        /\ IF by = "failLoop" THEN LeaveLoop ELSE UNCHANGED recovery
        /\ UNCHANGED <<state, abortController, transportSession, timers, failingOperation, ending>>
    BY <1>4 DEF Fail
  <2>2. (UNCHANGED loop /\ (n \in DOMAIN attempts => ~OfLoop(n))) \/ loop' = NoLoop
    BY <1>3, <2>1 DEF LeaveLoop, recovery
  <2>3. Effect(attempts', n, next, {}, SoundOpen)
    BY <1>1, <2>1
  <2> QED BY <1>1, <1>2, <1>3, <2>1, <2>2, <2>3, MediaKept, PhaseFacts DEF state, timers
<1>5. CASE failingOperation # operation
  <2>1. /\ attempts' = Shut(att)
        /\ abortController' = 0 /\ transportSession' = 0
        /\ expiryTimer' = 0 /\ reconnectTimer' = 0
    BY <1>5 DEF Fail
  <2>2. phase' = phase \/ phase' = "error"
    BY <1>5 DEF Fail, Reset, state
  <2>3. ending' = ending \/ ending' = ending \cup {e0}
    BY <1>5 DEF Fail, e0
  <2>4. loop' = loop \/ loop' = NoLoop
    BY <1>5 DEF Fail, LeaveLoop, recovery
  <2>5. Effect(attempts', n, next, {abortController}, SoundOpen \ {transportSession})
    BY <1>1, <2>1, ShutEffect DEF Sane, Base
  <2>6. /\ SoundOpen' = {}
        /\ DOMAIN attempts' = DOMAIN attempts
        /\ \A m \in DOMAIN attempts :
             /\ attempts'[m].op = attempts[m].op /\ attempts'[m].via = attempts[m].via
             /\ attempts'[m].at = IF m = n THEN next ELSE attempts[m].at
             /\ attempts'[m].aborted <=> (attempts[m].aborted \/ m = abortController)
    <3>1. SoundOpen \ {transportSession} = {}
      BY DEF Sane, Media, Owned
    <3> QED BY <2>5, <3>1, EffectMedia DEF Sane, Base
  <2>7. \A m \in DOMAIN attempts' : Current(m)' => Spent(m)'
    <3> SUFFICES ASSUME NEW m \in DOMAIN attempts, Current(m) PROVE Spent(m)'
      BY <1>2, <2>6 DEF Current
    <3>1. CASE m = n
      BY <1>1, <1>3, <2>6, <3>1 DEF Spent
    <3>2. CASE m # n /\ ~Pending(m)
      BY <2>6, <3>2 DEF Spent, Pending
    <3>3. CASE m # n /\ ~OfLoop(m) /\ At(m, "connecting")
      <4>1. attempts[m].via = "start"
        BY <3>3, AttemptFields DEF OfLoop, Attempt, Sane, Base
      <4>2. attempts[m].aborted \/ m = abortController
        BY <3>3 DEF Sane, Media, CurrentAttempts
      <4> QED BY <2>6, <3>3, <4>1, <4>2 DEF Spent, At
    <3> QED BY <3>1, <3>2, <3>3
  <2>8. NoLoop.at = "none"
    BY DEF NoLoop
  <2>9. Dead'
    BY <1>2, <2>1, <2>4, <2>6, <2>7, <2>8 DEF Dead, Armed
  <2>10. Owned'
    BY <2>6 DEF Owned
  <2>11. CurrentAttempts'
    <3>1. \A m \in DOMAIN attempts' : Current(m)' =>
             At(m, "over")' \/ (~OfLoop(m)' /\ At(m, "connecting")' /\ attempts'[m].aborted)
      BY <2>7 DEF Spent, At, OfLoop
    <3>2. \A k, m \in DOMAIN attempts' :
             Current(k)' /\ Current(m)' /\ ~OfLoop(k)' /\ ~OfLoop(m)' => k = m
      BY <1>2, <2>6 DEF Sane, Media, CurrentAttempts, Current, OfLoop
    <3> QED BY <2>1, <2>6, <3>1, <3>2 DEF CurrentAttempts, At, OfLoop, Pending, Armed
  <2>12. LoopAlone'
    <3>1. CASE loop' = loop /\ loop.op = operation /\ loop.at = "establishing"
      <4>1. \A m \in DOMAIN attempts : Current(m) => ~Pending(m) \/ OfLoop(m)
        BY <3>1 DEF Sane, Media, LoopAlone
      <4>2. \A m \in DOMAIN attempts' : Current(m)' => ~Pending(m)' \/ OfLoop(m)'
        BY <1>1, <1>2, <1>3, <2>6, <4>1 DEF Current, Pending, OfLoop
      <4> QED BY <2>6, <3>1, <4>2 DEF LoopAlone
    <3> QED BY <1>2, <2>4, <2>8, <3>1 DEF LoopAlone
  <2>13. FailedIsDead'
    BY <2>9 DEF FailedIsDead
  <2>14. StoppedIsSilent'
    <3>1. phase \notin {"idle", "stopping"} /\ \A e \in ending : ~(e.by = "stop" /\ e.op = operation)
      BY DEF Sane, Media, StoppedIsSilent
    <3> QED BY <1>1, <1>2, <2>2, <2>3, <3>1 DEF StoppedIsSilent
  <2> QED BY <2>10, <2>11, <2>12, <2>13, <2>14 DEF Media
<1> QED BY <1>4, <1>5

\* The loop starts, or goes round, with every session closed and every attempt
\* before it ended or aborted.
LEMMA ReofferKeepsMedia ==
  ASSUME Sane, UNCHANGED outlived, NEW n, NEW att, Effect(att, n, IF n = 0 THEN "none" ELSE "over", {}, SoundOpen),
         n # 0 => n \in DOMAIN attempts /\ Pending(n),
         \A m \in DOMAIN attempts : Current(m) =>
            m = n \/ ~Pending(m) \/ (~OfLoop(m) /\ At(m, "connecting")),
         abortController # 0, ~Dead,
         NEW k, Reoffer(operation, k, att), reconnectTimer' = 0
  PROVE  Media'
<1> DEFINE next == IF n = 0 THEN "none" ELSE "over"
<1>1. Effect(att, n, next, {}, SoundOpen) /\ (n # 0 => next = "over")
  OBVIOUS
<1> HIDE DEF next
<1>2. /\ attempts' = Shut(att) /\ phase' = "reconnecting" /\ transportSession' = 0
      /\ loop'.op = operation /\ loop'.at = "delay"
      /\ UNCHANGED <<operation, abortController>>
  BY DEF Reoffer, Patch
<1>3. \A e \in ending' : e \in ending \/ e.by = "finish"
  BY DEF Reoffer
<1>4. 0 \notin DOMAIN attempts /\ abortController \in DOMAIN attempts
  BY Scalars DEF Sane, Base, Numbered
<1>5. Effect(attempts', n, next, {abortController}, SoundOpen \ {transportSession})
  BY <1>1, <1>2, ShutEffect DEF Sane, Base
<1>6. /\ SoundOpen' = {}
      /\ DOMAIN attempts' = DOMAIN attempts
      /\ \A m \in DOMAIN attempts :
           /\ attempts'[m].op = attempts[m].op /\ attempts'[m].via = attempts[m].via
           /\ attempts'[m].at = IF m = n THEN next ELSE attempts[m].at
           /\ attempts'[m].aborted <=> (attempts[m].aborted \/ m = abortController)
  <2>1. SoundOpen \ {transportSession} = {}
    BY DEF Sane, Media, Owned
  <2> QED BY <1>5, <2>1, EffectMedia DEF Sane, Base
<1>7. \A m \in DOMAIN attempts' : Current(m)' => Spent(m)'
  <2> SUFFICES ASSUME NEW m \in DOMAIN attempts, Current(m) PROVE Spent(m)'
    BY <1>2, <1>6 DEF Current
  <2>1. CASE m = n
    BY <1>1, <1>4, <1>6, <2>1 DEF Spent
  <2>2. CASE m # n /\ ~Pending(m)
    BY <1>6, <2>2 DEF Spent, Pending
  <2>3. CASE m # n /\ ~OfLoop(m) /\ At(m, "connecting")
    <3>1. attempts[m].via = "start"
      BY <2>3, AttemptFields DEF OfLoop, Attempt, Sane, Base
    <3>2. attempts[m].aborted \/ m = abortController
      BY <2>3 DEF Sane, Media, CurrentAttempts
    <3> QED BY <1>6, <2>3, <3>1, <3>2 DEF Spent, At
  <2> QED BY <2>1, <2>2, <2>3
<1>8. Owned'
  BY <1>6 DEF Owned
<1>9. CurrentAttempts'
  <2>1. \A m \in DOMAIN attempts' : Current(m)' =>
           At(m, "over")' \/ (~OfLoop(m)' /\ At(m, "connecting")' /\ attempts'[m].aborted)
    BY <1>7 DEF Spent, At, OfLoop
  <2>2. \A i, m \in DOMAIN attempts' :
           Current(i)' /\ Current(m)' /\ ~OfLoop(i)' /\ ~OfLoop(m)' => i = m
    BY <1>2, <1>6 DEF Sane, Media, CurrentAttempts, Current, OfLoop
  <2> QED BY <1>6, <2>1, <2>2 DEF CurrentAttempts, At, OfLoop, Pending, Armed
<1>10. LoopAlone'
  BY <1>2, <1>4, <1>6, <1>7 DEF LoopAlone
<1>11. FailedIsDead' /\ StoppedIsSilent'
  <2>1. ~Silent
    BY DEF Silent
  <2> QED BY <1>2, <1>3, <2>1 DEF Sane, Media, FailedIsDead, StoppedIsSilent
<1> QED BY <1>8, <1>9, <1>10, <1>11 DEF Media

LEMMA QuietEndKeepsMedia ==
  ASSUME Sane, UNCHANGED outlived, NEW n \in DOMAIN attempts, Pending(n), attempts' = Over(n),
         loop' = NoLoop \/ (UNCHANGED loop /\ ~OfLoop(n)),
         UNCHANGED <<state, operation, abortController, transportSession, timers, ending>>
  PROVE  Media'
<1>1. Effect(attempts', n, "over", {}, SoundOpen)
  BY OverEffect DEF Sane, Base
<1> QED BY <1>1, MediaKept, PhaseFacts DEF state, timers

LEMMA StartThrowsKeepsMedia ==
  ASSUME Sane, UNCHANGED outlived, NEW n \in DOMAIN attempts, Pending(n), StartThrows(n, attempts[n].op)
  PROVE  Media'
<1>1. ~OfLoop(n)
  BY DEF StartThrows, OfLoop
<1>2. CASE IsCurrent(attempts[n].op)
  <2>1. Fail(operation, Over(n), "fail") /\ Current(n)
    BY <1>2 DEF StartThrows, IsCurrent, Current
  <2>2. Effect(Over(n), n, IF n = 0 THEN "none" ELSE "over", {}, SoundOpen)
    BY OverEffect, Scalars DEF Sane, Base
  <2>3. ~Silent
    BY <2>1 DEF Silent
  <2>4. loop.op = operation => loop.at # "delay"
    <3>1. abortController \in DOMAIN attempts => ~attempts[abortController].aborted
      BY <1>2 DEF IsCurrent
    <3>2. abortController # 0 => abortController \in DOMAIN attempts
      BY Scalars DEF Sane, Base, Numbered
    <3> QED BY <3>1, <3>2 DEF Sane, Media, LoopAlone
  <2>5. \A m \in DOMAIN attempts : Current(m) => m = n \/ ~Pending(m)
    <3> SUFFICES ASSUME NEW m \in DOMAIN attempts, Current(m), Pending(m) PROVE m = n
      OBVIOUS
    <3>1. ~OfLoop(m)
      <4> SUFFICES ASSUME OfLoop(m) PROVE FALSE
        OBVIOUS
      <4>1. loop.at = "establishing" /\ loop.op = operation
        BY DEF Sane, Base, OneLoop, Current
      <4> QED BY <1>1, <2>1, <4>1 DEF Sane, Media, LoopAlone
    <3> QED BY <1>1, <2>1, <3>1 DEF Sane, Media, CurrentAttempts
  <2> QED BY <1>1, <2>1, <2>2, <2>3, <2>4, <2>5, FailKeepsMedia
<1>3. CASE ~IsCurrent(attempts[n].op)
  BY <1>1, <1>3, QuietEndKeepsMedia DEF StartThrows, recovery
<1> QED BY <1>2, <1>3

LEMMA ReofferThrowsKeepsMedia ==
  ASSUME Sane, UNCHANGED outlived, NEW n \in DOMAIN attempts, Pending(n), ReofferThrows(n, attempts[n].op)
  PROVE  Media'
<1>1. OfLoop(n) /\ n # 0
  BY Scalars DEF ReofferThrows, OfLoop, Sane
<1>2. /\ loop.at = "establishing" /\ loop.op = attempts[n].op
      /\ \A m \in DOMAIN attempts : OfLoop(m) /\ Pending(m) => m = n
      /\ reconnectTimer = 0
  BY <1>1 DEF Sane, Base, OneLoop, Reserved
<1>3. Effect(Over(n), n, IF n = 0 THEN "none" ELSE "over", {}, SoundOpen)
  BY <1>1, OverEffect DEF Sane, Base
<1>4. ASSUME Current(n)
      PROVE  /\ abortController # 0 /\ ~Dead /\ ~Silent
             /\ \A m \in DOMAIN attempts : Current(m) => m = n \/ ~Pending(m)
  <2>1. abortController = n
    BY <1>1, <1>4 DEF Sane, Media, CurrentAttempts
  <2>2. ~Dead
    BY <1>1, <1>4 DEF Dead, Spent, Pending, OfLoop
  <2>3. \A m \in DOMAIN attempts : Current(m) => ~Pending(m) \/ OfLoop(m)
    BY <1>2, <1>4 DEF Sane, Media, LoopAlone, Current
  <2> QED BY <1>1, <1>2, <2>1, <2>2, <2>3 DEF Silent
<1>5. CASE attempts[n].op = operation /\ UNCHANGED reconnectTimer
             /\ Reoffer(operation, loop.attempt + 1, Over(n))
  <2>1. Current(n) /\ reconnectTimer' = 0
    BY <1>2, <1>5 DEF Current
  <2> QED BY <1>1, <1>3, <1>4, <1>5, <2>1, ReofferKeepsMedia
<1>6. CASE attempts[n].op = operation /\ Fail(operation, Over(n), "failLoop")
  <2>1. Current(n)
    BY <1>6 DEF Current
  <2>2. loop.op = operation => loop.at # "delay"
    BY <1>2
  <2> QED BY <1>1, <1>3, <1>4, <1>6, <2>1, <2>2, FailKeepsMedia
<1>7. CASE attempts' = Over(n) /\ LeaveLoop
           /\ UNCHANGED <<state, operation, abortController, callId, failingOperation,
                          transportSession, timers, ending, calls>>
  BY <1>7, QuietEndKeepsMedia DEF LeaveLoop
<1> QED BY <1>5, <1>6, <1>7 DEF ReofferThrows

LEMMA EstablishKeepsMedia ==
  ASSUME Sane, UNCHANGED outlived, NEW n \in DOMAIN attempts, Establish(n)
  PROVE  Media'
<1>1. CASE EstablishThrows(n)
  <2>1. Pending(n)
    BY <1>1 DEF EstablishThrows, At, Pending
  <2> QED BY <1>1, <2>1, StartThrowsKeepsMedia, ReofferThrowsKeepsMedia DEF EstablishThrows
<1> QED BY <1>1, PrepareKeepsMedia, StartResolvesKeepsMedia, ConnectKeepsMedia DEF Establish

\* A step that only shows something, drops the grace timer, or marks a session.
LEMMA EventKeepsMedia ==
  ASSUME Sane, UNCHANGED outlived, Effect(attempts', 0, "none", {}, SoundOpen),
         UNCHANGED <<operation, abortController, transportSession, expiryTimer, recovery, ending>>,
         reconnectTimer' \in {reconnectTimer, 0},
         phase' = "error" => Dead, phase' \in {"idle", "stopping"} => Silent
  PROVE  Media'
<1>1. 0 \notin DOMAIN attempts
  BY Scalars DEF Sane
<1> QED BY <1>1, MediaKept, PhaseFacts DEF recovery

\* start() begins an operation of which nothing runs yet.
LEMMA StartBegins ==
  ASSUME Base, SoundOpen = {}, UNCHANGED outlived, Start, callId = 0
  PROVE  Media'
<1>1. /\ operation' = operation + 1 /\ NewAttempt(operation + 1, "start")
      /\ operation + 1 \in Operations
      /\ UNCHANGED <<transportSession, timers, recovery, ending>>
      /\ phase' = "requesting_permission"
  BY ControllerConstants, Scalars DEF Start, Reset, Operations
<1>2. /\ attempts' \in Seq(Attempt) /\ Len(attempts') = Len(attempts) + 1
      /\ abortController' = Len(attempts) + 1
      /\ \A m \in DOMAIN attempts : attempts'[m] = attempts[m]
      /\ attempts'[Len(attempts) + 1].op = operation'
      /\ attempts'[Len(attempts) + 1].at = "preparing"
      /\ ~attempts'[Len(attempts) + 1].aborted /\ ~attempts'[Len(attempts) + 1].open
      /\ attempts'[Len(attempts) + 1].via = "start"
  BY <1>1, NewAttemptEffect DEF Base
<1>3. /\ DOMAIN attempts' = DOMAIN attempts \cup {Len(attempts) + 1}
      /\ Len(attempts) + 1 \notin DOMAIN attempts /\ Len(attempts) + 1 # 0
      /\ Len(attempts) + 1 \in DOMAIN attempts'
  BY <1>2, LenProperties, Scalars
<1>4. \A m \in DOMAIN attempts' : Current(m)' => m = Len(attempts) + 1
  BY <1>1, <1>2, <1>3, Scalars DEF Current
<1>5. SoundOpen' = {} /\ ~Armed'
  <2>1. SoundOpen' = {}
    BY <1>2, <1>3 DEF SoundOpen, Sound
  <2>2. ~Armed'
    BY <1>1, Scalars DEF Armed, timers, Base, Numbered, TypeOK, Operations
  <2> QED BY <2>1, <2>2
<1>6. loop' = loop /\ loop.op # operation'
  BY <1>1, Scalars DEF recovery, Base, Numbered, TypeOK, Operations
<1>7. \A e \in ending' : e.op # operation'
  BY <1>1, Scalars
<1>8. Owned'
  BY <1>5 DEF Owned
<1>9. CurrentAttempts'
  BY <1>2, <1>3, <1>4, <1>5 DEF CurrentAttempts, At
<1>10. LoopAlone'
  BY <1>6 DEF LoopAlone
<1>11. FailedIsDead' /\ StoppedIsSilent'
  BY <1>1, <1>7 DEF FailedIsDead, StoppedIsSilent
<1> QED BY <1>8, <1>9, <1>10, <1>11 DEF Media

LEMMA StartKeepsMedia ==
  ASSUME Sane, UNCHANGED outlived, Start
  PROVE  Media'
<1>1. Dead /\ SoundOpen = {}
  BY PhaseFacts DEF Start, Dead
<1>2. CASE callId # 0
  <2>1. /\ phase' = "error" /\ attempts' = attempts
        /\ UNCHANGED <<operation, abortController, transportSession, timers, recovery, ending>>
    BY <1>2 DEF Start
  <2>2. Effect(attempts', 0, "none", {}, SoundOpen)
    BY <2>1, SameEffect DEF Sane, Base
  <2> QED BY <1>1, <2>1, <2>2, EventKeepsMedia DEF timers
<1>3. CASE callId = 0
  BY <1>1, <1>3, StartBegins DEF Sane
<1> QED BY <1>2, <1>3

\* Nothing that runs belongs to the operation stop() has just begun.
LEMMA StopBegins ==
  ASSUME Base, Owned, UNCHANGED outlived, Stop
  PROVE  Media'
<1>1. Effect(attempts', 0, "none", {abortController}, SoundOpen \ {transportSession})
  BY SameEffect, ShutEffect DEF Stop, Base
<1>2. /\ operation' = operation + 1
      /\ abortController' = 0 /\ transportSession' = 0
      /\ expiryTimer' = 0 /\ reconnectTimer' = 0
      /\ UNCHANGED recovery
  BY DEF Stop
<1>3. /\ SoundOpen' = {} /\ DOMAIN attempts' = DOMAIN attempts
      /\ \A m \in DOMAIN attempts : attempts'[m].op = attempts[m].op
  <2>1. SoundOpen \ {transportSession} = {}
    BY DEF Owned
  <2> QED BY <1>1, <2>1, EffectMedia DEF Base
<1>4. \A m \in DOMAIN attempts' : ~Current(m)'
  BY <1>2, <1>3, Scalars DEF Current
<1>5. loop'.op # operation'
  BY <1>2, Scalars DEF recovery, Base, Numbered, TypeOK, Operations
<1>6. \A e \in ending' : e.op = operation' => e.by = "stop"
  <2>1. \A e \in ending : e.op # operation'
    BY <1>2, Scalars
  <2>2. \A e \in ending' : e \in ending \/ e.by = "stop"
    <3>1. CASE callId = 0
      BY <3>1 DEF Stop
    <3>2. CASE callId # 0
      <4>1. ending' = ending \cup {[by |-> "stop", call |-> callId, op |-> operation + 1]}
        BY <3>2 DEF Stop
      <4> QED BY <4>1
    <3> QED BY <3>1, <3>2
  <2> QED BY <2>1, <2>2
<1>7. Silent'
  BY <1>2, <1>3, <1>4, <1>5, <1>6 DEF Silent, Dead, Armed
<1>8. Owned'
  BY <1>3 DEF Owned
<1>9. CurrentAttempts'
  BY <1>2, <1>3, <1>4 DEF CurrentAttempts, Armed
<1>10. LoopAlone'
  BY <1>5 DEF LoopAlone
<1>11. FailedIsDead' /\ StoppedIsSilent'
  BY <1>7 DEF FailedIsDead, StoppedIsSilent, Silent
<1> QED BY <1>8, <1>9, <1>10, <1>11 DEF Media

LEMMA StopKeepsMedia ==
  ASSUME Sane, UNCHANGED outlived, Stop
  PROVE  Media'
BY StopBegins DEF Sane, Media

LEMMA LoopWakesKeepsMedia ==
  ASSUME Sane, UNCHANGED outlived, LoopWakes
  PROVE  Media'
<1>1. CASE loop.op = operation
  <2>1. /\ loop.at = "delay" /\ NewAttempt(operation, "loop")
        /\ loop' = [loop EXCEPT !.at = "establishing"]
        /\ UNCHANGED <<state, operation, transportSession, timers, ending>>
        /\ \A n \in DOMAIN attempts : ~(attempts[n].aborted /\ At(n, "connecting"))
    BY <1>1 DEF LoopWakes
  <2>2. loop'.op = operation /\ loop'.at = "establishing"
    BY <1>1, <2>1 DEF Sane, Base, TypeOK
  <2>3. /\ attempts' \in Seq(Attempt) /\ Len(attempts') = Len(attempts) + 1
        /\ abortController' = Len(attempts) + 1
        /\ \A m \in DOMAIN attempts : attempts'[m] = attempts[m]
        /\ attempts'[Len(attempts) + 1].op = operation
        /\ attempts'[Len(attempts) + 1].via = "loop"
        /\ attempts'[Len(attempts) + 1].at = "preparing"
        /\ ~attempts'[Len(attempts) + 1].aborted /\ ~attempts'[Len(attempts) + 1].open
    BY <2>1, NewAttemptEffect, Scalars DEF Sane, Base
  <2>4. /\ DOMAIN attempts' = DOMAIN attempts \cup {Len(attempts) + 1}
        /\ Len(attempts) + 1 \notin DOMAIN attempts /\ Len(attempts) + 1 # 0
        /\ Len(attempts) + 1 \in DOMAIN attempts'
    BY <2>3, LenProperties, Scalars DEF Sane
  <2>5. SoundOpen = {} /\ \A m \in DOMAIN attempts : Current(m) => At(m, "over")
    BY <1>1, <2>1 DEF Sane, Media, LoopAlone, Spent, At
  <2>6. SoundOpen' = {}
    BY <2>3, <2>4, <2>5 DEF SoundOpen, Sound
  <2>7. reconnectTimer' = 0
    BY <2>1 DEF Sane, Base, Reserved, timers
  <2>8. Owned'
    BY <2>6 DEF Owned
  <2>9. \A m \in DOMAIN attempts : Current(m)' => At(m, "over")'
    BY <2>1, <2>3, <2>5 DEF Current, At
  <2>10. CurrentAttempts'
    <3>1. \A k, m \in DOMAIN attempts' :
             Current(k)' /\ Current(m)' /\ ~OfLoop(k)' /\ ~OfLoop(m)' => k = m
      BY <2>1, <2>3, <2>4 DEF Sane, Media, CurrentAttempts, Current, OfLoop
    <3>2. \A m \in DOMAIN attempts' : Current(m)' => At(m, "over")' \/ m = Len(attempts) + 1
      BY <2>4, <2>9
    <3> QED BY <2>3, <2>4, <2>6, <2>7, <3>1, <3>2 DEF CurrentAttempts, At, Pending, Armed
  <2>11. LoopAlone'
    <3>1. \A m \in DOMAIN attempts' : Current(m)' => ~Pending(m)' \/ OfLoop(m)'
      BY <2>3, <2>4, <2>9 DEF At, Pending, OfLoop
    <3> QED BY <2>1, <2>2, <2>6, <3>1 DEF LoopAlone
  <2>12. FailedIsDead' /\ StoppedIsSilent'
    <3>1. ~Dead /\ ~Silent
      BY <1>1, <2>1 DEF Dead, Silent
    <3> QED BY <2>1, <3>1 DEF Sane, Media, FailedIsDead, StoppedIsSilent, state
  <2> QED BY <2>8, <2>10, <2>11, <2>12 DEF Media
<1>2. CASE loop.op # operation
  <2>1. /\ LeaveLoop /\ attempts' = attempts
        /\ UNCHANGED <<state, operation, abortController, transportSession, timers, ending>>
    BY <1>2 DEF LoopWakes
  <2>2. Effect(attempts', 0, "none", {}, SoundOpen)
    BY <2>1, SameEffect DEF Sane, Base
  <2>3. 0 \notin DOMAIN attempts
    BY Scalars DEF Sane
  <2> QED BY <2>1, <2>2, <2>3, MediaKept, PhaseFacts DEF state, timers, LeaveLoop
<1> QED BY <1>1, <1>2

LEMMA EndedKeepsMedia ==
  ASSUME Sane, UNCHANGED outlived, NEW e \in ending, Ended(e)
  PROVE  Media'
<1>1. /\ ending' \subseteq ending /\ e.by \in {"stop", "fail", "failLoop", "finish"}
      /\ UNCHANGED <<operation, abortController, transportSession, timers>>
  BY Scalars DEF Ended, Ending, Sane
<1>2. (phase' = "error" => Dead) /\ (phase' \in {"idle", "stopping"} => Silent)
  <2>1. CASE e.op # operation \/ e.by = "finish"
    BY <2>1, PhaseFacts DEF Ended, state
  <2>2. CASE e.op = operation /\ e.by = "stop"
    <3>1. Silent
      BY <2>2 DEF Sane, Media, StoppedIsSilent
    <3> QED BY <3>1, PhaseFacts
  <2>3. CASE e.op = operation /\ e.by \in {"fail", "failLoop"}
    <3>1. Dead
      BY <2>3 DEF Sane, Media, FailedIsDead
    <3>2. phase' = "error"
      BY <2>3 DEF Ended, Reset
    <3> QED BY <3>1, <3>2
  <2> QED BY <1>1, <2>1, <2>2, <2>3
<1>3. CASE e.by = "finish" /\ At(e.call, "finishing")
  <2>1. attempts' = Over(e.call) /\ Returned(e.call) /\ Pending(e.call)
    BY <1>3 DEF Ended, Pending, At
  <2>2. e.call \in DOMAIN attempts
    BY Scalars DEF Ending, Ids, Sane
  <2>3. Effect(attempts', e.call, "over", {}, SoundOpen)
    BY <2>1, <2>2, OverEffect DEF Sane, Base
  <2>4. (UNCHANGED loop /\ ~OfLoop(e.call)) \/ loop' = NoLoop
    BY <2>1, <2>2, ReturnedLoop DEF recovery, LeaveLoop, Sane
  <2> QED BY <1>1, <1>2, <2>1, <2>2, <2>3, <2>4, MediaKept, PhaseFacts DEF timers
<1>4. CASE ~(e.by = "finish" /\ At(e.call, "finishing"))
  <2>1. attempts' = attempts /\ (UNCHANGED loop \/ loop' = NoLoop)
    BY <1>4 DEF Ended, LeaveLoop, recovery
  <2>2. Effect(attempts', 0, "none", {}, SoundOpen)
    BY <2>1, SameEffect DEF Sane, Base
  <2>3. 0 \notin DOMAIN attempts
    BY Scalars DEF Sane
  <2> QED BY <1>1, <1>2, <2>1, <2>2, <2>3, MediaKept, PhaseFacts DEF timers
<1> QED BY <1>3, <1>4

LEMMA GraceKeepsMedia ==
  ASSUME Sane, UNCHANGED outlived, GraceFires
  PROVE  Media'
<1>1. reconnectTimer # 0 /\ reconnectTimer' = 0
  BY DEF GraceFires
<1>2. Effect(attempts, 0, "none", {}, SoundOpen)
  BY SameEffect DEF Sane, Base
<1>3. CASE GraceOver(reconnectTimer) /\ Reconnect(reconnectTimer)
  <2>1. Reoffer(operation, 0, attempts) /\ ~reconnecting
    BY <1>3 DEF GraceOver, IsCurrent, Reconnect
  <2>2. abortController # 0 /\ ~Dead
    BY <1>1, <1>3 DEF Sane, Media, CurrentAttempts, Dead, Armed, GraceOver, IsCurrent
  <2>3. \A m \in DOMAIN attempts : Current(m) => ~Pending(m) \/ (~OfLoop(m) /\ At(m, "connecting"))
    <3> SUFFICES ASSUME NEW m \in DOMAIN attempts, Current(m), Pending(m)
                 PROVE  ~OfLoop(m) /\ At(m, "connecting")
      OBVIOUS
    <3>1. ~OfLoop(m)
      BY <2>1, NoLoopNoReoffer DEF Sane
    <3>2. ~At(m, "preparing") /\ ~At(m, "starting") /\ ~At(m, "finishing")
      BY <1>1, <1>3 DEF Sane, Media, CurrentAttempts, Armed, GraceOver, IsCurrent
    <3>3. attempts[m].at \in Stages
      BY AttemptFields DEF Sane, Base, Attempt, Stages
    <3> QED BY <3>1, <3>2, <3>3 DEF At, Pending, Stages
  <2>4. Effect(attempts, 0, IF 0 = 0 THEN "none" ELSE "over", {}, SoundOpen)
    BY <1>2
  <2> QED BY <1>1, <2>1, <2>2, <2>3, <2>4, ReofferKeepsMedia
<1>4. CASE Idle
  <2>1. Effect(attempts', 0, "none", {}, SoundOpen)
    BY <1>2, <1>4 DEF Idle
  <2> QED BY <1>1, <1>4, <2>1, EventKeepsMedia, PhaseFacts DEF Idle, state
<1> QED BY <1>3, <1>4 DEF GraceFires

LEMMA ShownKeepsMedia ==
  ASSUME Sane, UNCHANGED outlived, NEW n \in DOMAIN attempts, Activity(n) \/ Connected(n)
  PROVE  Media'
<1>1. Effect(attempts', 0, "none", {}, SoundOpen)
  BY SameEffect, LostEffect DEF Activity, Connected, Sane, Base
<1>2. phase' \notin {"error", "idle", "stopping"} /\ Quietly /\ reconnectTimer' \in {reconnectTimer, 0}
  BY DEF Activity, Connected, Patch, Activities
<1> QED BY <1>1, <1>2, EventKeepsMedia DEF Quietly

LEMMA DisconnectedKeepsMedia ==
  ASSUME Sane, UNCHANGED outlived, NEW n \in DOMAIN attempts, Disconnected(n)
  PROVE  Media'
<1>1. Effect(attempts', 0, "none", {}, SoundOpen)
  BY LostEffect DEF Disconnected, Sane, Base
<1>2. phase' = "reconnecting" /\ Quietly /\ Heard(n)
  BY DEF Disconnected, Patch
<1>3. CASE reconnectTimer' = reconnectTimer
  BY <1>1, <1>2, <1>3, EventKeepsMedia DEF Quietly
<1>4. CASE reconnectTimer' = operation
  <2>1. /\ ~Dead /\ ~Silent /\ abortController # 0
        /\ \A m \in DOMAIN attempts : Current(m) => ~At(m, "preparing") /\ ~At(m, "starting")
    BY <1>2, HeardFacts
  <2>2. /\ SoundOpen' = SoundOpen /\ DOMAIN attempts' = DOMAIN attempts
        /\ UNCHANGED <<operation, abortController, transportSession, loop, ending>>
        /\ \A m \in DOMAIN attempts :
             /\ attempts'[m].op = attempts[m].op /\ attempts'[m].via = attempts[m].via
             /\ attempts'[m].at = attempts[m].at
             /\ attempts'[m].aborted <=> attempts[m].aborted
    BY <1>1, <1>2, EffectMedia, Scalars DEF Sane, Base, SoundOpen, Quietly, recovery
  <2>3. Owned'
    BY <2>2 DEF Sane, Media, Owned
  <2>4. abortController \in DOMAIN attempts
    BY <2>1, Scalars DEF Sane, Base, Numbered
  <2>5. CurrentAttempts'
    <3>1. SoundOpen \subseteq DOMAIN attempts
      BY DEF SoundOpen
    <3>2. \A m \in DOMAIN attempts :
            /\ Current(m)' <=> Current(m)
            /\ OfLoop(m)' <=> OfLoop(m)
            /\ Pending(m)' <=> Pending(m)
            /\ \A at : At(m, at)' <=> At(m, at)
      BY <2>2 DEF Current, OfLoop, Pending, At
    <3> QED BY <2>1, <2>2, <2>4, <3>1, <3>2 DEF Sane, Media, CurrentAttempts
  <2>6. LoopAlone'
    <3>1. loop.op = operation => loop.at # "delay"
      BY <1>2, HeardFacts
    <3>2. loop.op = operation /\ loop.at = "establishing" =>
             /\ \A m \in DOMAIN attempts : Current(m) => ~Pending(m) \/ OfLoop(m)
             /\ \A m \in SoundOpen : OfLoop(m) /\ Pending(m)
      BY DEF Sane, Media, LoopAlone
    <3>3. SoundOpen \subseteq DOMAIN attempts
      BY DEF SoundOpen
    <3> QED BY <2>2, <3>1, <3>2, <3>3 DEF LoopAlone, Current, OfLoop, Pending
  <2>7. FailedIsDead' /\ StoppedIsSilent'
    BY <1>2, <2>1, <2>2 DEF Sane, Media, FailedIsDead, StoppedIsSilent
  <2> QED BY <2>3, <2>5, <2>6, <2>7 DEF Media
<1> QED BY <1>2, <1>3, <1>4, HeardIsCurrent DEF Disconnected, Sane

\* What an event that fails the call finds, with no re-offer in the making.
LEMMA FailureFacts ==
  ASSUME Sane, NEW n \in DOMAIN attempts, Heard(n), loop.op # operation
  PROVE  /\ ~Dead /\ ~Silent /\ abortController # 0
         /\ \A m \in DOMAIN attempts : Current(m) =>
              ~Pending(m) \/ (~OfLoop(m) /\ At(m, "connecting"))
<1>2. \A m \in DOMAIN attempts : Current(m) => ~Pending(m) \/ (~OfLoop(m) /\ At(m, "connecting"))
  <2> SUFFICES ASSUME NEW m \in DOMAIN attempts, Current(m), Pending(m)
               PROVE  ~OfLoop(m) /\ At(m, "connecting")
    OBVIOUS
  <2>1. ~OfLoop(m)
    BY DEF Sane, Base, OneLoop, Current
  <2>2. ~At(m, "preparing") /\ ~At(m, "starting") /\ ~At(m, "finishing")
    BY HeardFacts DEF Sane, Media, CurrentAttempts
  <2>3. attempts[m].at \in Stages
    BY AttemptFields DEF Sane, Base, Attempt, Stages
  <2> QED BY <2>1, <2>2, <2>3 DEF At, Pending, Stages
<1> QED BY <1>2, HeardFacts

LEMMA EventFailureKeepsMedia ==
  ASSUME Sane, UNCHANGED outlived, NEW n \in DOMAIN attempts, Heard(n),
         NEW att, Effect(att, 0, "none", {}, SoundOpen), Fail(attempts[n].op, att, "fail")
  PROVE  Media'
<1>1. Fail(operation, att, "fail")
  BY HeardIsCurrent DEF Sane
<1>2. Effect(att, 0, IF 0 = 0 THEN "none" ELSE "over", {}, SoundOpen)
  OBVIOUS
<1>3. CASE failingOperation = operation
  <2>1. /\ attempts' = att
        /\ UNCHANGED <<phase, operation, abortController, transportSession, expiryTimer,
                        reconnectTimer, recovery, ending>>
    BY <1>1, <1>3 DEF Fail, state, timers
  <2> QED BY <2>1, EventKeepsMedia, PhaseFacts
<1>4. CASE failingOperation # operation
  <2>1. outlived' = IF loop.op = operation THEN outlived \cup {operation} ELSE outlived
    BY <1>1, <1>4 DEF Fail
  <2>2. loop.op # operation
    BY <2>1 DEF Sane
  <2> QED BY <1>1, <1>2, <2>2, FailureFacts, FailKeepsMedia
<1> QED BY <1>3, <1>4

LEMMA FailuresKeepMedia ==
  ASSUME Sane, UNCHANGED outlived, NEW n \in DOMAIN attempts,
         Failed(n) \/ ChannelError(n) \/ PeerTimesOut(n)
  PROVE  Media'
<1> DEFINE att == [attempts EXCEPT ![n].lost = FALSE]
<1>1. Effect(att, 0, "none", {}, SoundOpen)
  BY LostEffect DEF Sane, Base
<1>2. Effect(attempts, 0, "none", {}, SoundOpen)
  BY SameEffect DEF Sane, Base
<1>3. Heard(n)
  BY DEF Failed, ChannelError, PeerTimesOut
<1>4. CASE ChannelError(n)
  BY <1>2, <1>3, <1>4, EventFailureKeepsMedia DEF ChannelError
<1>5. CASE PeerTimesOut(n)
  <2>1. Fail(attempts[n].op, att, "fail")
    BY <1>5 DEF PeerTimesOut
  <2> HIDE DEF att
  <2> QED BY <1>1, <1>3, <2>1, EventFailureKeepsMedia
<1>6. CASE Failed(n)
  <2>1. CASE Fail(attempts[n].op, att, "fail")
    <3> HIDE DEF att
    <3> QED BY <1>1, <1>3, <2>1, EventFailureKeepsMedia
  <2>2. CASE reconnectTimer' = 0 /\ ~reconnecting /\ Reoffer(attempts[n].op, 0, att)
    <3>1. Reoffer(operation, 0, att)
      BY <1>3, <2>2, HeardIsCurrent DEF Sane
    <3>2. Effect(att, 0, IF 0 = 0 THEN "none" ELSE "over", {}, SoundOpen)
      BY <1>1
    <3> HIDE DEF att
    <3>3. loop.op # operation
      BY <2>2, Scalars, HeardIsCurrent DEF Sane, Base, Reserved, NoLoop
    <3> QED BY <1>3, <2>2, <3>1, <3>2, <3>3, FailureFacts, ReofferKeepsMedia
  <2>3. CASE reconnectTimer' = 0 /\ attempts' = att /\ UNCHANGED state /\ Quietly
    <3>1. Effect(attempts', 0, "none", {}, SoundOpen)
      BY <1>1, <2>3
    <3> HIDE DEF att
    <3> QED BY <2>3, <3>1, EventKeepsMedia, PhaseFacts DEF Quietly, state
  <2> QED BY <1>6, <2>1, <2>2, <2>3 DEF Failed
<1> QED BY <1>4, <1>5, <1>6

LEMMA MicrophoneKeepsMedia ==
  ASSUME Sane, UNCHANGED outlived, NEW enabled \in BOOLEAN, SetMicrophoneEnabled(enabled)
  PROVE  Media'
<1>1. Effect(attempts', 0, "none", {}, SoundOpen)
  BY TrackEffect DEF SetMicrophoneEnabled, Sane, Base
<1> QED BY <1>1, EventKeepsMedia, PhaseFacts DEF SetMicrophoneEnabled, timers

-----------------------------------------------------------------------------
LEMMA InitMedia == Init => IInv
<1> SUFFICES ASSUME Init PROVE IInv
  OBVIOUS
<1>1. Media
  BY DEF Init, Media, Owned, SoundOpen, CurrentAttempts, LoopAlone, NoLoop,
         FailedIsDead, StoppedIsSilent, Silent, Dead, Armed
<1> QED BY <1>1, InitBase DEF IInv, Init

LEMMA NextKeepsMedia ==
  ASSUME Sane, [Next]_vars, UNCHANGED outlived
  PROVE  Media'
<1>1. CASE Start
  BY <1>1, StartKeepsMedia
<1>2. CASE Stop \/ ExpiryFires
  BY <1>2, StopKeepsMedia DEF ExpiryFires
<1>3. ASSUME NEW n \in DOMAIN attempts, Establish(n) PROVE Media'
  BY <1>3, EstablishKeepsMedia
<1>4. ASSUME NEW n \in DOMAIN attempts, TransportEvent(n) \/ PeerTimesOut(n) PROVE Media'
  <2>1. CASE StopPhrase(n)
    BY <2>1, StopKeepsMedia DEF StopPhrase
  <2> QED BY <1>4, <2>1, ShownKeepsMedia, DisconnectedKeepsMedia, FailuresKeepMedia DEF TransportEvent
<1>5. ASSUME NEW e \in ending, Ended(e) PROVE Media'
  BY <1>5, EndedKeepsMedia
<1>6. CASE LoopWakes
  BY <1>6, LoopWakesKeepsMedia
<1>7. CASE GraceFires
  BY <1>7, GraceKeepsMedia
<1>8. ASSUME NEW enabled \in BOOLEAN, SetMicrophoneEnabled(enabled) PROVE Media'
  BY <1>8, MicrophoneKeepsMedia
<1>9. CASE UNCHANGED vars
  <2>1. UNCHANGED <<phase, operation, abortController, transportSession, expiryTimer,
                    reconnectTimer, loop, attempts, ending>>
    BY <1>9 DEF vars, state, timers, recovery
  <2> QED BY <2>1 DEF Sane, Media, Owned, SoundOpen, Sound, CurrentAttempts, LoopAlone, Armed,
                      FailedIsDead, StoppedIsSilent, Silent, Dead, Spent, Current, At, OfLoop, Pending
<1> QED BY <1>1, <1>2, <1>3, <1>4, <1>5, <1>6, <1>7, <1>8, <1>9 DEF Next

-----------------------------------------------------------------------------
(* Operations whose loop outlives their failure *)

\* No session of another operation opens in a step that has such an effect.
LEMMA NoneOpens ==
  ASSUME TypeOK, outlived \subseteq outlived', SoundOpen \subseteq {transportSession},
         NEW n, NEW next, NEW ab, NEW open, Effect(attempts', n, next, ab, open),
         \A m \in open : Current(m) \/ m \in SoundOpen,
         SoundOpen = {} \/ transportSession \notin open, operation \in outlived'
  PROVE  SoundOpen' = {}
<1> SUFFICES ASSUME NEW m \in DOMAIN attempts', attempts'[m].open, Sound(m)' PROVE FALSE
  BY DEF SoundOpen
<1>1. m \in DOMAIN attempts /\ attempts'[m].op = attempts[m].op
  BY EffectFields
<1>2. Sound(m) /\ attempts[m].op # operation
  BY <1>1 DEF Sound
<1>3. m \in open
  BY <1>1, <1>2 DEF Effect
<1> QED BY <1>2, <1>3 DEF Current

\* The step with which a failure leaves its loop running.
LEMMA FailOutlives ==
  ASSUME Sane, NEW n, NEW next, NEW att, Effect(att, n, next, {}, SoundOpen),
         Fail(operation, att, "fail"), outlived' # outlived
  PROVE  operation' = operation /\ operation \in outlived' /\ SoundOpen' = {}
<1>1. /\ operation' = operation /\ outlived' = outlived \cup {operation}
      /\ attempts' = Shut(att)
  BY DEF Fail
<1>2. Effect(attempts', n, next, {abortController}, SoundOpen \ {transportSession})
  BY <1>1, ShutEffect DEF Sane, Base
<1>3. SoundOpen \subseteq {transportSession} /\ TypeOK
  BY DEF Sane, Base, Media, Owned
<1> QED BY <1>1, <1>2, <1>3, NoneOpens

LEMMA NextOutlives ==
  ASSUME Sane, [Next]_vars, outlived' # outlived
  PROVE  operation' = operation /\ operation \in outlived' /\ SoundOpen' = {} /\ Talking
<1> DEFINE Outlives == operation' = operation /\ operation \in outlived' /\ SoundOpen' = {}
<1>0. ~Silent => Talking
  BY DEF Sane, Media, StoppedIsSilent, Talking
<1>1. ~Start /\ ~Stop /\ ~ExpiryFires /\ ~LoopWakes /\ ~GraceFires
  BY DEF Start, Stop, ExpiryFires, LoopWakes, GraceFires, Reconnect, Reoffer, Idle, history
<1>2. ASSUME NEW n \in DOMAIN attempts, Establish(n)
      PROVE  Outlives /\ Talking
  <2>1. ~PrepareResolves(n) /\ ~StartResolves(n) /\ ~ConnectResolves(n)
    BY DEF PrepareResolves, StartResolves, ConnectResolves, history
  <2>2. ~ReofferThrows(n, attempts[n].op)
    BY DEF ReofferThrows, Reoffer, Fail, history
  <2>3. Fail(attempts[n].op, Over(n), "fail") /\ attempts[n].op = operation
    BY <1>2, <2>1, <2>2 DEF Establish, EstablishThrows, StartThrows, IsCurrent, history
  <2>4. Effect(Over(n), n, "over", {}, SoundOpen)
    BY OverEffect DEF Sane, Base
  <2>5. ~Silent
    BY <1>2, <2>3, <2>1, <2>2 DEF Silent, Establish, EstablishThrows, At, Current, Pending
  <2> QED BY <1>0, <2>3, <2>4, <2>5, FailOutlives
<1>3. ASSUME NEW n \in DOMAIN attempts, TransportEvent(n) \/ PeerTimesOut(n)
      PROVE  Outlives /\ Talking
  <2>1. ~Activity(n) /\ ~Connected(n) /\ ~Disconnected(n) /\ ~StopPhrase(n)
    BY <1>1 DEF Activity, Connected, Disconnected, StopPhrase, Quietly, history
  <2>2. Failed(n) \/ ChannelError(n) \/ PeerTimesOut(n)
    BY <1>3, <2>1 DEF TransportEvent
  <2> DEFINE att == [attempts EXCEPT ![n].lost = FALSE]
  <2>3. attempts[n].op = operation
    BY <2>2 DEF Failed, ChannelError, PeerTimesOut, Heard, IsCurrent
  <2>4. Fail(operation, attempts, "fail") \/ Fail(operation, att, "fail")
    BY <2>2, <2>3 DEF Failed, ChannelError, PeerTimesOut, Reoffer, Quietly, history
  <2>5. Effect(att, 0, "none", {}, SoundOpen)
    BY LostEffect DEF Sane, Base
  <2>6. Effect(attempts, 0, "none", {}, SoundOpen)
    BY SameEffect DEF Sane, Base
  <2> HIDE DEF att
  <2>7. ~Silent
    BY <2>2, HeardFacts DEF Failed, ChannelError, PeerTimesOut
  <2> QED BY <1>0, <2>4, <2>5, <2>6, <2>7, FailOutlives
<1>4. \A e \in ending : ~Ended(e)
  BY DEF Ended
<1>5. \A enabled \in BOOLEAN : ~SetMicrophoneEnabled(enabled)
  BY DEF SetMicrophoneEnabled, history
<1>6. ~UNCHANGED vars
  BY DEF vars, history
<1> QED BY <1>1, <1>2, <1>3, <1>4, <1>5, <1>6 DEF Next

\* Once that has happened, the operation's own sessions are the only ones to open.
LEMMA NextAfterOutliving ==
  ASSUME Base, SoundOpen = {}, operation \in outlived, [Next]_vars
  PROVE  \/ operation' = operation /\ SoundOpen' = {}
         \/ UNCHANGED outlived /\ operation' = operation + 1 /\ Media'
<1>1. /\ outlived \subseteq outlived' /\ operation \in outlived' /\ TypeOK
      /\ SoundOpen \subseteq {transportSession}
  BY HistoryKept DEF Base
<1>2. ASSUME NEW n, NEW next, NEW ab, NEW open, Effect(attempts', n, next, ab, open),
             \A m \in open : Current(m) \/ m \in SoundOpen
      PROVE  SoundOpen' = {}
  BY <1>1, <1>2, NoneOpens
<1>3. ASSUME NEW n, NEW next, NEW att, NEW ab, Effect(att, n, next, ab, SoundOpen), attempts' = att
      PROVE  SoundOpen' = {}
  BY <1>2, <1>3
<1>4. ASSUME NEW n, NEW next, NEW att, Effect(att, n, next, {}, SoundOpen), attempts' = Shut(att)
      PROVE  SoundOpen' = {}
  BY <1>1, <1>2, <1>4, ShutEffect
<1>5. ASSUME attempts' = attempts PROVE SoundOpen' = {}
  BY <1>1, <1>3, <1>5, SameEffect
<1>6. ASSUME NEW op, NEW via \in {"start", "loop"}, op \in Operations, NewAttempt(op, via)
      PROVE  SoundOpen' = {}
  <2>1. /\ \A m \in DOMAIN attempts : attempts'[m] = attempts[m]
        /\ DOMAIN attempts' = 1 .. (Len(attempts) + 1) /\ DOMAIN attempts = 1 .. Len(attempts)
        /\ Len(attempts) \in Nat /\ ~attempts'[Len(attempts) + 1].open
    BY <1>1, <1>6, NewAttemptEffect, LenProperties, AttemptFields, Scalars
  <2> QED BY <1>1, <2>1 DEF SoundOpen, Sound
<1>7. ASSUME NEW n, NEW next, NEW att, Effect(att, n, next, {}, SoundOpen), NEW op, NEW by,
             Fail(op, att, by)
      PROVE  SoundOpen' = {}
  BY <1>3, <1>4, <1>7 DEF Fail
<1>8. ASSUME NEW n, NEW next, NEW att, Effect(att, n, next, {}, SoundOpen), NEW op, NEW k,
             Reoffer(op, k, att)
      PROVE  SoundOpen' = {}
  BY <1>4, <1>8 DEF Reoffer
<1>9. CASE Start
  <2>1. CASE callId # 0
    BY <1>5, <1>9, <2>1 DEF Start
  <2>2. CASE callId = 0
    BY <1>9, <2>2, StartBegins DEF Start, history
  <2> QED BY <2>1, <2>2
<1>10. CASE Stop \/ ExpiryFires
  BY <1>1, <1>10, StopBegins DEF Stop, ExpiryFires, history, Owned
<1>11. ASSUME NEW n \in DOMAIN attempts, Establish(n)
       PROVE  operation' = operation /\ SoundOpen' = {}
  <2>1. operation' = operation
    BY <1>11 DEF Establish, PrepareResolves, StartResolves, ConnectResolves, EstablishThrows,
                 StartThrows, ReofferThrows, Fail, Reoffer
  <2>2. Effect(Over(n), n, "over", {}, SoundOpen)
    BY <1>1, OverEffect
  <2>3. CASE PrepareResolves(n)
    <3>1. CASE IsCurrent(attempts[n].op)
      <4>1. Effect(attempts', n, "starting", {}, {m \in SoundOpen \cup {n} : Sound(m)})
        BY <1>1, <2>3, <3>1, PrepareEffect
      <4>2. PICK open : /\ Effect(attempts', n, "starting", {}, open)
                        /\ open \subseteq SoundOpen \cup {n}
        BY <4>1
      <4>3. Current(n)
        BY <3>1 DEF IsCurrent, Current
      <4>4. \A m \in open : Current(m) \/ m \in SoundOpen
        BY <4>2, <4>3
      <4>5. SoundOpen' = {}
        BY <1>2, <4>2, <4>4
      <4> QED BY <2>1, <4>5
    <3>2. CASE ~IsCurrent(attempts[n].op)
      BY <1>3, <2>2, <2>3, <3>2 DEF PrepareResolves
    <3> QED BY <2>1, <3>1, <3>2
  <2>4. CASE StartResolves(n)
    <3>1. PICK next : Effect(attempts', n, next, {}, SoundOpen)
      BY <1>1, <2>4, StartEffect
    <3> QED BY <1>3, <2>1, <3>1
  <2>5. CASE ConnectResolves(n)
    BY <1>3, <2>1, <2>2, <2>5 DEF ConnectResolves
  <2>6. CASE EstablishThrows(n)
    <3>1. \/ attempts' = Over(n)
          \/ \E op, by : Fail(op, Over(n), by)
          \/ \E op, k : Reoffer(op, k, Over(n))
      BY <2>6 DEF EstablishThrows, StartThrows, ReofferThrows
    <3>2. CASE attempts' = Over(n)
      BY <1>3, <2>1, <2>2, <3>2
    <3>3. ASSUME NEW op, NEW by, Fail(op, Over(n), by) PROVE SoundOpen' = {}
      BY <1>7, <2>2, <3>3
    <3>4. ASSUME NEW op, NEW k, Reoffer(op, k, Over(n)) PROVE SoundOpen' = {}
      BY <1>8, <2>2, <3>4
    <3> QED BY <2>1, <3>1, <3>2, <3>3, <3>4
  <2> QED BY <1>11, <2>1, <2>3, <2>4, <2>5, <2>6 DEF Establish
<1>12. ASSUME NEW n \in DOMAIN attempts, TransportEvent(n) \/ PeerTimesOut(n), ~StopPhrase(n)
       PROVE  operation' = operation /\ SoundOpen' = {}
  <2> DEFINE att == [attempts EXCEPT ![n].lost = FALSE]
  <2>1. Effect(attempts, 0, "none", {}, SoundOpen)
    BY <1>1, SameEffect
  <2>2. Effect(att, 0, "none", {}, SoundOpen)
    BY <1>1, LostEffect
  <2>3. Effect([attempts EXCEPT ![n].lost = TRUE], 0, "none", {}, SoundOpen)
    BY <1>1, LostEffect
  <2>4. operation' = operation
    BY <1>12 DEF TransportEvent, Activity, Connected, Disconnected, Failed, ChannelError,
                 PeerTimesOut, Fail, Reoffer, Quietly
  <2>5. CASE Activity(n) \/ Connected(n) \/ Disconnected(n)
    <3>1. attempts' \in {attempts, att, [attempts EXCEPT ![n].lost = TRUE]}
      BY <2>5 DEF Activity, Connected, Disconnected
    <3> HIDE DEF att
    <3>2. PICK a : Effect(a, 0, "none", {}, SoundOpen) /\ attempts' = a
      BY <2>1, <2>2, <2>3, <3>1
    <3> QED BY <1>3, <2>4, <3>2
  <2>6. CASE Failed(n) \/ ChannelError(n) \/ PeerTimesOut(n)
    <3>1. \/ attempts' = att
          \/ \E op, by : Fail(op, attempts, by) \/ Fail(op, att, by)
          \/ \E op, k : Reoffer(op, k, att)
      BY <2>6 DEF Failed, ChannelError, PeerTimesOut
    <3> HIDE DEF att
    <3>2. CASE attempts' = att
      BY <1>3, <2>2, <2>4, <3>2
    <3>3. ASSUME NEW op, NEW by, NEW a \in {attempts, att}, Fail(op, a, by) PROVE SoundOpen' = {}
      <4>1. Effect(a, 0, "none", {}, SoundOpen)
        BY <2>1, <2>2
      <4> QED BY <1>7, <3>3, <4>1
    <3>4. ASSUME NEW op, NEW k, Reoffer(op, k, att) PROVE SoundOpen' = {}
      BY <1>8, <2>2, <3>4
    <3> QED BY <2>4, <3>1, <3>2, <3>3, <3>4
  <2> QED BY <1>12, <2>4, <2>5, <2>6 DEF TransportEvent
<1>13. ASSUME NEW n \in DOMAIN attempts, StopPhrase(n)
       PROVE  UNCHANGED outlived /\ operation' = operation + 1 /\ Media'
  BY <1>1, <1>13, StopBegins DEF StopPhrase, Stop, history, Owned
<1>14. ASSUME NEW e \in ending, Ended(e)
       PROVE  operation' = operation /\ SoundOpen' = {}
  <2>1. e.call \in DOMAIN attempts
    BY Scalars DEF Ending, Ids
  <2>2. attempts' = attempts \/ attempts' = Over(e.call)
    BY <1>14 DEF Ended
  <2>3. Effect(Over(e.call), e.call, "over", {}, SoundOpen)
    BY <1>1, <2>1, OverEffect
  <2>4. operation' = operation
    BY <1>14 DEF Ended
  <2> QED BY <1>3, <1>5, <2>2, <2>3, <2>4
<1>15. CASE LoopWakes
  BY <1>5, <1>6, <1>15, Scalars DEF LoopWakes
<1>16. CASE GraceFires
  <2>1. attempts' = attempts \/ \E op, k : Reoffer(op, k, attempts)
    BY <1>16 DEF GraceFires, Reconnect, Idle
  <2>2. operation' = operation
    BY <1>16 DEF GraceFires, Reconnect, Reoffer, Idle
  <2> QED BY <1>1, <1>5, <1>8, <2>1, <2>2, SameEffect
<1>17. ASSUME NEW enabled \in BOOLEAN, SetMicrophoneEnabled(enabled)
       PROVE  operation' = operation /\ SoundOpen' = {}
  <2>1. Effect(attempts', 0, "none", {}, SoundOpen)
    BY <1>1, <1>17, TrackEffect DEF SetMicrophoneEnabled
  <2> QED BY <1>2, <1>17, <2>1 DEF SetMicrophoneEnabled
<1>18. CASE UNCHANGED vars
  BY <1>5, <1>18 DEF vars
<1> QED BY <1>9, <1>10, <1>11, <1>12, <1>13, <1>14, <1>15, <1>16, <1>17, <1>18 DEF Next

LEMMA TalkingKept ==
  ASSUME Base, Talking, [Next]_vars, operation' = operation
  PROVE  Talking'
<1>1. operation # operation + 1
  BY Scalars
<1>2. ASSUME NEW op, NEW att, NEW by \in {"fail", "failLoop"}, Fail(op, att, by) PROVE Talking'
  BY <1>2 DEF Fail, Reset, state, Talking
<1>3. ASSUME NEW op, NEW att, NEW k, Reoffer(op, k, att) PROVE Talking'
  BY <1>3 DEF Reoffer, Patch, Talking
<1>4. ASSUME UNCHANGED <<phase, ending>> \/ (phase' \notin {"idle", "stopping"} /\ UNCHANGED ending)
      PROVE  Talking'
  BY <1>4 DEF Talking
<1>5. CASE Start
  BY <1>1, <1>4, <1>5 DEF Start
<1>6. ~Stop /\ ~ExpiryFires
  BY <1>1 DEF Stop, ExpiryFires
<1>7. ASSUME NEW n \in DOMAIN attempts, Establish(n) PROVE Talking'
  <2>1. CASE PrepareResolves(n) \/ ConnectResolves(n)
    BY <1>4, <2>1 DEF PrepareResolves, ConnectResolves, Patch, state
  <2>2. CASE StartResolves(n)
    BY <2>2 DEF StartResolves, state, Talking
  <2>3. CASE StartThrows(n, attempts[n].op)
    BY <1>2, <1>4, <2>3 DEF StartThrows, state
  <2>4. CASE ReofferThrows(n, attempts[n].op)
    <3>1. \/ \E op, k : Reoffer(op, k, Over(n))
          \/ \E op : Fail(op, Over(n), "failLoop")
          \/ UNCHANGED <<phase, ending>>
      BY <2>4 DEF ReofferThrows, state
    <3> QED BY <1>2, <1>3, <1>4, <3>1
  <2> QED BY <1>7, <2>1, <2>2, <2>3, <2>4 DEF Establish, EstablishThrows
<1>8. ASSUME NEW n \in DOMAIN attempts, TransportEvent(n) \/ PeerTimesOut(n) PROVE Talking'
  <2>1. CASE Activity(n) \/ Connected(n) \/ Disconnected(n)
    BY <1>4, <2>1 DEF Activity, Connected, Disconnected, Patch, Activities, Quietly
  <2>2. CASE Failed(n) \/ ChannelError(n) \/ PeerTimesOut(n)
    <3>1. \/ \E op, att, k : Reoffer(op, k, att)
          \/ \E op, att : Fail(op, att, "fail")
          \/ UNCHANGED <<phase, ending>>
      BY <2>2 DEF Failed, ChannelError, PeerTimesOut, state, Quietly
    <3> QED BY <1>2, <1>3, <1>4, <3>1
  <2> QED BY <1>6, <1>8, <2>1, <2>2 DEF TransportEvent, StopPhrase
<1>9. ASSUME NEW e \in ending, Ended(e) PROVE Talking'
  <2>1. ending' \subseteq ending /\ ~(e.by = "stop" /\ e.op = operation)
    BY <1>9 DEF Ended, Talking
  <2>2. UNCHANGED phase \/ phase' = "error"
    BY <1>9, <2>1 DEF Ended, state, Reset
  <2> QED BY <2>1, <2>2 DEF Talking
<1>10. CASE LoopWakes
  BY <1>4, <1>10 DEF LoopWakes, state
<1>11. CASE GraceFires
  BY <1>3, <1>4, <1>11 DEF GraceFires, Reconnect, Idle, state
<1>12. ASSUME NEW enabled \in BOOLEAN, SetMicrophoneEnabled(enabled) PROVE Talking'
  BY <1>4, <1>12 DEF SetMicrophoneEnabled
<1>13. CASE UNCHANGED vars
  BY <1>4, <1>13 DEF vars, state
<1> QED BY <1>5, <1>6, <1>7, <1>8, <1>9, <1>10, <1>11, <1>12, <1>13 DEF Next

LEMMA NextKeepsIInv == IInv /\ [Next]_vars => IInv'
<1> SUFFICES ASSUME IInv, [Next]_vars PROVE IInv'
  OBVIOUS
<1>1. Base'
  BY NextKeepsBase DEF IInv
<1>2. outlived \subseteq 1 .. operation /\ operation \in Nat
  BY Scalars DEF IInv, Base, Numbered
<1>3. CASE operation \notin outlived
  <2>1. Sane
    BY <1>3 DEF IInv, Sane
  <2>2. CASE UNCHANGED outlived
    <3>1. Media'
      BY <2>1, <2>2, NextKeepsMedia
    <3>2. operation' \notin outlived'
      BY <1>2, <1>3, <2>2, OperationSteps DEF IInv
    <3> QED BY <1>1, <3>1, <3>2 DEF IInv
  <2>3. CASE outlived' # outlived
    BY <1>1, <2>1, <2>3, NextOutlives, TalkingKept DEF IInv
  <2> QED BY <2>2, <2>3
<1>4. CASE operation \in outlived
  <2>1. SoundOpen = {} /\ Base /\ Talking
    BY <1>4 DEF IInv
  <2>2. CASE operation' = operation /\ SoundOpen' = {}
    BY <1>1, <1>4, <2>1, <2>2, HistoryKept, TalkingKept DEF IInv
  <2>3. CASE UNCHANGED outlived /\ operation' = operation + 1 /\ Media'
    BY <1>1, <1>2, <2>3 DEF IInv
  <2> QED BY <1>4, <2>1, <2>2, <2>3, NextAfterOutliving
<1> QED BY <1>3, <1>4

LEMMA Invariance == Spec => []IInv
BY InitMedia, NextKeepsIInv, PTL DEF Spec

\* The sessions the properties speak of are SoundOpen.
LEMMA SoundSessions ==
  ASSUME Base
  PROVE  /\ (\A n \in OpenSessions : ~Sound(n)) <=> SoundOpen = {}
         /\ OnlyOwnedSessionOpen <=> Owned
BY DEF OpenSessions, SoundOpen, OnlyOwnedSessionOpen, Owned

\* An idle or stopping controller has nothing of its latest operation.
LEMMA StoppedFacts ==
  ASSUME IInv, phase \in {"idle", "stopping"}
  PROVE  operation \notin outlived /\ Silent /\ StoppedStaysSilent
<1>1. operation \notin outlived /\ Silent
  BY DEF IInv, Talking, Media, StoppedIsSilent
<1>2. \A n \in DOMAIN attempts : attempts[n].op \in 1 .. operation /\ operation \in Nat
  BY Scalars DEF IInv
<1>3. \A n \in OpenSessions : ~Sound(n)
  BY <1>1, SoundSessions DEF IInv, Silent, Dead
<1> QED BY <1>1, <1>2, <1>3 DEF Silent, StoppedStaysSilent, Pending, At, Current

\* The microphone is where the controller says it is.  Whatever the user, late
\* answers, timers, failing hang-ups and re-offers do, the only session open is
\* the one the next stop() or failure closes, and a stopped call has none, no
\* timer, and no pending promise that could open one.  Excepted are the sessions
\* of an operation whose reconnect loop went on after its failure, alone.
THEOREM MicrophoneOwned == Spec => []MediaOwned
<1>1. IInv => MediaOwned
  <2> SUFFICES ASSUME IInv PROVE MediaOwned
    OBVIOUS
  <2>1. OnlyOwnedSessionOpen
    BY SoundSessions DEF IInv, Media, Owned
  <2>2. StoppedStaysSilent
    BY StoppedFacts DEF StoppedStaysSilent
  <2> QED BY <2>1, <2>2 DEF IInv, Base, MediaOwned
<1> QED BY <1>1, Invariance, PTL

\* A call shown as failed has closed its media, and none opens later: not even
\* when stop() runs into the failure's cleanup or a late answer arrives.  Excepted
\* is, again, the operation whose loop went on after the failure.
THEOREM FailureClosesMedia == Spec => []FailedStaysClosed
<1>1. IInv => FailedStaysClosed
  <2> SUFFICES ASSUME IInv, phase = "error" PROVE SoundOpen = {}
    BY SoundSessions DEF FailedStaysClosed, IInv
  <2>1. CASE operation \notin outlived
    BY <2>1 DEF IInv, Media, FailedIsDead, Dead
  <2>2. CASE operation \in outlived
    BY <2>2 DEF IInv
  <2> QED BY <2>1, <2>2
<1> QED BY <1>1, Invariance, PTL
-----------------------------------------------------------------------------
(* Who pays for a call *)

\* An attempt that may still have a call created.
Beginning(n) == At(n, "preparing") \/ At(n, "starting")

OpOf(n) == attempts[n].op

\* A continuation that will clear callId when the hang-up succeeds.
Clears(e) == e.by # "finish"

\* callId names a call of the given operation.
Names(op) == callId # 0 /\ OpOf(callId) = op

\* A sound operation has at most one attempt under way, and callId and the
\* continuations that will clear it speak of a call of another operation until
\* that attempt has its own.
OneBegins ==
  \A n \in DOMAIN attempts : Beginning(n) /\ Sound(n) =>
    /\ ~Names(OpOf(n))
    /\ \A m \in DOMAIN attempts : Beginning(m) /\ OpOf(m) = OpOf(n) => m = n
    /\ \A e \in ending : Clears(e) => OpOf(e.call) # OpOf(n)

\* What such a continuation clears is the call it awaits, or one of another
\* operation.
ClearsItsOwn ==
  \A e \in ending : Clears(e) =>
    /\ OpOf(e.call) <= e.op
    /\ Sound(e.call) /\ Names(OpOf(e.call)) => callId = e.call

\* A loop in its delay has given its operation's call up.
LoopHasNoCall ==
  loop.op = operation /\ loop.at = "delay" /\ operation \notin outlived => ~Names(operation)


\* The four that say whose call callId and each hang-up speak of.
Linked == calls \subseteq DOMAIN attempts /\ OneBegins /\ ClearsItsOwn /\ LoopHasNoCall

Hangups == Linked /\ CallsHungUp

\* No attempt begins or changes its operation, and no operation becomes sound.
NoneBegins ==
  /\ DOMAIN attempts' = DOMAIN attempts /\ outlived \subseteq outlived'
  /\ \A n \in DOMAIN attempts : OpOf(n)' = OpOf(n) /\ (Beginning(n)' => Beginning(n))

LEMMA EffectBegins ==
  ASSUME Base, outlived \subseteq outlived',
         NEW n, NEW next, NEW ab, NEW open, Effect(attempts', n, next, ab, open),
         n \in DOMAIN attempts =>
           next \notin {"preparing", "starting"} \/ (next = "starting" /\ At(n, "preparing"))
  PROVE  NoneBegins
<1>1. /\ DOMAIN attempts' = DOMAIN attempts
      /\ \A m \in DOMAIN attempts :
           /\ attempts'[m].op = attempts[m].op
           /\ attempts'[m].at = IF m = n THEN next ELSE attempts[m].at
  BY EffectFields DEF Base
<1> QED BY <1>1 DEF NoneBegins, OpOf, Beginning, At

\* The calls callId and the hang-ups speak of are attempts, none later than the
\* latest operation.
LEMMA CallFacts ==
  ASSUME Base
  PROVE  /\ callId # 0 => callId \in DOMAIN attempts /\ OpOf(callId) <= operation
         /\ \A e \in ending : e.call \in DOMAIN attempts /\ e.op <= operation /\ e \in Ending
         /\ operation \in Nat /\ 0 \notin DOMAIN attempts
         /\ \A n \in DOMAIN attempts : OpOf(n) \in Nat /\ OpOf(n) <= operation
BY Scalars DEF OpOf, Ending, Ids

\* A step that lets callId be, or clears it, and asks for hang-ups of the call it
\* names or of one finishCall will not clear.
LEMMA LinkedKept ==
  ASSUME Base, Linked, NoneBegins, callId' \in {callId, 0}, calls' \subseteq calls,
         \A e \in ending' :
           \/ e \in ending
           \/ ~Clears(e)
           \/ callId # 0 /\ e.call = callId /\ OpOf(callId) <= e.op,
         \/ UNCHANGED <<operation, loop>>
         \/ loop' = NoLoop
         \/ callId' = 0
         \/ loop'.op # operation'
  PROVE  Linked'
<1>1. calls' \subseteq DOMAIN attempts'
  BY DEF Linked, NoneBegins
<1>3. \A e \in ending : OpOf(e.call)' = OpOf(e.call)
  BY CallFacts DEF NoneBegins
<1>4. \A n \in DOMAIN attempts : Sound(n)' => Sound(n)
  BY DEF Sound, NoneBegins, OpOf
<1>5. OneBegins'
  <2> SUFFICES ASSUME NEW n \in DOMAIN attempts', Beginning(n)', Sound(n)'
               PROVE  /\ ~Names(OpOf(n))'
                      /\ \A m \in DOMAIN attempts' : Beginning(m)' /\ OpOf(m)' = OpOf(n)' => m = n
                      /\ \A e \in ending' : Clears(e) => OpOf(e.call)' # OpOf(n)'
    BY DEF OneBegins, Clears
  <2>1. n \in DOMAIN attempts /\ Beginning(n) /\ Sound(n) /\ OpOf(n)' = OpOf(n)
    BY <1>4 DEF NoneBegins
  <2>2. /\ ~Names(OpOf(n))
        /\ \A m \in DOMAIN attempts : Beginning(m) /\ OpOf(m) = OpOf(n) => m = n
        /\ \A e \in ending : Clears(e) => OpOf(e.call) # OpOf(n)
    BY <2>1 DEF Linked, OneBegins
  <2>3. ~Names(OpOf(n))'
    <3>1. ~(callId' # 0 /\ OpOf(callId)' = OpOf(n)')
      BY <2>1, <2>2, CallFacts DEF Names, NoneBegins, OpOf
    <3> QED BY <3>1 DEF Names, OpOf
  <2>4. \A e \in ending' : Clears(e) => OpOf(e.call)' # OpOf(n)'
    <3> SUFFICES ASSUME NEW e \in ending', Clears(e) PROVE OpOf(e.call)' # OpOf(n)'
      OBVIOUS
    <3>1. CASE e \in ending
      BY <1>3, <2>1, <2>2, <3>1
    <3>2. CASE callId # 0 /\ e.call = callId
      <4>1. OpOf(e.call)' = OpOf(callId) /\ OpOf(callId) # OpOf(n)
        BY <2>2, <3>2, CallFacts DEF Names, NoneBegins, OpOf
      <4> QED BY <2>1, <4>1
    <3> QED BY <3>1, <3>2
  <2> QED BY <2>1, <2>2, <2>3, <2>4 DEF NoneBegins
<1>6. ClearsItsOwn'
  <2> SUFFICES ASSUME NEW e \in ending', Clears(e)
               PROVE  /\ OpOf(e.call)' <= e.op
                      /\ Sound(e.call)' /\ Names(OpOf(e.call))' => callId' = e.call
    BY DEF ClearsItsOwn, Clears
  <2>1. CASE e \in ending
    <3>1. /\ OpOf(e.call) <= e.op
          /\ Sound(e.call) /\ Names(OpOf(e.call)) => callId = e.call
      BY <2>1 DEF Linked, ClearsItsOwn
    <3>2. Sound(e.call)' => Sound(e.call)
      BY <1>4, <2>1, CallFacts
    <3>3. Names(OpOf(e.call))' => Names(OpOf(e.call)) /\ callId' = callId
      BY <1>3, <2>1, CallFacts DEF Names, NoneBegins, OpOf
    <3> QED BY <1>3, <2>1, <3>1, <3>2, <3>3
  <2>2. CASE callId # 0 /\ e.call = callId /\ OpOf(callId) <= e.op
    <3>1. OpOf(e.call)' = OpOf(callId)
      BY <2>2, CallFacts DEF NoneBegins, OpOf
    <3>2. Names(OpOf(e.call))' => callId' = e.call
      BY <2>2 DEF Names
    <3> QED BY <2>2, <3>1, <3>2
  <2> QED BY <2>1, <2>2
<1>7. LoopHasNoCall'
  <2>1. CASE UNCHANGED <<operation, loop>>
    <3>1. Names(operation)' => Names(operation)
      BY <2>1, CallFacts DEF Names, NoneBegins, OpOf
    <3> QED BY <2>1, <3>1 DEF Linked, LoopHasNoCall, NoneBegins
  <2>2. CASE loop' = NoLoop
    BY <2>2 DEF LoopHasNoCall, NoLoop
  <2>3. CASE callId' = 0
    BY <2>3 DEF LoopHasNoCall, Names
  <2>4. CASE loop'.op # operation'
    BY <2>4 DEF LoopHasNoCall
  <2> QED BY <2>1, <2>2, <2>3, <2>4
<1> QED BY <1>1, <1>5, <1>6, <1>7 DEF Linked

\* A step that creates no call and lets callId be.
LEMMA AccountsKept ==
  ASSUME Base, Linked, CallsHungUp, outlived \subseteq outlived',
         \A n \in DOMAIN attempts : n \in DOMAIN attempts' /\ OpOf(n)' = OpOf(n),
         UNCHANGED <<callId, calls>>, forgotten \subseteq forgotten', refused \subseteq refused',
         \A e \in ending : e.by = "finish" => e \in ending',
         \/ UNCHANGED <<phase, cleanupPending>>
         \/ callId = 0
         \/ phase' \notin {"idle", "error"}
         \/ phase' = "error" /\ cleanupPending'
  PROVE  CallsHungUp'
<1>1. \A n \in DOMAIN attempts : Sound(n)' => Sound(n)
  BY DEF Sound, OpOf
<1>2. \A n : HungUpBy({"finish"}, n) => HungUpBy({"finish"}, n)'
  BY DEF HungUpBy
<1>3. CallsAccountedFor'
  BY <1>1, <1>2 DEF CallsHungUp, CallsAccountedFor, Linked
<1>4. CleanupVisible'
  <2>1. callId # 0 => (Sound(callId)' => Sound(callId))
    BY <1>1, CallFacts DEF Sound
  <2> QED BY <1>2, <2>1 DEF CallsHungUp, CleanupVisible
<1> QED BY <1>3, <1>4 DEF CallsHungUp

\* A step that concerns neither.
LEMMA QuietKeepsHangups ==
  ASSUME Base, Hangups, outlived \subseteq outlived',
         NEW n, NEW next, NEW ab, NEW open, Effect(attempts', n, next, ab, open),
         n \in DOMAIN attempts =>
           next \notin {"preparing", "starting"} \/ (next = "starting" /\ At(n, "preparing")),
         UNCHANGED <<operation, callId, ending, calls, refused, forgotten>>,
         UNCHANGED loop \/ loop' = NoLoop,
         \/ UNCHANGED <<phase, cleanupPending>>
         \/ callId = 0
         \/ phase' \notin {"idle", "error"}
         \/ phase' = "error" /\ cleanupPending'
  PROVE  Hangups'
<1>1. NoneBegins
  BY EffectBegins
<1>2. Linked'
  BY <1>1, LinkedKept DEF Hangups
<1>3. CallsHungUp'
  BY <1>1, AccountsKept DEF Hangups, NoneBegins
<1> QED BY <1>2, <1>3 DEF Hangups

LEMMA PrepareKeepsHangups ==
  ASSUME Base, Hangups, outlived \subseteq outlived', NEW n \in DOMAIN attempts, PrepareResolves(n)
  PROVE  Hangups'
<1>1. At(n, "preparing") /\ UNCHANGED <<operation, callId, ending, calls, refused, forgotten>>
  BY DEF PrepareResolves, history
<1>2. CASE IsCurrent(attempts[n].op)
  <2>1. Effect(attempts', n, "starting", {}, {m \in SoundOpen \cup {n} : Sound(m)})
    BY <1>2, PrepareEffect DEF Base
  <2>2. UNCHANGED loop /\ phase' = "connecting"
    BY <1>2 DEF PrepareResolves, recovery, Patch
  <2>3. PICK open : Effect(attempts', n, "starting", {}, open)
    BY <2>1
  <2> QED BY <1>1, <2>2, <2>3, QuietKeepsHangups
<1>3. CASE ~IsCurrent(attempts[n].op)
  <2>1. Effect(attempts', n, "over", {}, SoundOpen)
    BY <1>3, PrepareEffect DEF Base
  <2>2. Returned(n) /\ UNCHANGED state
    BY <1>3 DEF PrepareResolves
  <2>3. UNCHANGED loop \/ loop' = NoLoop
    BY <2>2 DEF Returned, LeaveLoop, recovery
  <2> QED BY <1>1, <2>1, <2>2, <2>3, QuietKeepsHangups DEF state
<1> QED BY <1>2, <1>3

LEMMA ConnectKeepsHangups ==
  ASSUME Base, Hangups, outlived \subseteq outlived', NEW n \in DOMAIN attempts, ConnectResolves(n)
  PROVE  Hangups'
<1>1. UNCHANGED <<operation, callId, ending, calls, refused, forgotten>>
  BY DEF ConnectResolves, history
<1>2. Effect(attempts', n, "over", {}, SoundOpen)
  BY OverEffect DEF ConnectResolves, Base
<1>3. UNCHANGED loop \/ loop' = NoLoop
  BY DEF ConnectResolves, Returned, LeaveLoop, recovery
<1>4. UNCHANGED <<phase, cleanupPending>> \/ phase' = "listening"
  BY DEF ConnectResolves, Patch, state
<1> QED BY <1>1, <1>2, <1>3, <1>4, QuietKeepsHangups

\* The call callId named is of another operation, and is marked; the new one is
\* of an attempt no hang-up speaks of, and of no failed or stopped operation, or
\* finishCall has its hang-up.
LEMMA StartResolvesKeepsHangups ==
  ASSUME IInv, Hangups, outlived \subseteq outlived', NEW n \in DOMAIN attempts, StartResolves(n)
  PROVE  Hangups'
<1> DEFINE e0 == [by |-> "finish", call |-> n, op |-> attempts[n].op]
<1>1. /\ At(n, "starting") /\ Base /\ n \in Ids /\ n # 0
      /\ callId' = n /\ calls' = calls \cup {n}
      /\ forgotten' = forgotten \cup {m \in {callId} \ {0} : OpOf(m) # OpOf(n)}
      /\ UNCHANGED <<state, operation, recovery, refused>>
  BY Scalars DEF StartResolves, Loses, OpOf, IInv, Ids
<1>2. \/ IsCurrent(attempts[n].op) /\ ending' = ending
      \/ ~IsCurrent(attempts[n].op) /\ ending' = ending \cup {e0}
  BY DEF StartResolves
<1>3. PICK next : Effect(attempts', n, next, {}, SoundOpen) /\ next \in {"connecting", "finishing"}
  BY <1>1, StartEffect DEF Base
<1>4. e0.by = "finish" /\ e0.call = n
  OBVIOUS
<1> HIDE DEF e0
<1>5. NoneBegins /\ ~Beginning(n)'
  <2>1. NoneBegins
    BY <1>1, <1>3, EffectBegins
  <2>2. attempts'[n].at = next
    BY <1>1, <1>3, EffectFields, Scalars DEF Base
  <2> QED BY <1>3, <2>1, <2>2 DEF Beginning, At
<1>6. Beginning(n) /\ OpOf(n)' = OpOf(n)
  BY <1>1, <1>5 DEF Beginning, NoneBegins
<1>7. \A m \in DOMAIN attempts : Sound(m)' => Sound(m)
  BY <1>5 DEF Sound, NoneBegins, OpOf
<1>8. \A e \in ending' : Clears(e) => e \in ending
  BY <1>2, <1>4 DEF Clears
<1>9. Sound(n)' =>
        /\ ~Names(OpOf(n))
        /\ \A m \in DOMAIN attempts : Beginning(m) /\ OpOf(m) = OpOf(n) => m = n
        /\ \A e \in ending : Clears(e) => OpOf(e.call) # OpOf(n)
  BY <1>6, <1>7 DEF Hangups, Linked, OneBegins
<1>10. OneBegins'
  <2> SUFFICES ASSUME NEW m \in DOMAIN attempts', Beginning(m)', Sound(m)'
               PROVE  /\ ~Names(OpOf(m))'
                      /\ \A k \in DOMAIN attempts' : Beginning(k)' /\ OpOf(k)' = OpOf(m)' => k = m
                      /\ \A e \in ending' : Clears(e) => OpOf(e.call)' # OpOf(m)'
    BY DEF OneBegins, Clears
  <2>1. m \in DOMAIN attempts /\ Beginning(m) /\ Sound(m) /\ OpOf(m)' = OpOf(m) /\ m # n
    BY <1>5, <1>7 DEF NoneBegins
  <2>2. /\ \A k \in DOMAIN attempts : Beginning(k) /\ OpOf(k) = OpOf(m) => k = m
        /\ \A e \in ending : Clears(e) => OpOf(e.call) # OpOf(m)
    BY <2>1 DEF Hangups, Linked, OneBegins
  <2>3. OpOf(n)' # OpOf(m)'
    BY <1>6, <2>1, <2>2
  <2>4. ~Names(OpOf(m))'
    BY <1>1, <2>3 DEF Names, OpOf
  <2>5. \A e \in ending' : Clears(e) => OpOf(e.call)' # OpOf(m)'
    BY <1>1, <1>5, <1>8, <2>1, <2>2, CallFacts DEF NoneBegins
  <2> QED BY <1>5, <2>1, <2>2, <2>4, <2>5 DEF NoneBegins
<1>11. ClearsItsOwn'
  <2> SUFFICES ASSUME NEW e \in ending', Clears(e)
               PROVE  /\ OpOf(e.call)' <= e.op
                      /\ Sound(e.call)' /\ Names(OpOf(e.call))' => callId' = e.call
    BY DEF ClearsItsOwn, Clears
  <2>1. e \in ending /\ OpOf(e.call)' = OpOf(e.call) /\ OpOf(e.call) <= e.op
    BY <1>1, <1>5, <1>8, CallFacts DEF NoneBegins, Hangups, Linked, ClearsItsOwn
  <2>2. Sound(e.call)' => ~Names(OpOf(e.call))'
    <3> SUFFICES ASSUME Sound(e.call)', OpOf(n)' = OpOf(e.call)' PROVE FALSE
      BY <1>1 DEF Names, OpOf
    <3>1. Sound(n)'
      BY DEF Sound, OpOf
    <3> QED BY <1>6, <1>9, <2>1, <3>1
  <2> QED BY <2>1, <2>2
<1>12. LoopHasNoCall'
  <2> SUFFICES ASSUME loop.op = operation, loop.at = "delay", operation \notin outlived
               PROVE  OpOf(n) # operation
    BY <1>1, <1>5, <1>6 DEF LoopHasNoCall, Names, OpOf, recovery, NoneBegins
  <2> QED BY <1>1 DEF IInv, Media, LoopAlone, Spent, At, Current, OpOf
<1>13. CallsAccountedFor'
  <2> SUFFICES ASSUME NEW m \in calls, Sound(m)', m \notin forgotten', m # n
               PROVE  HungUpBy({"finish"}, m)'
    BY <1>1 DEF CallsAccountedFor
  <2>1. m \in DOMAIN attempts /\ Sound(m) /\ m \notin forgotten
    BY <1>1, <1>7 DEF Hangups, Linked
  <2>2. m # callId
    <3> SUFFICES ASSUME m = callId PROVE FALSE
      OBVIOUS
    <3>1. callId # 0 /\ OpOf(callId) = OpOf(n)
      BY <1>1, <2>1, CallFacts
    <3>2. Sound(n)'
      BY <1>5, <1>6, <2>1, <3>1 DEF Sound, OpOf, NoneBegins
    <3> QED BY <1>9, <3>1, <3>2 DEF Names
  <2>3. HungUpBy({"finish"}, m)
    BY <2>1, <2>2 DEF Hangups, CallsHungUp, CallsAccountedFor
  <2> QED BY <1>2, <2>3 DEF HungUpBy
<1>14. CleanupVisible'
  <2> SUFFICES ASSUME phase \in {"idle", "error"}, Sound(n)'
               PROVE  HungUpBy({"finish"}, n)'
    BY <1>1 DEF CleanupVisible, state
  <2>1. OpOf(n) # operation
    <3> SUFFICES ASSUME OpOf(n) = operation PROVE FALSE
      OBVIOUS
    <3>1. Sound(n) /\ operation \notin outlived
      BY <1>7 DEF Sound, OpOf
    <3>2. Dead
      BY <3>1 DEF IInv, Media, FailedIsDead, StoppedIsSilent, Silent
    <3> QED BY <1>1, <3>2 DEF Dead, Spent, At, Current, OpOf
  <2>2. ~IsCurrent(attempts[n].op)
    BY <2>1 DEF IsCurrent, OpOf
  <2> QED BY <1>2, <1>4, <2>2 DEF HungUpBy
<1>15. calls' \subseteq DOMAIN attempts'
  BY <1>1, <1>5 DEF NoneBegins, Hangups, Linked
<1> QED BY <1>10, <1>11, <1>12, <1>13, <1>14, <1>15 DEF Hangups, Linked, CallsHungUp

LEMMA FailKeepsHangups ==
  ASSUME Base, Hangups, outlived \subseteq outlived',
         NEW n, NEW att, NEW next, Effect(att, n, next, {}, SoundOpen), next \in {"none", "over"},
         NEW by \in {"fail", "failLoop"}, Fail(operation, att, by)
  PROVE  Hangups'
<1> DEFINE e0 == [by |-> by, call |-> callId, op |-> operation]
<1>1. UNCHANGED <<operation, callId, calls, refused, forgotten>>
  BY DEF Fail
<1>2. UNCHANGED loop \/ loop' = NoLoop
  BY DEF Fail, LeaveLoop, recovery
<1>3. PICK ab, open : Effect(attempts', n, next, ab, open)
  <2>1. attempts' = att \/ attempts' = Shut(att)
    BY DEF Fail
  <2>2. Effect(Shut(att), n, next, {abortController}, SoundOpen \ {transportSession})
    BY ShutEffect DEF Base
  <2> QED BY <2>1, <2>2
<1>4. NoneBegins
  BY <1>3, EffectBegins
<1>5. ending' = ending \/ (callId # 0 /\ ending' = ending \cup {e0})
  BY DEF Fail
<1>6. e0.by = by /\ e0.call = callId /\ e0.op = operation
  OBVIOUS
<1>7. UNCHANGED <<phase, cleanupPending>> \/ callId = 0
  BY DEF Fail, state
<1> HIDE DEF e0
<1>8. Linked'
  <2>1. \A e \in ending' : e \in ending \/ (callId # 0 /\ e.call = callId /\ OpOf(callId) <= e.op)
    BY <1>5, <1>6, CallFacts
  <2> QED BY <1>1, <1>2, <1>4, <2>1, LinkedKept DEF Hangups
<1>9. CallsHungUp'
  BY <1>1, <1>4, <1>5, <1>7, AccountsKept DEF Hangups, NoneBegins
<1> QED BY <1>8, <1>9 DEF Hangups

\* A re-offer gives its call up to finishCall.
LEMMA ReofferKeepsHangups ==
  ASSUME Base, Hangups, outlived \subseteq outlived',
         NEW n, NEW att, NEW next, Effect(att, n, next, {}, SoundOpen), next \in {"none", "over"},
         NEW op, NEW k, Reoffer(op, k, att)
  PROVE  Hangups'
<1> DEFINE e0 == [by |-> "finish", call |-> callId, op |-> op]
<1>1. /\ attempts' = Shut(att) /\ phase' = "reconnecting" /\ callId' = 0
      /\ UNCHANGED <<operation, calls, history>>
      /\ ending' = IF callId = 0 THEN ending ELSE ending \cup {e0}
  BY DEF Reoffer, Patch
<1>2. e0.by = "finish" /\ e0.call = callId
  OBVIOUS
<1> HIDE DEF e0
<1>3. NoneBegins
  <2>1. Effect(attempts', n, next, {abortController}, SoundOpen \ {transportSession})
    BY <1>1, ShutEffect DEF Base
  <2> QED BY <2>1, EffectBegins
<1>4. Linked'
  <2>1. \A e \in ending' : e \in ending \/ ~Clears(e)
    BY <1>1, <1>2 DEF Clears
  <2> QED BY <1>1, <1>3, <2>1, LinkedKept DEF Hangups
<1>5. CallsAccountedFor'
  <2> SUFFICES ASSUME NEW m \in calls, Sound(m)', m \notin forgotten
               PROVE  HungUpBy({"finish"}, m)'
    BY <1>1 DEF CallsAccountedFor, history
  <2>1. m \in DOMAIN attempts
    BY DEF Hangups, Linked
  <2>2. Sound(m)
    BY <1>3, <2>1 DEF NoneBegins, Sound, OpOf
  <2>3. m = callId \/ HungUpBy({"finish"}, m)
    BY <2>2 DEF Hangups, CallsHungUp, CallsAccountedFor
  <2> QED BY <1>1, <1>2, <2>1, <2>3, CallFacts DEF HungUpBy
<1>6. CleanupVisible'
  BY <1>1 DEF CleanupVisible
<1> QED BY <1>4, <1>5, <1>6 DEF Hangups, CallsHungUp

LEMMA ThrowsKeepsHangups ==
  ASSUME Base, Hangups, outlived \subseteq outlived', NEW n \in DOMAIN attempts, EstablishThrows(n)
  PROVE  Hangups'
<1>1. Effect(Over(n), n, "over", {}, SoundOpen)
  BY OverEffect DEF Base
<1>2. CASE /\ attempts' = Over(n) /\ (UNCHANGED loop \/ loop' = NoLoop)
           /\ UNCHANGED <<state, operation, callId, ending, calls, refused, forgotten>>
  BY <1>1, <1>2, QuietKeepsHangups DEF state
<1>3. CASE \E by \in {"fail", "failLoop"} : Fail(operation, Over(n), by)
  BY <1>1, <1>3, FailKeepsHangups
<1>4. CASE \E op, k : Reoffer(op, k, Over(n))
  BY <1>1, <1>4, ReofferKeepsHangups
<1>5. CASE StartThrows(n, attempts[n].op)
  BY <1>2, <1>3, <1>5 DEF StartThrows, IsCurrent, history, recovery
<1>6. CASE ReofferThrows(n, attempts[n].op)
  BY <1>2, <1>3, <1>4, <1>6 DEF ReofferThrows, LeaveLoop, history
<1> QED BY <1>5, <1>6 DEF EstablishThrows

\* The new attempt's operation is new.
LEMMA StartKeepsHangups ==
  ASSUME Base, Hangups, outlived \subseteq outlived', Start
  PROVE  Hangups'
<1>1. CASE callId # 0
  <2>1. /\ phase' = "error" /\ cleanupPending' /\ attempts' = attempts
        /\ UNCHANGED <<operation, callId, loop, ending, calls, refused, forgotten>>
    BY <1>1 DEF Start, recovery, history
  <2>2. Effect(attempts', 0, "none", {}, SoundOpen)
    BY <2>1, SameEffect DEF Base
  <2> QED BY <2>1, <2>2, QuietKeepsHangups
<1>2. CASE callId = 0
  <2>1. /\ operation' = operation + 1 /\ NewAttempt(operation + 1, "start")
        /\ operation + 1 \in Operations
        /\ UNCHANGED <<callId, recovery, ending, calls, history>>
        /\ phase' = "requesting_permission"
    BY <1>2, ControllerConstants, Scalars DEF Start, Reset, Operations
  <2>2. PICK new : /\ attempts' \in Seq(Attempt) /\ Len(attempts') = new /\ new = Len(attempts) + 1
                   /\ \A m \in DOMAIN attempts : attempts'[m] = attempts[m]
                   /\ attempts'[new].op = operation + 1
    BY <2>1, NewAttemptEffect DEF Base
  <2>3. DOMAIN attempts' = DOMAIN attempts \cup {new}
    BY <2>2, LenProperties, Scalars
  <2>4. \A m \in DOMAIN attempts : /\ OpOf(m)' = OpOf(m) /\ OpOf(m) # operation + 1
                                   /\ (Beginning(m)' <=> Beginning(m))
                                   /\ (Sound(m)' <=> Sound(m))
    BY <2>1, <2>2, Scalars DEF OpOf, Beginning, At, Sound, history
  <2>5. OpOf(new)' = operation + 1
    BY <2>2 DEF OpOf
  <2>6. \A e \in ending : e.call \in DOMAIN attempts
    BY CallFacts
  <2>7. OneBegins'
    <3> SUFFICES ASSUME NEW m \in DOMAIN attempts', Beginning(m)', Sound(m)'
                 PROVE  /\ \A k \in DOMAIN attempts' :
                             Beginning(k)' /\ OpOf(k)' = OpOf(m)' => k = m
                        /\ \A e \in ending : Clears(e) => OpOf(e.call)' # OpOf(m)'
      BY <1>2, <2>1 DEF OneBegins, Clears, Names
    <3>1. CASE m = new
      BY <2>3, <2>4, <2>5, <2>6, <3>1
    <3>2. CASE m \in DOMAIN attempts
      <4>1. /\ \A k \in DOMAIN attempts : Beginning(k) /\ OpOf(k) = OpOf(m) => k = m
            /\ \A e \in ending : Clears(e) => OpOf(e.call) # OpOf(m)
        BY <2>4, <3>2 DEF Hangups, Linked, OneBegins
      <4> QED BY <2>3, <2>4, <2>5, <2>6, <3>2, <4>1
    <3> QED BY <2>3, <3>1, <3>2
  <2>8. ClearsItsOwn'
    BY <1>2, <2>1, <2>4, <2>6 DEF ClearsItsOwn, Hangups, Linked, Names, Clears
  <2>9. LoopHasNoCall' /\ CleanupVisible' /\ calls' \subseteq DOMAIN attempts'
    BY <1>2, <2>1, <2>3 DEF LoopHasNoCall, Names, CleanupVisible, Hangups, Linked
  <2>10. CallsAccountedFor'
    BY <2>1, <2>4 DEF CallsAccountedFor, Hangups, Linked, CallsHungUp, HungUpBy, history
  <2> QED BY <2>7, <2>8, <2>9, <2>10 DEF Hangups, Linked, CallsHungUp
<1> QED BY <1>1, <1>2

LEMMA StopKeepsHangups ==
  ASSUME Base, Hangups, outlived \subseteq outlived', Stop
  PROVE  Hangups'
<1> DEFINE e0 == [by |-> "stop", call |-> callId, op |-> operation + 1]
<1>1. /\ operation' = operation + 1
      /\ UNCHANGED <<callId, recovery, calls, refused, forgotten>>
  BY DEF Stop, history
<1>2. \/ callId = 0 /\ ending' = ending
      \/ callId # 0 /\ ending' = ending \cup {e0} /\ phase' = "stopping"
  BY DEF Stop, Patch
<1>3. e0.by = "stop" /\ e0.call = callId /\ e0.op = operation + 1
  OBVIOUS
<1> HIDE DEF e0
<1>4. NoneBegins
  <2>1. Effect(attempts', 0, "none", {abortController}, SoundOpen \ {transportSession})
    BY SameEffect, ShutEffect DEF Stop, Base
  <2> QED BY <2>1, EffectBegins
<1>5. \A e \in ending' : e \in ending \/ (callId # 0 /\ e.call = callId /\ OpOf(callId) <= e.op)
  BY <1>2, <1>3, CallFacts
<1>6. loop'.op # operation'
  BY <1>1, Scalars DEF recovery, Base, Numbered, TypeOK, Operations
<1>7. Linked'
  BY <1>1, <1>4, <1>5, <1>6, LinkedKept DEF Hangups
<1>8. CallsHungUp'
  BY <1>1, <1>2, <1>4, AccountsKept DEF Hangups, NoneBegins
<1> QED BY <1>7, <1>8 DEF Hangups

\* The loop has no call and, while in its delay, no hang-up that would clear one.
LEMMA LoopWakesKeepsHangups ==
  ASSUME IInv, Hangups, outlived \subseteq outlived', LoopWakes
  PROVE  Hangups'
<1>1. Base
  BY DEF IInv
<1>2. CASE loop.op = operation
  <2>1. /\ loop.at = "delay" /\ NewAttempt(operation, "loop")
        /\ loop' = [loop EXCEPT !.at = "establishing"]
        /\ UNCHANGED <<state, operation, callId, ending, calls, history>>
    BY <1>2 DEF LoopWakes
  <2>2. loop'.at = "establishing"
    BY <1>1, <2>1 DEF Base, TypeOK
  <2>3. PICK new : /\ attempts' \in Seq(Attempt) /\ Len(attempts') = new /\ new = Len(attempts) + 1
                   /\ \A m \in DOMAIN attempts : attempts'[m] = attempts[m]
                   /\ attempts'[new].op = operation
    BY <1>1, <2>1, NewAttemptEffect, Scalars DEF Base
  <2>4. DOMAIN attempts' = DOMAIN attempts \cup {new}
    BY <1>1, <2>3, LenProperties, Scalars
  <2>5. \A m \in DOMAIN attempts : /\ OpOf(m)' = OpOf(m)
                                   /\ (Beginning(m)' <=> Beginning(m))
                                   /\ (Sound(m)' <=> Sound(m))
    BY <2>1, <2>3 DEF OpOf, Beginning, At, Sound, history
  <2>6. OpOf(new)' = operation
    BY <2>3 DEF OpOf
  <2>7. /\ \A e \in ending : e.call \in DOMAIN attempts
        /\ callId # 0 => callId \in DOMAIN attempts
    BY <1>1, CallFacts
  <2>8. operation \notin outlived =>
          /\ ~Names(operation)
          /\ \A m \in DOMAIN attempts : Beginning(m) => OpOf(m) # operation
          /\ \A e \in ending : Clears(e) => OpOf(e.call) # operation
    <3> SUFFICES ASSUME operation \notin outlived
                 PROVE  /\ ~Names(operation)
                        /\ \A m \in DOMAIN attempts : Beginning(m) => OpOf(m) # operation
                        /\ \A e \in ending : Clears(e) => OpOf(e.call) # operation
      OBVIOUS
    <3>1. ~Names(operation)
      BY <1>2, <2>1 DEF Hangups, Linked, LoopHasNoCall
    <3>2. \A m \in DOMAIN attempts : Beginning(m) => OpOf(m) # operation
      BY <1>2, <2>1 DEF IInv, Media, LoopAlone, Spent, Beginning, At, Current, OpOf
    <3>3. ASSUME NEW e \in ending, Clears(e), OpOf(e.call) = operation PROVE FALSE
      <4>1. e.op = operation
        BY <1>1, <3>3, CallFacts, Scalars DEF Hangups, Linked, ClearsItsOwn
      <4>2. e.by \in {"stop", "fail", "failLoop"}
        BY <1>1, <3>3, CallFacts DEF Ending, Clears
      <4>3. Dead
        BY <4>1, <4>2 DEF IInv, Media, FailedIsDead, StoppedIsSilent, Silent
      <4> QED BY <1>2, <2>1, <4>3 DEF Dead
    <3> QED BY <3>1, <3>2, <3>3
  <2>9. OneBegins'
    <3> SUFFICES ASSUME NEW m \in DOMAIN attempts', Beginning(m)', Sound(m)'
                 PROVE  /\ ~Names(OpOf(m))'
                        /\ \A k \in DOMAIN attempts' :
                             Beginning(k)' /\ OpOf(k)' = OpOf(m)' => k = m
                        /\ \A e \in ending : Clears(e) => OpOf(e.call)' # OpOf(m)'
      BY <2>1 DEF OneBegins, Clears
    <3>1. callId # 0 => OpOf(callId)' = OpOf(callId)
      BY <2>1, <2>5, <2>7 DEF OpOf
    <3>2. CASE m = new
      <4>1. operation \notin outlived /\ OpOf(m)' = operation
        BY <2>1, <2>6, <3>2 DEF Sound, OpOf, history
      <4>2. ~(callId # 0 /\ OpOf(callId)' = operation)
        BY <2>8, <3>1, <4>1 DEF Names
      <4>3. ~Names(OpOf(m))'
        BY <2>1, <4>1, <4>2 DEF Names, OpOf
      <4> QED BY <2>4, <2>5, <2>7, <2>8, <3>2, <4>1, <4>3
    <3>3. CASE m \in DOMAIN attempts
      <4>1. /\ ~Names(OpOf(m))
            /\ \A k \in DOMAIN attempts : Beginning(k) /\ OpOf(k) = OpOf(m) => k = m
            /\ \A e \in ending : Clears(e) => OpOf(e.call) # OpOf(m)
        BY <2>5, <3>3 DEF Hangups, Linked, OneBegins
      <4>2. ~(callId # 0 /\ OpOf(callId)' = OpOf(m)')
        BY <2>5, <3>1, <3>3, <4>1 DEF Names
      <4>3. ~Names(OpOf(m))'
        BY <2>1, <4>2 DEF Names, OpOf
      <4>4. OpOf(m)' # operation
        <5> SUFFICES ASSUME OpOf(m) = operation PROVE FALSE
          BY <2>5, <3>3
        <5>1. operation \notin outlived /\ Beginning(m)
          BY <2>5, <3>3 DEF Sound, OpOf
        <5> QED BY <2>8, <3>3, <5>1
      <4> QED BY <2>4, <2>5, <2>6, <2>7, <3>3, <4>1, <4>3, <4>4
    <3> QED BY <2>4, <3>2, <3>3
  <2>10. ClearsItsOwn'
    <3> SUFFICES ASSUME NEW e \in ending, Clears(e)
                 PROVE  /\ OpOf(e.call)' <= e.op
                        /\ Sound(e.call)' /\ Names(OpOf(e.call))' => callId = e.call
      BY <2>1 DEF ClearsItsOwn, Clears
    <3>1. Names(OpOf(e.call))' => Names(OpOf(e.call))
      BY <2>1, <2>5, <2>7 DEF Names, OpOf
    <3> QED BY <2>5, <2>7, <3>1 DEF ClearsItsOwn, Hangups, Linked
  <2>11. LoopHasNoCall' /\ calls' \subseteq DOMAIN attempts'
    BY <2>1, <2>2, <2>4 DEF LoopHasNoCall, Hangups, Linked
  <2>12. CallsHungUp'
    <3>1. \A m \in DOMAIN attempts : m \in DOMAIN attempts' /\ OpOf(m)' = OpOf(m)
      BY <2>4, <2>5
    <3> QED BY <1>1, <2>1, <3>1, AccountsKept DEF Hangups, state, history
  <2> QED BY <2>9, <2>10, <2>11, <2>12 DEF Hangups, Linked
<1>3. CASE loop.op # operation
  <2>1. /\ LeaveLoop /\ attempts' = attempts
        /\ UNCHANGED <<state, operation, callId, ending, calls, history>>
    BY <1>3 DEF LoopWakes
  <2>2. Effect(attempts', 0, "none", {}, SoundOpen)
    BY <1>1, <2>1, SameEffect DEF Base
  <2> QED BY <1>1, <2>1, <2>2, QuietKeepsHangups DEF LeaveLoop, state, history
<1> QED BY <1>2, <1>3

\* The hang-up that returns: its continuation clears its own call, or marks the
\* one it clears instead; a refused finishCall marks the call it leaves.
LEMMA EndedKeepsHangups ==
  ASSUME IInv, Hangups, NEW e \in ending, Ended(e)
  PROVE  Hangups'
<1>1. /\ ending' = ending \ {e} /\ UNCHANGED <<operation, outlived>> /\ Base
      /\ e.call \in DOMAIN attempts /\ e.call # 0 /\ e \in Ending
  BY CallFacts DEF Ended, IInv
<1>2. PICK ok \in BOOLEAN :
        /\ calls' = IF ok THEN calls \ {e.call} ELSE calls
        /\ callId' = IF ok THEN Forget(e) ELSE callId
        /\ refused' = IF ~ok /\ e.by = "finish" THEN refused \cup {e.call} ELSE refused
        /\ ok /\ callId' # callId => Loses(e.call)
        /\ ~ok /\ e.by = "finish" /\ callId # e.call => forgotten' = forgotten \cup {e.call}
        /\ forgotten \subseteq forgotten'
        /\ IF e.op # operation \/ e.by = "finish" THEN UNCHANGED <<state, failingOperation>>
           ELSE IF e.by = "stop" /\ ok THEN Reset("idle", FALSE) ELSE Reset("error", ~ok)
  BY DEF Ended, Loses
<1>3. PICK n \in {0, e.call}, next \in {"over", "none"} : Effect(attempts', n, next, {}, SoundOpen)
  <2>1. CASE attempts' = Over(e.call)
    BY <1>1, <2>1, OverEffect DEF Base
  <2>2. CASE attempts' = attempts
    BY <1>1, <2>2, SameEffect DEF Base
  <2> QED BY <2>1, <2>2 DEF Ended
<1>4. NoneBegins
  BY <1>1, <1>3, EffectBegins
<1>5. callId' \in {callId, 0}
  BY <1>2 DEF Forget
<1>6. UNCHANGED loop \/ loop' = NoLoop
  BY DEF Ended, Returned, LeaveLoop, recovery
<1>7. Linked'
  BY <1>1, <1>2, <1>4, <1>5, <1>6, LinkedKept DEF Hangups
<1>8. callId' # callId /\ e.by = "finish" => callId = e.call
  BY <1>2 DEF Forget
<1>9. \A m \in DOMAIN attempts : Sound(m)' <=> Sound(m)
  BY <1>1, <1>4 DEF Sound, NoneBegins, OpOf
<1>10. CallsAccountedFor'
  <2> SUFFICES ASSUME NEW m \in calls', Sound(m)', m \notin forgotten', m # callId'
               PROVE  HungUpBy({"finish"}, m)'
    BY DEF CallsAccountedFor
  <2>1. m \in calls /\ m \in DOMAIN attempts /\ Sound(m) /\ m \notin forgotten
    BY <1>2, <1>9 DEF Hangups, Linked
  <2>2. m # callId
    <3> SUFFICES ASSUME m = callId PROVE FALSE
      OBVIOUS
    <3>1. ok /\ callId' # callId /\ m # e.call /\ e.by # "finish"
      BY <1>2, <1>8
    <3>2. OpOf(m) = OpOf(e.call)
      BY <1>1, <1>2, <2>1, <3>1, CallFacts DEF Loses, OpOf
    <3>3. Sound(e.call) /\ Names(OpOf(e.call))
      BY <1>1, <2>1, <3>2, CallFacts DEF Sound, OpOf, Names
    <3> QED BY <3>1, <3>3 DEF Hangups, Linked, ClearsItsOwn, Clears
  <2>3. PICK f \in ending : f.by = "finish" /\ f.call = m
    BY <2>1, <2>2 DEF Hangups, CallsHungUp, CallsAccountedFor, HungUpBy
  <2>4. f # e
    BY <1>2, <2>1, <2>2, <2>3
  <2> QED BY <1>1, <2>3, <2>4 DEF HungUpBy
<1>11. CleanupVisible'
  <2> SUFFICES ASSUME phase' = "idle" \/ (phase' = "error" /\ ~cleanupPending'),
                      callId' # 0, Sound(callId)', callId' \notin refused'
               PROVE  HungUpBy({"finish"}, callId)'
    BY DEF CleanupVisible
  <2>1. callId' = callId /\ callId # 0 /\ Sound(callId)
    <3>1. callId' = callId /\ callId \in DOMAIN attempts
      BY <1>1, <1>5, CallFacts
    <3> QED BY <1>9, <3>1 DEF Sound
  <2>2. UNCHANGED state
    <3> SUFFICES ASSUME ~(e.op # operation \/ e.by = "finish") PROVE FALSE
      BY <1>2
    <3>1. e.by \in {"stop", "fail", "failLoop"} /\ e.op = operation
      BY <1>1 DEF Ending
    <3>2. ok
      BY <1>2, <3>1 DEF Reset
    <3> QED BY <1>2, <2>1, <3>1, <3>2 DEF Forget
  <2>3. callId \notin refused
    BY <1>2, <2>1
  <2>4. PICK f \in ending : f.by = "finish" /\ f.call = callId
    BY <2>1, <2>2, <2>3 DEF Hangups, CallsHungUp, CleanupVisible, HungUpBy, state
  <2>5. f # e
    BY <1>2, <2>1, <2>4 DEF Forget
  <2> QED BY <1>1, <2>1, <2>4, <2>5 DEF HungUpBy
<1> QED BY <1>7, <1>10, <1>11 DEF Hangups, CallsHungUp

LEMMA GraceKeepsHangups ==
  ASSUME Base, Hangups, outlived \subseteq outlived', GraceFires
  PROVE  Hangups'
<1>1. Effect(attempts, 0, "none", {}, SoundOpen)
  BY SameEffect DEF Base
<1>2. CASE \E op : Reoffer(op, 0, attempts)
  BY <1>1, <1>2, ReofferKeepsHangups
<1>3. CASE Idle
  <2>1. Effect(attempts', 0, "none", {}, SoundOpen)
    BY <1>1, <1>3 DEF Idle
  <2> QED BY <1>3, <2>1, QuietKeepsHangups DEF Idle, state, recovery, history
<1> QED BY <1>2, <1>3 DEF GraceFires, Reconnect

\* Events show something or mark a session, or make the call fail or re-offer.
LEMMA TransportKeepsHangups ==
  ASSUME Base, Hangups, outlived \subseteq outlived',
         NEW n \in DOMAIN attempts, TransportEvent(n) \/ PeerTimesOut(n)
  PROVE  Hangups'
<1> DEFINE att == [attempts EXCEPT ![n].lost = FALSE]
<1>1. Effect(att, 0, "none", {}, SoundOpen) /\ Effect(attempts, 0, "none", {}, SoundOpen)
  BY LostEffect, SameEffect DEF Base
<1>2. CASE Activity(n) \/ Connected(n) \/ Disconnected(n)
  <2>1. Effect(attempts', 0, "none", {}, SoundOpen)
    BY <1>2, SameEffect, LostEffect DEF Activity, Connected, Disconnected, Base
  <2>2. phase' \notin {"idle", "error"} /\ Quietly
    BY <1>2 DEF Activity, Connected, Disconnected, Patch, Activities
  <2> QED BY <2>1, <2>2, QuietKeepsHangups DEF Quietly, recovery, history
<1>3. CASE StopPhrase(n)
  BY <1>3, StopKeepsHangups DEF StopPhrase
<1>4. Heard(n) => attempts[n].op = operation
  BY HeardIsCurrent
<1> HIDE DEF att
<1>5. CASE Heard(n) /\ \E a \in {att, attempts} : Fail(attempts[n].op, a, "fail")
  BY <1>1, <1>4, <1>5, FailKeepsHangups
<1>6. CASE Reoffer(attempts[n].op, 0, att)
  BY <1>1, <1>6, ReofferKeepsHangups
<1>7. CASE attempts' = att /\ UNCHANGED state /\ Quietly
  <2>1. Effect(attempts', 0, "none", {}, SoundOpen)
    BY <1>1, <1>7
  <2> QED BY <1>7, <2>1, QuietKeepsHangups DEF Quietly, state, recovery, history
<1>8. CASE Failed(n) \/ ChannelError(n) \/ PeerTimesOut(n)
  BY <1>5, <1>6, <1>7, <1>8 DEF Failed, ChannelError, PeerTimesOut, att
<1> QED BY <1>2, <1>3, <1>8 DEF TransportEvent

LEMMA NextKeepsHangups == IInv /\ Hangups /\ [Next]_vars => Hangups'
<1> SUFFICES ASSUME IInv, Hangups, [Next]_vars PROVE Hangups'
  OBVIOUS
<1>1. Base /\ outlived \subseteq outlived'
  BY HistoryKept DEF IInv
<1>2. CASE Start
  BY <1>1, <1>2, StartKeepsHangups
<1>3. CASE Stop \/ ExpiryFires
  BY <1>1, <1>3, StopKeepsHangups DEF ExpiryFires
<1>4. ASSUME NEW n \in DOMAIN attempts, Establish(n) PROVE Hangups'
  BY <1>1, <1>4, PrepareKeepsHangups, StartResolvesKeepsHangups, ConnectKeepsHangups,
     ThrowsKeepsHangups DEF Establish
<1>5. ASSUME NEW n \in DOMAIN attempts, TransportEvent(n) \/ PeerTimesOut(n) PROVE Hangups'
  BY <1>1, <1>5, TransportKeepsHangups
<1>6. ASSUME NEW e \in ending, Ended(e) PROVE Hangups'
  BY <1>6, EndedKeepsHangups
<1>7. CASE LoopWakes
  BY <1>1, <1>7, LoopWakesKeepsHangups
<1>8. CASE GraceFires
  BY <1>1, <1>8, GraceKeepsHangups
<1>9. ASSUME NEW enabled \in BOOLEAN, SetMicrophoneEnabled(enabled) PROVE Hangups'
  <2>1. Effect(attempts', 0, "none", {}, SoundOpen)
    BY <1>1, <1>9, TrackEffect DEF SetMicrophoneEnabled, Base
  <2> QED BY <1>1, <1>9, <2>1, QuietKeepsHangups DEF SetMicrophoneEnabled, recovery, history
<1>10. CASE UNCHANGED vars
  <2>1. Effect(attempts', 0, "none", {}, SoundOpen)
    BY <1>1, <1>10, SameEffect DEF vars, Base
  <2> QED BY <1>1, <1>10, <2>1, QuietKeepsHangups DEF vars, state, recovery, history
<1> QED BY <1>2, <1>3, <1>4, <1>5, <1>6, <1>7, <1>8, <1>9, <1>10 DEF Next

\* Nobody pays for a call nobody is in, though hang-ups fail or never return,
\* answers come late and a failure runs into a re-offer.  A call the backend
\* created is the one callId names or finishCall is ending it, and one left over
\* by a refused hang-up is shown as a cleanup still pending.  Excepted by name are
\* the calls whose id callId lost to another operation's call or to a refused
\* finishCall, and those of an operation whose loop outlived its failure.
THEOREM NoCallLeftBehind == Spec => []CallsHungUp
<1>1. Init => Hangups
  BY DEF Init, Hangups, Linked, OneBegins, ClearsItsOwn, LoopHasNoCall, NoLoop, CallsHungUp,
         CallsAccountedFor, CleanupVisible
<1>2. Init => IInv
  BY InitMedia
<1>3. IInv /\ Hangups => CallsHungUp
  BY DEF Hangups
<1> QED BY <1>1, <1>2, <1>3, NextKeepsIInv, NextKeepsHangups, PTL DEF Spec
=============================================================================
