--------------------------- MODULE AskHermes_proofs ---------------------------
(***************************************************************************)
(* Proofs about AskHermes, for every set of calls and instructions, every  *)
(* bound of the dispatcher and every answer of the gateway.                *)
(***************************************************************************)
EXTENDS AskHermes, FiniteSetTheorems, TLAPS

Job == SteerJob \cup CorrectionJob

\* The places of a chain that hold a job of the lane.
Places(lane, chain) == {i \in DOMAIN chain : chain[i].lane = lane}

Count(lane, chain) == Cardinality(Places(lane, chain))

\* An instruction that was taken on and has not reached Hermes in any way.
Waiting == {k \in Keys : exec[k].known /\ exec[k].turn = "none" /\ tries[k].landed = 0}

\* Every steer of the chain carries an instruction of the set, and no two of
\* them carry the same one.
Lined(chain, waiting) ==
  /\ \A i \in Places("steer", chain) : chain[i].key \in waiting
  /\ \A i, j \in Places("steer", chain) : chain[i].key = chain[j].key => i = j

\* An instruction nobody asked for has not reached Hermes.
UnknownUntouched ==
  \A k \in Keys : ~exec[k].known => exec[k].turn = "none" /\ tries[k].landed = 0

Slots ==
  /\ steerOutstanding = Count("steer", redirectQueue) /\ steerOutstanding <= MaxSteers
  /\ correctionOutstanding = Count("correct", redirectQueue)
  /\ correctionOutstanding <= MaxCorrections

IInv ==
  /\ TypeOK /\ Slots
  /\ OwnerExclusive /\ ActiveIsLiveOwner /\ InstructionLandsOnce
  /\ UnknownUntouched /\ Lined(redirectQueue, Waiting)

-----------------------------------------------------------------------------
(* The chain of redirects *)

LEMMA JobLanes ==
  ASSUME NEW j \in Job
  PROVE  /\ j.lane \in {"steer", "correct"}
         /\ j.lane = "steer" => j \in SteerJob
         /\ j.lane = "correct" => j \in CorrectionJob
BY DEF Job, SteerJob, CorrectionJob

LEMMA PlacesFinite ==
  ASSUME NEW q \in Seq(Job), NEW lane
  PROVE  IsFiniteSet(Places(lane, q)) /\ Count(lane, q) \in Nat
<1>1. Places(lane, q) \in SUBSET (1 .. Len(q)) /\ Len(q) \in Nat
  BY DEF Places
<1>2. IsFiniteSet(1 .. Len(q))
  BY <1>1, FS_Interval
<1>3. IsFiniteSet(Places(lane, q))
  BY <1>1, <1>2, FS_Subset
<1> QED BY <1>3, FS_CardinalityType DEF Count

LEMMA CountAppend ==
  ASSUME NEW q \in Seq(Job), NEW j \in Job, NEW lane
  PROVE  Count(lane, Append(q, j)) = Count(lane, q) + (IF j.lane = lane THEN 1 ELSE 0)
<1>1. /\ Append(q, j) \in Seq(Job) /\ Len(Append(q, j)) = Len(q) + 1 /\ Len(q) \in Nat
      /\ Append(q, j)[Len(q) + 1] = j
      /\ \A i \in 1 .. Len(q) : Append(q, j)[i] = q[i]
  OBVIOUS
<1>2. DOMAIN q = 1 .. Len(q) /\ DOMAIN Append(q, j) = 1 .. Len(q) + 1
  BY <1>1
<1>3. Len(q) + 1 \notin Places(lane, q)
  BY <1>2 DEF Places
<1>4. CASE j.lane = lane
  <2>1. Places(lane, Append(q, j)) = Places(lane, q) \cup {Len(q) + 1}
    BY <1>1, <1>2, <1>4 DEF Places
  <2>2. IsFiniteSet(Places(lane, q))
    BY PlacesFinite
  <2>3. Cardinality(Places(lane, q) \cup {Len(q) + 1}) = Cardinality(Places(lane, q)) + 1
    BY <1>3, <2>2, FS_AddElement
  <2> QED BY <1>4, <2>1, <2>3 DEF Count
<1>5. CASE j.lane # lane
  <2>1. Places(lane, Append(q, j)) = Places(lane, q)
    BY <1>1, <1>2, <1>5 DEF Places
  <2> QED BY <2>1, <1>5, PlacesFinite DEF Count
<1> QED BY <1>4, <1>5

LEMMA CountTail ==
  ASSUME NEW q \in Seq(Job), q # <<>>, NEW lane
  PROVE  Count(lane, Tail(q)) = Count(lane, q) - (IF q[1].lane = lane THEN 1 ELSE 0)
<1>1. /\ Tail(q) \in Seq(Job) /\ Len(q) \in Nat \ {0} /\ Len(Tail(q)) = Len(q) - 1
      /\ \A i \in 1 .. Len(q) - 1 : Tail(q)[i] = q[i + 1]
  OBVIOUS
<1>2. DOMAIN q = 1 .. Len(q) /\ DOMAIN Tail(q) = 1 .. Len(q) - 1
  BY <1>1
<1> DEFINE rest == Places(lane, q) \ {1}
           shift == [i \in Places(lane, Tail(q)) |-> i + 1]
<1>3. shift \in Bijection(Places(lane, Tail(q)), rest)
  <2>1. \A i \in Places(lane, Tail(q)) : i \in 1 .. Len(q) - 1 /\ i + 1 \in rest
    BY <1>1, <1>2 DEF Places
  <2>2. \A i \in rest : i - 1 \in Places(lane, Tail(q)) /\ (i - 1) + 1 = i
    BY <1>1, <1>2 DEF Places
  <2>3. shift \in [Places(lane, Tail(q)) -> rest]
    BY <2>1
  <2>4. \A i, j \in Places(lane, Tail(q)) : shift[i] = shift[j] => i = j
    BY <2>1
  <2>5. \A i \in rest : \E j \in Places(lane, Tail(q)) : shift[j] = i
    BY <2>2
  <2> QED BY <2>3, <2>4, <2>5 DEF Bijection, Injection, Surjection, IsInjective
<1>4. Cardinality(rest) = Count(lane, Tail(q))
  <2>1. IsFiniteSet(Places(lane, Tail(q))) /\ ExistsBijection(Places(lane, Tail(q)), rest)
    BY <1>1, <1>3, PlacesFinite DEF ExistsBijection
  <2> HIDE DEF rest
  <2> QED BY <2>1, FS_Bijection DEF Count
<1>5. 1 \in Places(lane, q) <=> q[1].lane = lane
  BY <1>1, <1>2 DEF Places
<1>6. Cardinality(rest) = IF 1 \in Places(lane, q) THEN Count(lane, q) - 1 ELSE Count(lane, q)
  BY PlacesFinite, FS_RemoveElement DEF Count
<1> QED BY <1>4, <1>5, <1>6, PlacesFinite

LEMMA HeadIsCounted ==
  ASSUME NEW q \in Seq(Job), q # <<>>
  PROVE  Count(q[1].lane, q) >= 1
<1>1. Tail(q) \in Seq(Job)
  OBVIOUS
<1>2. Count(q[1].lane, Tail(q)) \in Nat /\ Count(q[1].lane, q) \in Nat
  BY <1>1, PlacesFinite
<1> QED BY <1>2, CountTail

LEMMA HeadReplaced ==
  ASSUME NEW q \in Seq(Job), q # <<>>, NEW j \in Job, j.lane = q[1].lane, NEW lane
  PROVE  /\ [q EXCEPT ![1] = j] \in Seq(Job)
         /\ Places(lane, [q EXCEPT ![1] = j]) = Places(lane, q)
         /\ Count(lane, [q EXCEPT ![1] = j]) = Count(lane, q)
<1>1. /\ [q EXCEPT ![1] = j] \in Seq(Job)
      /\ DOMAIN [q EXCEPT ![1] = j] = DOMAIN q
      /\ \A i \in DOMAIN q : [q EXCEPT ![1] = j][i] = IF i = 1 THEN j ELSE q[i]
  OBVIOUS
<1>2. Places(lane, [q EXCEPT ![1] = j]) = Places(lane, q)
  BY <1>1 DEF Places
<1> QED BY <1>1, <1>2 DEF Count

LEMMA LinedAppendSteer ==
  ASSUME NEW q \in Seq(Job), NEW j \in Job, NEW W, NEW V, Lined(q, W),
         W \subseteq V, j.key \in V, j.key \notin W
  PROVE  Lined(Append(q, j), V)
<1>1. /\ \A i \in DOMAIN Append(q, j) : i \in DOMAIN q \/ i = Len(q) + 1
      /\ \A i \in DOMAIN q : Append(q, j)[i] = q[i]
      /\ Append(q, j)[Len(q) + 1] = j
  OBVIOUS
<1> QED BY <1>1 DEF Lined, Places

LEMMA LinedAppendCorrection ==
  ASSUME NEW q \in Seq(Job), NEW j \in Job, j.lane = "correct", NEW W, Lined(q, W)
  PROVE  Lined(Append(q, j), W)
<1>1. /\ \A i \in DOMAIN Append(q, j) : i \in DOMAIN q \/ i = Len(q) + 1
      /\ \A i \in DOMAIN q : Append(q, j)[i] = q[i]
      /\ Append(q, j)[Len(q) + 1] = j
  OBVIOUS
<1> QED BY <1>1 DEF Lined, Places

LEMMA LinedTail ==
  ASSUME NEW q \in Seq(Job), q # <<>>, NEW W, NEW V, Lined(q, W),
         \A k \in W : k \in V \/ (q[1].lane = "steer" /\ k = q[1].key)
  PROVE  Lined(Tail(q), V)
<1>1. /\ \A i \in DOMAIN Tail(q) : i + 1 \in DOMAIN q /\ Tail(q)[i] = q[i + 1] /\ i \in Nat \ {0}
      /\ 1 \in DOMAIN q
  OBVIOUS
<1>2. \A i \in Places("steer", Tail(q)) :
        i + 1 \in Places("steer", q) /\ Tail(q)[i] = q[i + 1] /\ i \in Nat \ {0}
  BY <1>1 DEF Places
<1>3. \A i \in Places("steer", Tail(q)) : Tail(q)[i].key \in V
  <2> SUFFICES ASSUME NEW i \in Places("steer", Tail(q)) PROVE Tail(q)[i].key \in V
    OBVIOUS
  <2>1. CASE q[1].lane = "steer" /\ q[i + 1].key = q[1].key
    <3>1. 1 \in Places("steer", q) /\ i + 1 # 1
      BY <1>1, <1>2, <2>1 DEF Places
    <3> QED BY <1>2, <2>1, <3>1 DEF Lined
  <2> QED BY <1>2, <2>1 DEF Lined
<1>4. \A i, j \in Places("steer", Tail(q)) : Tail(q)[i].key = Tail(q)[j].key => i = j
  <2> SUFFICES ASSUME NEW i \in Places("steer", Tail(q)), NEW j \in Places("steer", Tail(q)),
                      Tail(q)[i].key = Tail(q)[j].key
               PROVE  i = j
    OBVIOUS
  <2>1. q[i + 1].key = q[j + 1].key /\ i \in Nat /\ j \in Nat
    BY <1>2
  <2>2. i + 1 = j + 1
    BY <1>2, <2>1 DEF Lined
  <2> QED BY <2>1, <2>2
<1> QED BY <1>3, <1>4 DEF Lined

LEMMA LinedHead ==
  ASSUME NEW q \in Seq(Job), q # <<>>, NEW j \in Job, j.lane = q[1].lane,
         j.lane = "steer" => j.key = q[1].key, NEW W, NEW V, Lined(q, W), W \subseteq V
  PROVE  Lined([q EXCEPT ![1] = j], V)
<1>1. \A i \in DOMAIN q : [q EXCEPT ![1] = j][i] = IF i = 1 THEN j ELSE q[i]
  OBVIOUS
<1>2. Places("steer", [q EXCEPT ![1] = j]) = Places("steer", q)
  BY HeadReplaced
<1> QED BY <1>1, <1>2 DEF Lined, Places

LEMMA LinedGrows ==
  ASSUME NEW q, NEW W, NEW V, Lined(q, W), W \subseteq V
  PROVE  Lined(q, V)
BY DEF Lined

-----------------------------------------------------------------------------
(* What the building blocks of the steps do *)

LEMMA DeliverTypes ==
  ASSUME TypeOK, NEW calls, NEW r \in Results, Deliver(calls, r)
  PROVE  answers' \in [Calls -> Seq(Results)]
<1>1. \A c \in Calls : answers[c] \in Seq(Results) /\ Append(answers[c], r) \in Seq(Results)
  BY DEF TypeOK
<1> QED BY <1>1 DEF Deliver, TypeOK

\* The steer at the head of the chain.
SteerAtHead == redirectQueue # <<>> /\ redirectQueue[1].lane = "steer"

LEMMA HeadSteer ==
  ASSUME IInv, SteerAtHead
  PROVE  /\ redirectQueue \in Seq(Job) /\ redirectQueue[1] \in SteerJob
         /\ redirectQueue[1].key \in Keys /\ redirectQueue[1].key \in Waiting
         /\ 1 \in Places("steer", redirectQueue)
<1>1. redirectQueue \in Seq(Job) /\ 1 \in DOMAIN redirectQueue /\ redirectQueue[1] \in Job
  BY DEF IInv, TypeOK, Job, SteerAtHead
<1>2. redirectQueue[1] \in SteerJob
  BY <1>1, JobLanes DEF SteerAtHead
<1>3. 1 \in Places("steer", redirectQueue)
  BY <1>1 DEF Places, SteerAtHead
<1>4. redirectQueue[1].key \in Waiting
  BY <1>3 DEF IInv, Lined
<1> QED BY <1>1, <1>2, <1>3, <1>4 DEF SteerJob

LEMMA SteerFinished ==
  ASSUME IInv, SteerAtHead, FinishSteer, UNCHANGED correctionOutstanding
  PROVE  /\ redirectQueue' = Tail(redirectQueue) /\ redirectQueue' \in Seq(Job)
         /\ steerOutstanding' \in Nat /\ Slots'
<1>1. redirectQueue \in Seq(Job)
  BY HeadSteer
<1>2. Tail(redirectQueue) \in Seq(Job)
  BY <1>1 DEF SteerAtHead
<1>3. /\ Count("steer", redirectQueue') = Count("steer", redirectQueue) - 1
      /\ Count("correct", redirectQueue') = Count("correct", redirectQueue)
  BY <1>1, CountTail, PlacesFinite DEF FinishSteer, SteerAtHead
<1>4. Count("steer", redirectQueue) >= 1
  BY <1>1, HeadIsCounted DEF SteerAtHead
<1>5. steerOutstanding \in Nat /\ steerOutstanding' = steerOutstanding - 1
  BY DEF FinishSteer, IInv, TypeOK
<1> QED BY <1>2, <1>3, <1>4, <1>5, AskConstants DEF FinishSteer, IInv, Slots

\* A steer at the head that is answered without reaching Hermes, or by reaching
\* it as an accepted redirect.
LEMMA SteerSettled ==
  ASSUME IInv, SteerAtHead, FinishSteer,
         UNCHANGED <<aborted, authorized, ownerExecution, activeExecution, handledCallIds,
                     correctionOutstanding>>,
         exec' \in [Keys -> Execution], answers' \in [Calls -> Seq(Results)],
         tries' \in [Keys -> [landed : Nat, redirects : Nat]],
         \A m \in Keys : /\ exec'[m].known = exec[m].known
                         /\ exec'[m].turn = exec[m].turn /\ exec'[m].active = exec[m].active,
         \A m \in Keys : m # redirectQueue[1].key => tries'[m].landed = tries[m].landed,
         tries'[redirectQueue[1].key].landed <= 1
  PROVE  IInv'
<1> DEFINE k == redirectQueue[1].key
<1>1. k \in Keys /\ k \in Waiting /\ redirectQueue \in Seq(Job) /\ redirectQueue # <<>>
  BY HeadSteer DEF SteerAtHead
<1>2. /\ redirectQueue' = Tail(redirectQueue) /\ redirectQueue' \in Seq(Job)
      /\ steerOutstanding' \in Nat /\ Slots'
  BY SteerFinished
<1>3. TypeOK'
  BY <1>2 DEF IInv, TypeOK, Job
<1>4. OwnerExclusive' /\ ActiveIsLiveOwner' /\ InstructionLandsOnce'
  BY <1>1 DEF IInv, OwnerExclusive, ActiveIsLiveOwner, InstructionLandsOnce, TypeOK
<1>5. UnknownUntouched'
  BY <1>1 DEF IInv, UnknownUntouched, Waiting
<1>6. \A m \in Waiting : m \in Waiting' \/ m = k
  BY DEF Waiting
<1>7. Lined(redirectQueue', Waiting')
  BY <1>1, <1>2, <1>6, LinedTail DEF IInv, SteerAtHead
<1> QED BY <1>2, <1>3, <1>4, <1>5, <1>7 DEF IInv

LEMMA SettleSteerKeeps ==
  ASSUME IInv, SteerAtHead, NEW r \in Results, SettleSteer(redirectQueue[1].key, r),
         UNCHANGED <<aborted, authorized, activeExecution, handledCallIds,
                     correctionOutstanding>>
  PROVE  IInv'
<1> DEFINE k == redirectQueue[1].key
<1>1. k \in Keys /\ exec[k] \in Execution
  BY HeadSteer DEF IInv, TypeOK
<1>2. exec' = [exec EXCEPT ![k] = [exec[k] EXCEPT !.result = r]] /\ Deliver(exec[k].callIds, r)
  BY DEF SettleSteer, Settle
<1>3. [exec[k] EXCEPT !.result = r] \in Execution
  BY <1>1 DEF Execution
<1>4. /\ exec' \in [Keys -> Execution]
      /\ \A m \in Keys : /\ exec'[m].known = exec[m].known
                         /\ exec'[m].turn = exec[m].turn /\ exec'[m].active = exec[m].active
  BY <1>1, <1>2, <1>3 DEF IInv, TypeOK, Execution
<1>5. answers' \in [Calls -> Seq(Results)]
  BY <1>2, DeliverTypes DEF IInv
<1>6. UNCHANGED <<ownerExecution, tries>> /\ FinishSteer
  BY DEF SettleSteer
<1>7. tries'[k].landed <= 1
  BY <1>1, <1>6 DEF IInv, InstructionLandsOnce
<1> QED BY <1>4, <1>5, <1>6, <1>7, SteerSettled DEF IInv, TypeOK

\* The instruction of a key that waits gets the next turn.
LEMMA OwnerStarted ==
  ASSUME IInv, NEW k \in Keys, NEW e \in Execution, ownerExecution = None,
         e.known, ~e.active, tries[k].landed = 0, StartOwnerTurn(k, e),
         UNCHANGED activeExecution
  PROVE  /\ ownerExecution' \in Keys \cup {None}
         /\ exec' \in [Keys -> Execution]
         /\ tries' \in [Keys -> [landed : Nat, redirects : Nat]]
         /\ answers' = answers
         /\ OwnerExclusive' /\ ActiveIsLiveOwner' /\ InstructionLandsOnce'
         /\ UnknownUntouched'
         /\ \A m \in Waiting : m \in Waiting' \/ m = k
<1>1. /\ exec' = [exec EXCEPT ![k] = [e EXCEPT !.turn = "open"]]
      /\ tries' = [tries EXCEPT ![k].landed = @ + 1]
      /\ ownerExecution' = k /\ answers' = answers
  BY DEF StartOwnerTurn
<1>2. [e EXCEPT !.turn = "open"] \in Execution /\ [e EXCEPT !.turn = "open"].turn = "open"
      /\ [e EXCEPT !.turn = "open"].active = e.active
      /\ [e EXCEPT !.turn = "open"].known = e.known
  BY DEF Execution, Turns
<1>3. /\ exec' \in [Keys -> Execution]
      /\ exec'[k].turn = "open" /\ ~exec'[k].active /\ exec'[k].known
      /\ \A m \in Keys : m # k => exec'[m] = exec[m]
  BY <1>1, <1>2 DEF IInv, TypeOK
<1>4. /\ tries' \in [Keys -> [landed : Nat, redirects : Nat]]
      /\ tries'[k].landed = 1
      /\ \A m \in Keys : m # k => tries'[m] = tries[m]
  <2>1. /\ tries \in [Keys -> [landed : Nat, redirects : Nat]]
        /\ tries[k] \in [landed : Nat, redirects : Nat]
    BY DEF IInv, TypeOK
  <2>2. /\ [tries[k] EXCEPT !.landed = @ + 1] \in [landed : Nat, redirects : Nat]
        /\ [tries[k] EXCEPT !.landed = @ + 1].landed = 1
    BY <2>1
  <2>3. tries' = [tries EXCEPT ![k] = [tries[k] EXCEPT !.landed = @ + 1]]
    BY <1>1
  <2> QED BY <2>1, <2>2, <2>3
<1>5. activeExecution = None /\ \A m \in Keys : ~exec[m].active
  BY AskConstants DEF IInv, ActiveIsLiveOwner
<1>6. k # None
  BY AskConstants
<1>7. OwnerExclusive'
  <2>1. \A m \in Keys : exec[m].turn \notin {"open", "live", "completed", "failed"}
    BY AskConstants DEF IInv, OwnerExclusive
  <2> QED BY <1>1, <1>3, <2>1 DEF OwnerExclusive
<1>8. ActiveIsLiveOwner'
  BY <1>3, <1>5, AskConstants DEF ActiveIsLiveOwner
<1>9. InstructionLandsOnce' /\ UnknownUntouched'
  BY <1>3, <1>4 DEF IInv, InstructionLandsOnce, UnknownUntouched
<1>10. \A m \in Waiting : m \in Waiting' \/ m = k
  BY <1>3, <1>4 DEF Waiting
<1> QED BY <1>1, <1>3, <1>4, <1>7, <1>8, <1>9, <1>10

LEMMA ReconsiderKeeps ==
  ASSUME IInv, SteerAtHead, NEW attempt \in Nat, NEW dispatches \in Nat,
         Reconsider(redirectQueue[1].key, attempt, dispatches),
         UNCHANGED <<aborted, authorized, activeExecution, handledCallIds,
                     correctionOutstanding>>
  PROVE  IInv'
<1> DEFINE k == redirectQueue[1].key
<1>1. /\ k \in Keys /\ k \in Waiting /\ redirectQueue \in Seq(Job) /\ redirectQueue # <<>>
      /\ redirectQueue[1] \in SteerJob
  BY HeadSteer DEF SteerAtHead
<1>2. CASE \E r \in {"cancelled", "busy"} : SettleSteer(k, r)
  BY <1>2, SettleSteerKeeps DEF Results
<1>3. CASE OwnerGone(k) /\ StartOwnerTurn(k, exec[k]) /\ FinishSteer
  <2>1. ownerExecution = None /\ exec[k] \in Execution /\ exec[k].known /\ ~exec[k].active
        /\ tries[k].landed = 0
    BY <1>1, <1>3, AskConstants
       DEF OwnerGone, IInv, TypeOK, OwnerExclusive, ActiveIsLiveOwner, Waiting
  <2>2. /\ ownerExecution' \in Keys \cup {None} /\ exec' \in [Keys -> Execution]
        /\ tries' \in [Keys -> [landed : Nat, redirects : Nat]] /\ answers' = answers
        /\ OwnerExclusive' /\ ActiveIsLiveOwner' /\ InstructionLandsOnce' /\ UnknownUntouched'
        /\ \A m \in Waiting : m \in Waiting' \/ m = k
    BY <1>1, <1>3, <2>1, OwnerStarted
  <2>3. /\ redirectQueue' = Tail(redirectQueue) /\ redirectQueue' \in Seq(Job)
        /\ steerOutstanding' \in Nat /\ Slots'
    BY <1>3, SteerFinished
  <2>4. TypeOK'
    BY <2>2, <2>3 DEF IInv, TypeOK, Job
  <2>5. Lined(redirectQueue', Waiting')
    BY <1>1, <2>2, <2>3, LinedTail DEF IInv, SteerAtHead
  <2> QED BY <2>2, <2>3, <2>4, <2>5 DEF IInv
<1>4. CASE /\ ~OwnerGone(k)
           /\ redirectQueue' = [redirectQueue EXCEPT
                ![1] = [@ EXCEPT !.at = "waiting", !.target = ownerExecution,
                                 !.attempt = attempt, !.dispatches = dispatches]]
           /\ UNCHANGED <<ownerExecution, steerOutstanding, exec, answers, tries>>
  <2> DEFINE job == [redirectQueue[1] EXCEPT !.at = "waiting", !.target = ownerExecution,
                                             !.attempt = attempt, !.dispatches = dispatches]
  <2>1. job \in SteerJob /\ job.lane = "steer" /\ job.key = k
    BY <1>1 DEF SteerJob, IInv, TypeOK
  <2>2. redirectQueue' = [redirectQueue EXCEPT ![1] = job] /\ job \in Job
    BY <1>4, <2>1 DEF Job
  <2> HIDE DEF job
  <2>3. /\ redirectQueue' \in Seq(Job)
        /\ \A lane : Count(lane, redirectQueue') = Count(lane, redirectQueue)
    BY <1>1, <2>1, <2>2, HeadReplaced DEF SteerAtHead
  <2>4. Lined(redirectQueue', Waiting)
    BY <1>1, <2>1, <2>2, LinedHead DEF IInv, SteerAtHead
  <2>5. Waiting' = Waiting
    BY <1>4 DEF Waiting
  <2>6. TypeOK' /\ Slots'
    BY <1>4, <2>3 DEF IInv, TypeOK, Slots, Job
  <2>7. OwnerExclusive' /\ ActiveIsLiveOwner' /\ InstructionLandsOnce' /\ UnknownUntouched'
    BY <1>4 DEF IInv, OwnerExclusive, ActiveIsLiveOwner, InstructionLandsOnce, UnknownUntouched
  <2> QED BY <2>4, <2>5, <2>6, <2>7 DEF IInv
<1> QED BY <1>2, <1>3, <1>4 DEF Reconsider

-----------------------------------------------------------------------------
(* The steps *)

\* A step that neither moves a turn nor touches the chain.
LEMMA NothingMoves ==
  ASSUME IInv, TypeOK',
         UNCHANGED <<ownerExecution, activeExecution, correctionOutstanding,
                     steerOutstanding, redirectQueue, tries>>,
         \A m \in Keys : /\ exec[m].known => exec'[m].known
                         /\ exec'[m].turn = exec[m].turn /\ exec'[m].active = exec[m].active
  PROVE  IInv'
<1>1. Slots' /\ InstructionLandsOnce'
  BY DEF IInv, Slots, InstructionLandsOnce
<1>2. OwnerExclusive'
  BY DEF IInv, OwnerExclusive
<1>3. ActiveIsLiveOwner'
  BY DEF IInv, ActiveIsLiveOwner, TypeOK
<1>4. UnknownUntouched'
  BY DEF IInv, UnknownUntouched
<1>5. Waiting \subseteq Waiting'
  BY DEF Waiting
<1>6. Lined(redirectQueue', Waiting')
  BY <1>5, LinedGrows DEF IInv
<1> QED BY <1>1, <1>2, <1>3, <1>4, <1>6 DEF IInv

LEMMA RefusalKeeps ==
  ASSUME IInv, NEW c \in Calls, RefuseOverBudget(c) \/ RefuseCall(c)
  PROVE  IInv'
<1>1. answers' \in [Calls -> Seq(Results)]
  BY DeliverTypes DEF IInv, RefuseOverBudget, RefuseCall, Results
<1>2. /\ UNCHANGED <<aborted, authorized, ownerExecution, activeExecution,
                    correctionOutstanding, steerOutstanding, exec, redirectQueue, tries>>
      /\ handledCallIds' \subseteq Calls
  BY DEF IInv, TypeOK, RefuseOverBudget, RefuseCall, Accept
<1>3. TypeOK'
  BY <1>1, <1>2 DEF IInv, TypeOK
<1> QED BY <1>2, <1>3, NothingMoves

LEMMA ReattachKeeps ==
  ASSUME IInv, NEW c \in Calls, NEW k \in Keys, Reattach(c, k)
  PROVE  IInv'
<1>1. exec' = [exec EXCEPT ![k].callIds = @ \cup {c}] /\ exec[k] \in Execution
  BY DEF Reattach, IInv, TypeOK
<1>2. /\ exec' \in [Keys -> Execution]
      /\ \A m \in Keys : /\ exec'[m].known = exec[m].known
                         /\ exec'[m].turn = exec[m].turn /\ exec'[m].active = exec[m].active
  BY <1>1 DEF IInv, TypeOK, Execution
<1>3. answers' \in [Calls -> Seq(Results)]
  <2>1. CASE exec[k].result # "none"
    <3>1. exec[k].result \in Results /\ Deliver({c}, exec[k].result)
      BY <1>1, <2>1 DEF Execution, Reattach
    <3> QED BY <3>1, DeliverTypes DEF IInv
  <2>2. CASE exec[k].result = "none"
    BY <2>2 DEF Reattach, IInv, TypeOK
  <2> QED BY <2>1, <2>2
<1>4. /\ UNCHANGED <<aborted, authorized, ownerExecution, activeExecution,
                    correctionOutstanding, steerOutstanding, redirectQueue, tries>>
      /\ handledCallIds' \subseteq Calls
  BY DEF IInv, TypeOK, Reattach, Accept
<1>5. TypeOK'
  BY <1>2, <1>3, <1>4 DEF IInv, TypeOK
<1> QED BY <1>2, <1>4, <1>5, NothingMoves

LEMMA AskKeeps ==
  ASSUME IInv, NEW c \in Calls, NEW k \in Keys, Ask(c, k)
  PROVE  IInv'
<1> DEFINE e == NewExecution(c)
<1>1. /\ e \in Execution /\ e.known /\ ~e.active /\ e.turn = "none"
      /\ e.callIds \subseteq Calls
  BY DEF NewExecution, NoExecution, Execution, Turns
<1>2. /\ ~exec[k].known /\ exec[k].turn = "none" /\ tries[k].landed = 0 /\ k \notin Waiting
      /\ ~exec[k].active /\ ownerExecution # k
  BY AskConstants DEF Ask, IInv, UnknownUntouched, Waiting, ActiveIsLiveOwner, OwnerExclusive
<1>3. /\ UNCHANGED <<aborted, authorized, activeExecution, correctionOutstanding>>
      /\ handledCallIds' \subseteq Calls
  BY DEF Ask, Accept, IInv, TypeOK
<1> HIDE DEF e
<1>4. CASE /\ ownerExecution = None /\ StartOwnerTurn(k, e)
           /\ UNCHANGED <<steerOutstanding, redirectQueue>>
  <2>1. /\ ownerExecution' \in Keys \cup {None} /\ exec' \in [Keys -> Execution]
        /\ tries' \in [Keys -> [landed : Nat, redirects : Nat]] /\ answers' = answers
        /\ OwnerExclusive' /\ ActiveIsLiveOwner' /\ InstructionLandsOnce' /\ UnknownUntouched'
        /\ \A m \in Waiting : m \in Waiting' \/ m = k
    BY <1>1, <1>2, <1>3, <1>4, OwnerStarted
  <2>2. TypeOK' /\ Slots'
    BY <1>3, <1>4, <2>1 DEF IInv, TypeOK, Slots
  <2>3. Lined(redirectQueue', Waiting')
    BY <1>2, <1>4, <2>1, LinedGrows DEF IInv
  <2> QED BY <2>1, <2>2, <2>3 DEF IInv
<1>5. CASE Settle(k, e, "busy") /\ UNCHANGED <<ownerExecution, steerOutstanding, redirectQueue, tries>>
  <2>1. exec' = [exec EXCEPT ![k] = [e EXCEPT !.result = "busy"]] /\ Deliver(e.callIds, "busy")
    BY <1>5 DEF Settle
  <2>2. /\ [e EXCEPT !.result = "busy"] \in Execution
        /\ [e EXCEPT !.result = "busy"].known
        /\ [e EXCEPT !.result = "busy"].turn = "none"
        /\ ~[e EXCEPT !.result = "busy"].active
    BY <1>1 DEF Execution, Results
  <2>3. answers' \in [Calls -> Seq(Results)]
    BY <2>1, DeliverTypes DEF IInv, Results
  <2>4. /\ exec' \in [Keys -> Execution]
        /\ \A m \in Keys : /\ exec[m].known => exec'[m].known
                           /\ exec'[m].turn = exec[m].turn
    BY <1>2, <2>1, <2>2 DEF IInv, TypeOK
  <2>5. \A m \in Keys : exec'[m].active = exec[m].active
    <3>1. exec'[k].active = exec[k].active
      BY <1>2, <2>1, <2>2, Zenon DEF IInv, TypeOK, Execution
    <3> QED BY <3>1, <2>1 DEF IInv, TypeOK
  <2>6. TypeOK'
    BY <1>3, <1>5, <2>3, <2>4 DEF IInv, TypeOK
  <2> QED BY <1>3, <1>5, <2>4, <2>5, <2>6, NothingMoves
<1>6. CASE /\ ownerExecution # None /\ steerOutstanding < MaxSteers
           /\ exec' = [exec EXCEPT ![k] = e]
           /\ steerOutstanding' = steerOutstanding + 1
           /\ redirectQueue' = Append(redirectQueue,
                [lane |-> "steer", key |-> k, at |-> "queued", target |-> None,
                 attempt |-> 0, dispatches |-> 0])
           /\ UNCHANGED <<ownerExecution, answers, tries>>
  <2> DEFINE job == [lane |-> "steer", key |-> k, at |-> "queued", target |-> None,
                     attempt |-> 0, dispatches |-> 0]
  <2>1. job \in Job /\ job.lane = "steer" /\ job.key = k
    BY DEF Job, SteerJob
  <2>2. redirectQueue' = Append(redirectQueue, job) /\ redirectQueue \in Seq(Job)
    BY <1>6 DEF IInv, TypeOK, Job
  <2> HIDE DEF job
  <2>3. /\ exec' \in [Keys -> Execution] /\ exec'[k] = e
        /\ \A m \in Keys : m # k => exec'[m] = exec[m]
    BY <1>1, <1>6 DEF IInv, TypeOK
  <2>4. redirectQueue' \in Seq(Job)
    BY <2>1, <2>2
  <2>5. Slots'
    <3>1. /\ Count("steer", redirectQueue') = Count("steer", redirectQueue) + 1
          /\ Count("correct", redirectQueue') = Count("correct", redirectQueue)
      BY <2>1, <2>2, CountAppend, PlacesFinite
    <3>2. /\ steerOutstanding = Count("steer", redirectQueue) /\ steerOutstanding < MaxSteers
          /\ correctionOutstanding = Count("correct", redirectQueue)
          /\ correctionOutstanding <= MaxCorrections
      BY <1>6 DEF IInv, Slots
    <3>3. /\ steerOutstanding \in Nat /\ MaxSteers \in Nat
          /\ steerOutstanding' = steerOutstanding + 1
          /\ correctionOutstanding' = correctionOutstanding
      BY <1>3, <1>6, AskConstants DEF IInv, TypeOK
    <3> QED BY <3>1, <3>2, <3>3 DEF Slots
  <2>6. TypeOK'
    BY <1>3, <1>6, <2>3, <2>4 DEF IInv, TypeOK, Job
  <2>7. OwnerExclusive'
    BY <1>1, <1>2, <1>6, <2>3 DEF IInv, OwnerExclusive
  <2>8. ActiveIsLiveOwner'
    <3>1. activeExecution # k
      BY <1>2, AskConstants DEF IInv, ActiveIsLiveOwner
    <3> QED BY <1>1, <1>3, <1>6, <2>3, <3>1 DEF IInv, ActiveIsLiveOwner, TypeOK
  <2>9. InstructionLandsOnce' /\ UnknownUntouched'
    BY <1>1, <1>6, <2>3 DEF IInv, InstructionLandsOnce, UnknownUntouched
  <2>10. Waiting \subseteq Waiting' /\ k \in Waiting'
    BY <1>1, <1>2, <1>6, <2>3 DEF Waiting
  <2>11. Lined(redirectQueue', Waiting')
    BY <1>2, <2>1, <2>2, <2>10, LinedAppendSteer DEF IInv
  <2> QED BY <2>5, <2>6, <2>7, <2>8, <2>9, <2>11 DEF IInv
<1> QED BY <1>4, <1>5, <1>6 DEF Ask, e

\* A step that changes nothing but the correction jobs of the chain.
LEMMA ChainMoves ==
  ASSUME IInv, TypeOK', Slots', Lined(redirectQueue', Waiting),
         UNCHANGED <<ownerExecution, activeExecution, exec, tries>>
  PROVE  IInv'
<1>1. Waiting' = Waiting
  BY DEF Waiting
<1> QED BY <1>1 DEF IInv, OwnerExclusive, ActiveIsLiveOwner, InstructionLandsOnce,
         UnknownUntouched

LEMMA CorrectKeeps ==
  ASSUME IInv, NEW c \in Calls, Correct(c)
  PROVE  IInv'
<1>1. /\ UNCHANGED <<aborted, authorized, ownerExecution, activeExecution, steerOutstanding,
                    exec, tries>>
      /\ handledCallIds' \subseteq Calls
  BY DEF Correct, Accept, IInv, TypeOK
<1>2. CASE /\ \E r \in {"nothing_active", "rejected"} : Deliver({c}, r)
           /\ UNCHANGED <<correctionOutstanding, redirectQueue>>
  <2>1. answers' \in [Calls -> Seq(Results)]
    BY <1>2, DeliverTypes DEF IInv, Results
  <2>2. TypeOK'
    BY <1>1, <1>2, <2>1 DEF IInv, TypeOK
  <2> QED BY <1>1, <1>2, <2>2, NothingMoves
<1>3. CASE /\ activeExecution # None /\ correctionOutstanding < MaxCorrections
           /\ correctionOutstanding' = correctionOutstanding + 1
           /\ redirectQueue' = Append(redirectQueue,
                [lane |-> "correct", call |-> c, at |-> "queued", target |-> activeExecution])
           /\ UNCHANGED answers
  <2> DEFINE job == [lane |-> "correct", call |-> c, at |-> "queued", target |-> activeExecution]
  <2>1. job \in Job /\ job.lane = "correct"
    BY <1>3 DEF Job, CorrectionJob, IInv, TypeOK
  <2>2. redirectQueue' = Append(redirectQueue, job) /\ redirectQueue \in Seq(Job)
    BY <1>3 DEF IInv, TypeOK, Job
  <2> HIDE DEF job
  <2>3. redirectQueue' \in Seq(Job)
    BY <2>1, <2>2
  <2>4. /\ Count("correct", redirectQueue') = Count("correct", redirectQueue) + 1
        /\ Count("steer", redirectQueue') = Count("steer", redirectQueue)
    BY <2>1, <2>2, CountAppend, PlacesFinite
  <2>5. TypeOK'
    BY <1>1, <1>3, <2>3 DEF IInv, TypeOK, Job
  <2>7. Slots'
    BY <1>1, <1>3, <2>4, AskConstants DEF IInv, TypeOK, Slots
  <2>6. Lined(redirectQueue', Waiting)
    BY <2>1, <2>2, LinedAppendCorrection DEF IInv
  <2> QED BY <1>1, <2>5, <2>6, <2>7, ChainMoves
<1> QED BY <1>2, <1>3 DEF Correct

\* The correction at the head of the chain is answered.
LEMMA FinishCorrectionKeeps ==
  ASSUME IInv, redirectQueue # <<>>, redirectQueue[1].lane = "correct", NEW r \in Results,
         FinishCorrection(r),
         UNCHANGED <<aborted, authorized, ownerExecution, activeExecution, handledCallIds,
                     steerOutstanding, exec, tries>>
  PROVE  IInv'
<1>1. redirectQueue \in Seq(Job) /\ redirectQueue' = Tail(redirectQueue)
  BY DEF IInv, TypeOK, Job, FinishCorrection
<1>2. redirectQueue' \in Seq(Job)
  BY <1>1
<1>3. /\ Count("correct", redirectQueue') = Count("correct", redirectQueue) - 1
      /\ Count("steer", redirectQueue') = Count("steer", redirectQueue)
      /\ Count("correct", redirectQueue) >= 1
  BY <1>1, CountTail, HeadIsCounted, PlacesFinite
<1>4. answers' \in [Calls -> Seq(Results)]
  BY DeliverTypes DEF FinishCorrection, IInv
<1>5. correctionOutstanding' = correctionOutstanding - 1 /\ correctionOutstanding \in Nat
  BY DEF FinishCorrection, IInv, TypeOK
<1>6. TypeOK' /\ Slots'
  <2>1. correctionOutstanding' \in Nat
    BY <1>3, <1>5 DEF IInv, Slots
  <2>2. TypeOK'
    BY <1>2, <1>4, <2>1 DEF IInv, TypeOK, Job
  <2> QED BY <1>3, <1>5, <2>2, AskConstants DEF IInv, Slots
<1>7. Lined(redirectQueue', Waiting)
  BY <1>1, LinedTail DEF IInv
<1> QED BY <1>6, <1>7, ChainMoves

LEMMA CorrectionStepKeeps ==
  ASSUME IInv, CorrectionStarts \/ \E outcome \in Outcomes : CorrectionAnswered(outcome)
  PROVE  IInv'
<1>1. /\ redirectQueue # <<>> /\ redirectQueue[1].lane = "correct"
      /\ UNCHANGED <<aborted, authorized, ownerExecution, activeExecution, handledCallIds,
                     steerOutstanding, exec, tries>>
  BY DEF CorrectionStarts, CorrectionAnswered, Running
<1>2. CASE \E r \in Results : FinishCorrection(r)
  BY <1>1, <1>2, FinishCorrectionKeeps
<1>3. CASE /\ redirectQueue' = [redirectQueue EXCEPT ![1] = [@ EXCEPT !.at = "sent"]]
           /\ UNCHANGED <<answers, correctionOutstanding>>
  <2> DEFINE job == [redirectQueue[1] EXCEPT !.at = "sent"]
  <2>1. redirectQueue \in Seq(Job) /\ redirectQueue[1] \in Job
    BY <1>1 DEF IInv, TypeOK, Job
  <2>2. redirectQueue[1] \in CorrectionJob
    BY <1>1, <2>1, JobLanes
  <2>3. job \in CorrectionJob /\ job.lane = "correct"
    BY <2>2 DEF CorrectionJob
  <2>4. redirectQueue' = [redirectQueue EXCEPT ![1] = job] /\ job \in Job
    BY <1>3, <2>3 DEF Job
  <2> HIDE DEF job
  <2>5. /\ redirectQueue' \in Seq(Job)
        /\ \A lane : Count(lane, redirectQueue') = Count(lane, redirectQueue)
    BY <1>1, <2>1, <2>3, <2>4, HeadReplaced
  <2>6. Lined(redirectQueue', Waiting)
    BY <1>1, <2>1, <2>3, <2>4, LinedHead DEF IInv
  <2>7. TypeOK' /\ Slots'
    BY <1>1, <1>3, <2>5 DEF IInv, TypeOK, Slots, Job
  <2> QED BY <1>1, <2>6, <2>7, ChainMoves
<1>4. CASE CorrectionStarts
  BY <1>2, <1>3, <1>4 DEF CorrectionStarts, Results
<1>5. ASSUME NEW outcome \in Outcomes, CorrectionAnswered(outcome) PROVE IInv'
  BY <1>2, <1>5 DEF CorrectionAnswered, Outcomes, Results
<1> QED BY <1>4, <1>5

\* The redirect of the steer at the head is on its way.
LEMMA SteerSentKeeps ==
  ASSUME IInv, SteerAtHead,
         redirectQueue' = [redirectQueue EXCEPT ![1].at = "sent"],
         tries' = [tries EXCEPT ![redirectQueue[1].key].redirects = @ + 1],
         UNCHANGED <<aborted, authorized, ownerExecution, activeExecution, handledCallIds,
                     correctionOutstanding, steerOutstanding, exec, answers>>
  PROVE  IInv'
<1> DEFINE k == redirectQueue[1].key
           job == [redirectQueue[1] EXCEPT !.at = "sent"]
<1>1. /\ k \in Keys /\ k \in Waiting /\ redirectQueue \in Seq(Job) /\ redirectQueue # <<>>
      /\ redirectQueue[1] \in SteerJob
  BY HeadSteer DEF SteerAtHead
<1>2. job \in SteerJob /\ job.lane = "steer" /\ job.key = k
  BY <1>1 DEF SteerJob
<1>3. redirectQueue' = [redirectQueue EXCEPT ![1] = job] /\ job \in Job
  BY <1>2 DEF Job
<1> HIDE DEF job
<1>4. /\ redirectQueue' \in Seq(Job)
      /\ \A lane : Count(lane, redirectQueue') = Count(lane, redirectQueue)
  <2>1. job.lane = redirectQueue[1].lane
    BY <1>2 DEF SteerAtHead
  <2>2. redirectQueue \in Seq(Job) /\ redirectQueue # <<>> /\ job \in Job
    BY <1>1, <1>3
  <2>3. ASSUME NEW lane
        PROVE  /\ [redirectQueue EXCEPT ![1] = job] \in Seq(Job)
               /\ Count(lane, [redirectQueue EXCEPT ![1] = job]) = Count(lane, redirectQueue)
    BY <2>1, <2>2, HeadReplaced
  <2> QED BY <1>3, <2>3
<1>5. Lined(redirectQueue', Waiting)
  <2>1. Lined(redirectQueue, Waiting) /\ redirectQueue[1].lane = "steer"
    BY DEF IInv, SteerAtHead
  <2>2. /\ redirectQueue \in Seq(Job) /\ redirectQueue # <<>> /\ job \in Job
        /\ job.lane = redirectQueue[1].lane /\ job.key = redirectQueue[1].key
    BY <1>1, <1>2, <1>3, <2>1
  <2>3. Lined([redirectQueue EXCEPT ![1] = job], Waiting)
    BY <2>1, <2>2, LinedHead
  <2> QED BY <1>3, <2>1, <2>3
<1>6. /\ tries' \in [Keys -> [landed : Nat, redirects : Nat]]
      /\ \A m \in Keys : tries'[m].landed = tries[m].landed
  <2>1. /\ tries[k] \in [landed : Nat, redirects : Nat]
        /\ [tries[k] EXCEPT !.redirects = @ + 1] \in [landed : Nat, redirects : Nat]
        /\ [tries[k] EXCEPT !.redirects = @ + 1].landed = tries[k].landed
    <3>1. tries[k] \in [landed : Nat, redirects : Nat]
      BY <1>1 DEF IInv, TypeOK
    <3>2. tries[k].redirects + 1 \in Nat
      BY <3>1
    <3> QED BY <3>1, <3>2
  <2>2. tries' = [tries EXCEPT ![k] = [tries[k] EXCEPT !.redirects = @ + 1]]
    OBVIOUS
  <2> QED BY <1>1, <2>1, <2>2 DEF IInv, TypeOK
<1>7. Waiting' = Waiting
  BY <1>6 DEF Waiting
<1>8. TypeOK' /\ Slots'
  BY <1>4, <1>6 DEF IInv, TypeOK, Slots, Job
<1>9. OwnerExclusive' /\ ActiveIsLiveOwner'
  BY DEF IInv, OwnerExclusive, ActiveIsLiveOwner
<1>10. InstructionLandsOnce' /\ UnknownUntouched'
  BY <1>6 DEF IInv, InstructionLandsOnce, UnknownUntouched
<1> QED BY <1>5, <1>7, <1>8, <1>9, <1>10 DEF IInv

LEMMA SteerAnsweredKeeps ==
  ASSUME IInv, NEW outcome \in Outcomes, SteerAnswered(outcome)
  PROVE  IInv'
<1> DEFINE job == redirectQueue[1]
           k == job.key
           ack == IF outcome = "redirected" THEN "steered" ELSE "queued"
<1>1. SteerAtHead /\ UNCHANGED <<aborted, authorized, activeExecution, handledCallIds,
                                 correctionOutstanding>>
  BY DEF SteerAnswered, Running, SteerAtHead
<1>2. k \in Keys /\ k \in Waiting /\ exec[k] \in Execution /\ job \in SteerJob
      /\ job.attempt + 1 \in Nat /\ job.dispatches + 1 \in Nat
  <2>1. k \in Keys /\ k \in Waiting /\ job \in SteerJob
    BY <1>1, HeadSteer
  <2>2. exec[k] \in Execution
    BY <2>1 DEF IInv, TypeOK
  <2>3. job.attempt + 1 \in Nat /\ job.dispatches + 1 \in Nat
    BY <2>1 DEF SteerJob
  <2> QED BY <2>1, <2>2, <2>3
<1>3. tries[k].landed = 0 /\ tries[k] \in [landed : Nat, redirects : Nat]
  BY <1>2 DEF Waiting, IInv, TypeOK
<1>4. ASSUME NEW n \in {0, 1}, tries' = [tries EXCEPT ![k].landed = @ + n]
      PROVE  /\ tries' \in [Keys -> [landed : Nat, redirects : Nat]]
             /\ \A m \in Keys : m # k => tries'[m].landed = tries[m].landed
             /\ tries'[k].landed <= 1
  <2>1. [tries[k] EXCEPT !.landed = @ + n] \in [landed : Nat, redirects : Nat]
        /\ [tries[k] EXCEPT !.landed = @ + n].landed <= 1
    BY <1>3
  <2>2. tries' = [tries EXCEPT ![k] = [tries[k] EXCEPT !.landed = @ + n]]
    BY <1>4
  <2> QED BY <1>2, <2>1, <2>2 DEF IInv, TypeOK
<1>5. CASE /\ outcome \in {"redirected", "queued"}
           /\ LET e == [exec[k] EXCEPT !.result = ack]
              IN exec' = IF outcome = "queued"
                         THEN [exec EXCEPT ![job.target].queuedFollowOns = @ + 1, ![k] = e]
                         ELSE [exec EXCEPT ![k] = e]
           /\ Deliver(exec[k].callIds, ack)
           /\ FinishSteer
           /\ tries' = [tries EXCEPT ![k].landed = @ + 1]
           /\ UNCHANGED ownerExecution
  <2>1. ack \in Results
    BY DEF Results
  <2>2. answers' \in [Calls -> Seq(Results)]
    BY <1>5, <2>1, DeliverTypes DEF IInv
  <2> DEFINE e == [exec[k] EXCEPT !.result = ack]
  <2>3. e \in Execution /\ e.known = exec[k].known /\ e.turn = exec[k].turn
        /\ e.active = exec[k].active
    BY <1>2, <2>1 DEF Execution
  <2> HIDE DEF e
  <2>4. /\ exec' \in [Keys -> Execution]
        /\ \A m \in Keys : /\ exec'[m].known = exec[m].known
                           /\ exec'[m].turn = exec[m].turn /\ exec'[m].active = exec[m].active
    <3>1. CASE exec' = [exec EXCEPT ![k] = e]
      BY <1>2, <2>3, <3>1 DEF IInv, TypeOK
    <3>2. CASE exec' = [exec EXCEPT ![job.target].queuedFollowOns = @ + 1, ![k] = e]
      <4> DEFINE counted == [exec EXCEPT ![job.target].queuedFollowOns = @ + 1]
      <4>1. /\ counted \in [Keys -> Execution]
            /\ \A m \in Keys : /\ counted[m].known = exec[m].known
                               /\ counted[m].turn = exec[m].turn
                               /\ counted[m].active = exec[m].active
        <5>1. \A m \in Keys :
                /\ exec[m] \in Execution
                /\ [exec[m] EXCEPT !.queuedFollowOns = @ + 1] \in Execution
          <6> SUFFICES ASSUME NEW m \in Keys
                       PROVE  /\ exec[m] \in Execution
                              /\ [exec[m] EXCEPT !.queuedFollowOns = @ + 1] \in Execution
            OBVIOUS
          <6>1. exec[m] \in Execution
            BY DEF IInv, TypeOK
          <6>2. exec[m].queuedFollowOns + 1 \in Nat
            BY <6>1 DEF Execution
          <6> QED BY <6>1, <6>2 DEF Execution
        <5>2. \A m \in Keys :
                counted[m] = exec[m] \/ counted[m] = [exec[m] EXCEPT !.queuedFollowOns = @ + 1]
          BY DEF IInv, TypeOK
        <5>3. counted \in [Keys -> Execution]
          <6>1. DOMAIN counted = Keys /\ counted = [m \in Keys |-> counted[m]]
            BY DEF IInv, TypeOK
          <6> QED BY <5>1, <5>2, <6>1
        <5>4. \A m \in Keys : /\ counted[m].known = exec[m].known
                             /\ counted[m].turn = exec[m].turn
                             /\ counted[m].active = exec[m].active
          BY <5>1, <5>2 DEF Execution
        <5> QED BY <5>3, <5>4
      <4>2. exec' = [counted EXCEPT ![k] = e]
        BY <3>2
      <4> HIDE DEF counted
      <4> QED BY <1>2, <2>3, <4>1, <4>2
    <3> QED BY <1>5, <3>1, <3>2 DEF e
  <2>5. /\ tries' \in [Keys -> [landed : Nat, redirects : Nat]]
        /\ \A m \in Keys : m # k => tries'[m].landed = tries[m].landed
        /\ tries'[k].landed <= 1
    BY <1>4, <1>5
  <2> QED BY <1>1, <1>5, <2>2, <2>4, <2>5, SteerSettled
<1>6. CASE /\ \E r \in {"upstream_unavailable", "busy"} : Settle(k, exec[k], r)
           /\ FinishSteer
           /\ \E n \in {0, 1} : tries' = [tries EXCEPT ![k].landed = @ + n]
           /\ UNCHANGED ownerExecution
  <2>1. PICK r \in {"upstream_unavailable", "busy"} : Settle(k, exec[k], r)
    BY <1>6
  <2>2. answers' \in [Calls -> Seq(Results)]
    BY <2>1, DeliverTypes DEF Settle, IInv, Results
  <2>3. exec' = [exec EXCEPT ![k] = [exec[k] EXCEPT !.result = r]]
        /\ [exec[k] EXCEPT !.result = r] \in Execution
    BY <1>2, <2>1 DEF Settle, Execution, Results
  <2>4. /\ exec' \in [Keys -> Execution]
        /\ \A m \in Keys : /\ exec'[m].known = exec[m].known
                           /\ exec'[m].turn = exec[m].turn /\ exec'[m].active = exec[m].active
    BY <1>2, <2>3 DEF IInv, TypeOK, Execution
  <2>5. /\ tries' \in [Keys -> [landed : Nat, redirects : Nat]]
        /\ \A m \in Keys : m # k => tries'[m].landed = tries[m].landed
        /\ tries'[k].landed <= 1
    BY <1>4, <1>6
  <2> QED BY <1>1, <1>6, <2>2, <2>4, <2>5, SteerSettled
<1>7. CASE Reconsider(k, job.attempt + 1, job.dispatches + 1)
  BY <1>1, <1>2, <1>7, ReconsiderKeeps
<1> QED BY <1>5, <1>6, <1>7 DEF SteerAnswered

LEMMA SteerStepKeeps ==
  ASSUME IInv, SteerStarts \/ SteerResumes
  PROVE  IInv'
<1>1. SteerAtHead /\ UNCHANGED <<aborted, authorized, activeExecution, handledCallIds,
                                 correctionOutstanding>>
  BY DEF SteerStarts, SteerResumes, Running, SteerAtHead
<1>2. redirectQueue[1].attempt + 1 \in Nat /\ redirectQueue[1].dispatches \in Nat
  BY <1>1, HeadSteer DEF SteerJob
<1>3. CASE SteerStarts
  BY <1>1, <1>3, ReconsiderKeeps DEF SteerStarts
<1>4. CASE SteerResumes
  <2>1. CASE SettleSteer(redirectQueue[1].key, "cancelled")
    BY <1>1, <2>1, SettleSteerKeeps DEF Results
  <2>2. CASE Reconsider(redirectQueue[1].key, redirectQueue[1].attempt + 1,
                        redirectQueue[1].dispatches)
    BY <1>1, <1>2, <2>2, ReconsiderKeeps
  <2>3. CASE /\ redirectQueue' = [redirectQueue EXCEPT ![1].at = "sent"]
             /\ tries' = [tries EXCEPT ![redirectQueue[1].key].redirects = @ + 1]
             /\ UNCHANGED <<ownerExecution, steerOutstanding, exec, answers>>
    BY <1>1, <2>3, SteerSentKeeps
  <2> QED BY <1>4, <2>1, <2>2, <2>3 DEF SteerResumes
<1> QED BY <1>3, <1>4

Owned == {"open", "live", "completed", "failed"}

\* A step of the turn of execution k: it leaves the chain and the history alone
\* and cannot turn a settled instruction into a waiting one.
LEMMA TurnMoves ==
  ASSUME IInv, NEW k \in Keys, exec[k].turn \in Owned, NEW e \in Execution,
         exec' = [exec EXCEPT ![k] = e], e.known = exec[k].known, e.turn # "none",
         answers' \in [Calls -> Seq(Results)],
         UNCHANGED <<aborted, authorized, handledCallIds, correctionOutstanding,
                     steerOutstanding, redirectQueue, tries>>,
         activeExecution' \in {None, k, activeExecution},
         ownerExecution' = IF e.turn \in Owned THEN ownerExecution ELSE None,
         e.active <=> activeExecution' = k,
         activeExecution' # activeExecution /\ activeExecution' # k => activeExecution = k,
         activeExecution' = k => e.turn = "live"
  PROVE  IInv'
<1>1. /\ exec' \in [Keys -> Execution] /\ exec'[k] = e
      /\ \A m \in Keys : m # k => exec'[m] = exec[m]
  BY DEF IInv, TypeOK
<1>2. ownerExecution = k /\ k # None
  BY AskConstants DEF IInv, OwnerExclusive, Owned
<1>3. TypeOK'
  BY <1>1 DEF IInv, TypeOK
<1>4. OwnerExclusive'
  BY <1>1, <1>2, AskConstants DEF IInv, OwnerExclusive, Owned
<1>5. \A m \in Keys : m # k => ~exec[m].active /\ activeExecution # m
  BY <1>2, AskConstants DEF IInv, ActiveIsLiveOwner
<1>6. activeExecution' \in {None, k}
  BY <1>5 DEF IInv, TypeOK
<1>7. ActiveIsLiveOwner'
  <2>1. activeExecution' # None =>
          ownerExecution' = activeExecution' /\ exec'[activeExecution'].turn = "live"
    BY <1>1, <1>2, <1>6 DEF Owned
  <2>2. \A m \in Keys : m # k => ~exec'[m].active /\ activeExecution' # m
    BY <1>1, <1>5, <1>6, AskConstants
  <2>3. exec'[k].active <=> activeExecution' = k
    BY <1>1
  <2>4. \A m \in Keys : exec'[m].active <=> activeExecution' = m
    BY <2>2, <2>3
  <2> QED BY <2>1, <2>4 DEF ActiveIsLiveOwner
<1>8. InstructionLandsOnce' /\ Slots'
  BY DEF IInv, InstructionLandsOnce, Slots
<1>9. exec[k].known
  BY DEF IInv, UnknownUntouched, Owned
<1>10. UnknownUntouched'
  BY <1>1, <1>9 DEF IInv, UnknownUntouched
<1>11. Waiting \subseteq Waiting'
  BY <1>1 DEF Waiting, Owned
<1>12. Lined(redirectQueue', Waiting')
  BY <1>11, LinedGrows DEF IInv
<1> QED BY <1>3, <1>4, <1>7, <1>8, <1>10, <1>12 DEF IInv

LEMMA TurnStepKeeps ==
  ASSUME IInv, NEW k \in Keys, TurnStep(k)
  PROVE  IInv'
<1>1. exec[k] \in Execution /\ answers \in [Calls -> Seq(Results)]
  BY DEF IInv, TypeOK
<1>2. CASE TurnStreams(k)
  <2>1. exec[k].turn = "open" /\ exec[k].turn \in Owned /\ ownerExecution = k
        /\ ~exec[k].active /\ activeExecution = None
    BY <1>2, AskConstants DEF TurnStreams, IInv, OwnerExclusive, ActiveIsLiveOwner, Owned, TypeOK
  <2>2. CASE exec' = [exec EXCEPT ![k].turn = "live"] /\ UNCHANGED activeExecution
    <3> DEFINE e == [exec[k] EXCEPT !.turn = "live"]
    <3>1. e \in Execution /\ e.known = exec[k].known /\ e.turn = "live" /\ ~e.active
      BY <1>1, <2>1 DEF Execution, Turns
    <3>2. exec' = [exec EXCEPT ![k] = e]
      BY <2>2
    <3> HIDE DEF e
    <3> QED BY <1>1, <1>2, <2>1, <2>2, <3>1, <3>2, TurnMoves, AskConstants
            DEF TurnStreams, Owned
  <2>3. CASE /\ exec' = [exec EXCEPT ![k].turn = "live", ![k].active = TRUE, ![k].ready = TRUE]
             /\ activeExecution' = k
    <3> DEFINE e == [exec[k] EXCEPT !.turn = "live", !.active = TRUE, !.ready = TRUE]
    <3>1. e \in Execution /\ e.known = exec[k].known /\ e.turn = "live" /\ e.active
      BY <1>1, <2>1 DEF Execution, Turns
    <3>2. exec' = [exec EXCEPT ![k] = e]
      BY <2>3 DEF IInv, TypeOK
    <3> HIDE DEF e
    <3> QED BY <1>1, <1>2, <2>1, <2>3, <3>1, <3>2, TurnMoves DEF TurnStreams, Owned
  <2> QED BY <1>2, <2>2, <2>3 DEF TurnStreams
<1>3. ASSUME NEW turn \in {"completed", "failed"}, exec[k].turn \in Owned, Deactivate(k, turn)
      PROVE  IInv'
  <2> DEFINE e == [exec[k] EXCEPT !.turn = turn, !.active = FALSE]
  <2>1. e \in Execution /\ e.known = exec[k].known /\ e.turn = turn /\ ~e.active
    BY <1>1, <1>3 DEF Execution, Turns
  <2>2. exec' = [exec EXCEPT ![k] = e]
    BY <1>3 DEF Deactivate, IInv, TypeOK
  <2>3. /\ UNCHANGED <<aborted, authorized, ownerExecution, handledCallIds,
                       correctionOutstanding, steerOutstanding, redirectQueue, answers, tries>>
        /\ activeExecution' = IF activeExecution = k THEN None ELSE activeExecution
    BY <1>3 DEF Deactivate
  <2> HIDE DEF e
  <2> QED BY <1>1, <1>3, <2>1, <2>2, <2>3, TurnMoves, AskConstants DEF Owned
<1>4. CASE TurnCompletes(k)
  <2>1. exec[k].turn = "live" /\ exec[k].turn \in Owned
    BY <1>4 DEF TurnCompletes, Owned
  <2>2. CASE /\ exec[k].queuedFollowOns > 0
             /\ exec' = [exec EXCEPT ![k].queuedFollowOns = @ - 1]
             /\ UNCHANGED <<aborted, authorized, ownerExecution, activeExecution,
                            handledCallIds, correctionOutstanding, steerOutstanding,
                            redirectQueue, answers, tries>>
    <3>1. /\ exec[k].queuedFollowOns - 1 \in Nat
          /\ exec' = [exec EXCEPT ![k] = [exec[k] EXCEPT !.queuedFollowOns = @ - 1]]
      BY <1>1, <2>2 DEF Execution
    <3>2. [exec[k] EXCEPT !.queuedFollowOns = @ - 1] \in Execution
      BY <1>1, <3>1 DEF Execution
    <3>3. /\ exec' \in [Keys -> Execution]
          /\ \A m \in Keys : /\ exec'[m].known = exec[m].known
                             /\ exec'[m].turn = exec[m].turn /\ exec'[m].active = exec[m].active
      BY <1>1, <3>1, <3>2 DEF IInv, TypeOK, Execution
    <3>4. TypeOK'
      BY <2>2, <3>3 DEF IInv, TypeOK
    <3> QED BY <2>2, <3>3, <3>4, NothingMoves
  <2> QED BY <1>3, <1>4, <2>1, <2>2 DEF TurnCompletes
<1>5. CASE TurnFails(k)
  BY <1>3, <1>5 DEF TurnFails, Owned
<1>6. CASE OwnerSettles(k)
  <2>1. exec[k].turn \in Owned /\ ownerExecution = k /\ activeExecution # k
        /\ exec[k].turn # "live" /\ ~exec[k].active
    BY <1>6, AskConstants DEF OwnerSettles, IInv, OwnerExclusive, ActiveIsLiveOwner, Owned
  <2>2. PICK r \in Results : Settle(k, Settled(exec[k]), r)
    BY <1>6 DEF OwnerSettles, Results
  <2> DEFINE e == [Settled(exec[k]) EXCEPT !.result = r]
  <2>3. e \in Execution /\ e.known = exec[k].known /\ e.turn = "done" /\ ~e.active
    BY <1>1, <2>1 DEF Settled, Execution, Turns
  <2>4. exec' = [exec EXCEPT ![k] = e]
    BY <2>2 DEF Settle
  <2> HIDE DEF e
  <2>5. answers' \in [Calls -> Seq(Results)]
    BY <2>2, DeliverTypes DEF Settle, IInv
  <2>6. ownerExecution' = None
    BY <1>6, <2>1 DEF OwnerSettles
  <2> QED BY <1>6, <2>1, <2>3, <2>4, <2>5, <2>6, TurnMoves DEF OwnerSettles, Owned
<1> QED BY <1>2, <1>4, <1>5, <1>6 DEF TurnStep

LEMMA ProgressKeeps ==
  ASSUME IInv, NEW k \in Keys, Progress(k)
  PROVE  IInv'
<1>1. exec[k] \in Execution
  BY DEF IInv, TypeOK
<1>2. /\ [exec[k] EXCEPT !.progressNotes = @ + 1] \in Execution
      /\ exec' = [exec EXCEPT ![k] = [exec[k] EXCEPT !.progressNotes = @ + 1]]
  BY <1>1 DEF Progress, Execution
<1>3. /\ exec' \in [Keys -> Execution]
      /\ \A m \in Keys : /\ exec'[m].known = exec[m].known
                         /\ exec'[m].turn = exec[m].turn /\ exec'[m].active = exec[m].active
  BY <1>1, <1>2 DEF IInv, TypeOK, Execution
<1>4. TypeOK'
  BY <1>3 DEF IInv, TypeOK, Progress
<1> QED BY <1>3, <1>4, NothingMoves DEF Progress

LEMMA AbortKeeps ==
  ASSUME IInv, Abort
  PROVE  IInv'
<1>1. /\ exec' = [k \in Keys |-> IF k = activeExecution THEN [exec[k] EXCEPT !.active = FALSE]
                                 ELSE exec[k]]
      /\ activeExecution' = None /\ aborted' = TRUE
      /\ UNCHANGED <<authorized, ownerExecution, handledCallIds, correctionOutstanding,
                     steerOutstanding, redirectQueue, answers, tries>>
  BY DEF Abort
<1>2. \A k \in Keys : exec[k] \in Execution /\ [exec[k] EXCEPT !.active = FALSE] \in Execution
  BY DEF IInv, TypeOK, Execution
<1>3. /\ exec' \in [Keys -> Execution]
      /\ \A k \in Keys : exec'[k].known = exec[k].known /\ exec'[k].turn = exec[k].turn
  BY <1>1, <1>2 DEF Execution
<1>4. \A k \in Keys : ~exec'[k].active
  BY <1>1, <1>2 DEF IInv, ActiveIsLiveOwner, Execution
<1>5. TypeOK'
  BY <1>1, <1>3 DEF IInv, TypeOK
<1>6. OwnerExclusive' /\ ActiveIsLiveOwner'
  BY <1>1, <1>3, <1>4, AskConstants DEF IInv, OwnerExclusive, ActiveIsLiveOwner
<1>7. Slots' /\ InstructionLandsOnce' /\ UnknownUntouched'
  BY <1>1, <1>3 DEF IInv, Slots, InstructionLandsOnce, UnknownUntouched
<1>8. Waiting \subseteq Waiting'
  BY <1>1, <1>3 DEF Waiting
<1>9. Lined(redirectQueue', Waiting')
  BY <1>1, <1>8, LinedGrows DEF IInv
<1> QED BY <1>5, <1>6, <1>7, <1>9 DEF IInv

LEMMA RevokeKeeps ==
  ASSUME IInv, Revoke
  PROVE  IInv'
<1>1. TypeOK'
  BY DEF IInv, TypeOK, Revoke
<1> QED BY <1>1, NothingMoves DEF Revoke

-----------------------------------------------------------------------------
LEMMA InvInit == Init => IInv
<1> SUFFICES ASSUME Init PROVE IInv
  OBVIOUS
<1>1. <<>> \in Seq(Results) /\ <<>> \in Seq(SteerJob \cup CorrectionJob)
  OBVIOUS
<1>2. NoExecution \in Execution
  BY DEF NoExecution, Execution, Turns
<1>3. TypeOK
  BY <1>1, <1>2 DEF Init, TypeOK
<1>4. \A lane : Places(lane, redirectQueue) = {} /\ Count(lane, redirectQueue) = 0
  BY FS_EmptySet DEF Init, Places, Count
<1>5. Slots /\ Lined(redirectQueue, Waiting)
  BY <1>4, AskConstants DEF Init, Slots, Lined
<1>6. OwnerExclusive /\ ActiveIsLiveOwner /\ InstructionLandsOnce /\ UnknownUntouched
  BY AskConstants DEF Init, OwnerExclusive, ActiveIsLiveOwner, InstructionLandsOnce,
     UnknownUntouched, NoExecution
<1> QED BY <1>3, <1>5, <1>6 DEF IInv

LEMMA InvNext == IInv /\ [Next]_vars => IInv'
<1> SUFFICES ASSUME IInv, [Next]_vars PROVE IInv'
  OBVIOUS
<1>1. ASSUME NEW c \in Calls, HandleToolCall(c) PROVE IInv'
  BY <1>1, RefusalKeeps, ReattachKeeps, AskKeeps, CorrectKeeps DEF HandleToolCall
<1>2. CASE RedirectStep
  BY <1>2, SteerStepKeeps, SteerAnsweredKeeps, CorrectionStepKeeps DEF RedirectStep
<1>3. ASSUME NEW k \in Keys, TurnStep(k) \/ Progress(k) PROVE IInv'
  BY <1>3, TurnStepKeeps, ProgressKeeps
<1>4. CASE Abort \/ Revoke
  BY <1>4, AbortKeeps, RevokeKeeps
<1>5. CASE UNCHANGED vars
  <2>1. TypeOK'
    BY <1>5 DEF IInv, TypeOK, vars
  <2> QED BY <1>5, <2>1, NothingMoves DEF vars
<1> QED BY <1>1, <1>2, <1>3, <1>4, <1>5 DEF Next

LEMMA Invariance == Spec => []IInv
BY InvInit, InvNext, PTL DEF Spec

\* Every state of every behaviour is well typed; the counters never go below
\* zero, whichever job of the chain ends in whichever way.
THEOREM TypeCorrect == Spec => []TypeOK
<1>1. IInv => TypeOK
  BY DEF IInv
<1> QED BY <1>1, Invariance, PTL

\* Owner turns never overlap, however steers, fallbacks and failures interleave.
THEOREM OneOwner == Spec => []OwnerExclusive
<1>1. IInv => OwnerExclusive
  BY DEF IInv
<1> QED BY <1>1, Invariance, PTL

\* A correction is only ever aimed at the owner, while its stream is live.
THEOREM CorrectionsAimAtOwner == Spec => []ActiveIsLiveOwner
<1>1. IInv => ActiveIsLiveOwner
  BY DEF IInv
<1> QED BY <1>1, Invariance, PTL

\* An instruction reaches Hermes at most once, as a turn of its own or as an
\* accepted redirect.
THEOREM LandsOnce == Spec => []InstructionLandsOnce
<1>1. IInv => InstructionLandsOnce
  BY DEF IInv
<1> QED BY <1>1, Invariance, PTL

\* A slot of the steer and correction lanes is always given back.
THEOREM SlotsGivenBack == Spec => []SlotsAccountedFor
<1>1. IInv => SlotsAccountedFor
  BY DEF IInv, Slots, SlotsAccountedFor, Count, Places
<1> QED BY <1>1, Invariance, PTL

-----------------------------------------------------------------------------
(* How often a steer is sent *)

\* What a steer of the chain has already cost: nothing while it is queued, and a
\* redirect more than its count of dispatches at most while one is out.
WithinBudget(job, sent) ==
  /\ job.at = "queued" => sent[job.key].redirects = 0
  /\ job.at # "queued" => job.dispatches < MaxSteerDispatches
  /\ job.at = "waiting" => sent[job.key].redirects <= job.dispatches
  /\ job.at = "sent" => sent[job.key].redirects <= job.dispatches + 1

Frugal ==
  /\ RedirectsBounded
  /\ \A k \in Keys : ~exec[k].known => tries[k].redirects = 0
  /\ \A i \in Places("steer", redirectQueue) : WithinBudget(redirectQueue[i], tries)

\* A step that sends no steer keeps every account, if the jobs of the chain are
\* old ones or within their own.
LEMMA NothingSent ==
  ASSUME IInv, Frugal,
         \A k \in Keys : tries'[k].redirects = tries[k].redirects,
         \A k \in Keys : exec[k].known => exec'[k].known,
         \A i \in Places("steer", redirectQueue') :
           \/ WithinBudget(redirectQueue'[i], tries')
           \/ \E j \in Places("steer", redirectQueue) : redirectQueue'[i] = redirectQueue[j]
  PROVE  Frugal'
<1>1. RedirectsBounded' /\ \A k \in Keys : ~exec'[k].known => tries'[k].redirects = 0
  BY DEF Frugal, RedirectsBounded
<1>2. \A j \in Places("steer", redirectQueue) : redirectQueue[j].key \in Keys
  BY DEF IInv, Lined, Waiting
<1>3. \A j \in Places("steer", redirectQueue) : WithinBudget(redirectQueue[j], tries')
  BY <1>2 DEF Frugal, WithinBudget
<1>4. \A i \in Places("steer", redirectQueue') : WithinBudget(redirectQueue'[i], tries')
  BY <1>3
<1> QED BY <1>1, <1>4 DEF Frugal

LEMMA TailIsOld ==
  ASSUME NEW q \in Seq(Job), q # <<>>
  PROVE  \A i \in Places("steer", Tail(q)) : \E j \in Places("steer", q) : Tail(q)[i] = q[j]
<1> SUFFICES ASSUME NEW i \in Places("steer", Tail(q))
             PROVE  \E j \in Places("steer", q) : Tail(q)[i] = q[j]
  OBVIOUS
<1>1. i + 1 \in DOMAIN q /\ Tail(q)[i] = q[i + 1]
  BY DEF Places
<1>2. i + 1 \in Places("steer", q)
  BY <1>1 DEF Places
<1> QED BY <1>1, <1>2

LEMMA HeadIsNew ==
  ASSUME NEW q \in Seq(Job), q # <<>>, NEW j \in Job, j.lane = q[1].lane,
         NEW p, p = [q EXCEPT ![1] = j]
  PROVE  \A i \in Places("steer", p) :
           \/ i = 1 /\ p[i] = j
           \/ i # 1 /\ i \in Places("steer", q) /\ p[i] = q[i]
<1>1. DOMAIN p = DOMAIN q /\ \A i \in DOMAIN q : p[i] = IF i = 1 THEN j ELSE q[i]
  OBVIOUS
<1> QED BY <1>1 DEF Places

LEMMA LastIsNew ==
  ASSUME NEW q \in Seq(Job), NEW j \in Job
  PROVE  \A i \in Places("steer", Append(q, j)) :
           \/ Append(q, j)[i] = j
           \/ i \in Places("steer", q) /\ Append(q, j)[i] = q[i]
<1>1. /\ \A i \in DOMAIN Append(q, j) : i \in DOMAIN q \/ i = Len(q) + 1
      /\ \A i \in DOMAIN q : Append(q, j)[i] = q[i]
      /\ Append(q, j)[Len(q) + 1] = j
  OBVIOUS
<1> QED BY <1>1 DEF Places

\* A step that leaves the chain and the count of redirects alone.
LEMMA ChainIdle ==
  ASSUME IInv, Frugal, UNCHANGED <<redirectQueue, tries>>,
         \A k \in Keys : exec[k].known => exec'[k].known
  PROVE  Frugal'
BY NothingSent

\* A steer at the head leaves the chain, however it ended.
LEMMA HeadLeaves ==
  ASSUME IInv, Frugal, redirectQueue # <<>>, redirectQueue' = Tail(redirectQueue),
         \A k \in Keys : tries'[k].redirects = tries[k].redirects,
         \A k \in Keys : exec[k].known => exec'[k].known
  PROVE  Frugal'
<1>1. redirectQueue \in Seq(Job)
  BY DEF IInv, TypeOK, Job
<1>2. \A i \in Places("steer", redirectQueue') :
        \E j \in Places("steer", redirectQueue) : redirectQueue'[i] = redirectQueue[j]
  BY <1>1, TailIsOld
<1> QED BY <1>2, NothingSent

LEMMA SettleIsFrugal ==
  ASSUME IInv, Frugal, SteerAtHead, NEW r, SettleSteer(redirectQueue[1].key, r)
  PROVE  Frugal'
<1> DEFINE k == redirectQueue[1].key
<1>1. k \in Keys /\ exec[k] \in Execution
  BY HeadSteer DEF IInv, TypeOK
<1>2. /\ exec' = [exec EXCEPT ![k] = [exec[k] EXCEPT !.result = r]]
      /\ redirectQueue' = Tail(redirectQueue) /\ tries' = tries
  BY DEF SettleSteer, Settle, FinishSteer
<1>3. \A m \in Keys : exec'[m].known = exec[m].known
  BY <1>1, <1>2 DEF IInv, TypeOK, Execution
<1> QED BY <1>2, <1>3, HeadLeaves DEF SteerAtHead

\* A turn of its own costs an instruction no redirect.
LEMMA TurnIsFree ==
  ASSUME IInv, NEW k \in Keys, NEW e \in Execution, exec[k].known => e.known,
         StartOwnerTurn(k, e)
  PROVE  /\ \A m \in Keys : tries'[m].redirects = tries[m].redirects
         /\ \A m \in Keys : exec[m].known => exec'[m].known
         /\ exec'[k].known = e.known
<1>1. /\ exec' = [exec EXCEPT ![k] = [e EXCEPT !.turn = "open"]]
      /\ tries' = [tries EXCEPT ![k].landed = @ + 1]
  BY DEF StartOwnerTurn
<1>2. [e EXCEPT !.turn = "open"].known = e.known
  BY DEF Execution
<1>3. \A m \in Keys : tries'[m].redirects = tries[m].redirects
  BY <1>1 DEF IInv, TypeOK
<1> QED BY <1>1, <1>2, <1>3 DEF IInv, TypeOK

\* A steer that is reconsidered waits only while it may still be sent.
LEMMA ReconsiderIsFrugal ==
  ASSUME IInv, Frugal, SteerAtHead, NEW attempt \in Nat, NEW dispatches \in Nat,
         tries[redirectQueue[1].key].redirects <= dispatches,
         Reconsider(redirectQueue[1].key, attempt, dispatches)
  PROVE  Frugal'
<1> DEFINE k == redirectQueue[1].key
<1>1. /\ k \in Keys /\ redirectQueue \in Seq(Job) /\ redirectQueue # <<>>
      /\ redirectQueue[1] \in SteerJob /\ exec[k] \in Execution
  BY HeadSteer DEF SteerAtHead, IInv, TypeOK
<1>2. CASE \E r \in {"cancelled", "busy"} : SettleSteer(k, r)
  BY <1>2, SettleIsFrugal
<1>3. CASE StartOwnerTurn(k, exec[k]) /\ FinishSteer
  <2>1. /\ \A m \in Keys : tries'[m].redirects = tries[m].redirects
        /\ \A m \in Keys : exec[m].known => exec'[m].known
    BY <1>1, <1>3, TurnIsFree
  <2>2. redirectQueue' = Tail(redirectQueue)
    BY <1>3 DEF FinishSteer
  <2> QED BY <1>1, <2>1, <2>2, HeadLeaves
<1>4. CASE /\ ~Exhausted(attempt, dispatches) /\ ~OwnerGone(k)
           /\ redirectQueue' = [redirectQueue EXCEPT
                ![1] = [@ EXCEPT !.at = "waiting", !.target = ownerExecution,
                                 !.attempt = attempt, !.dispatches = dispatches]]
           /\ UNCHANGED <<ownerExecution, steerOutstanding, exec, answers, tries>>
  <2> DEFINE job == [redirectQueue[1] EXCEPT !.at = "waiting", !.target = ownerExecution,
                                             !.attempt = attempt, !.dispatches = dispatches]
  <2>1. /\ job \in SteerJob /\ job.lane = "steer" /\ job.key = k
        /\ job.at = "waiting" /\ job.dispatches = dispatches
    BY <1>1 DEF SteerJob, IInv, TypeOK
  <2>2. redirectQueue' = [redirectQueue EXCEPT ![1] = job] /\ job \in Job
    BY <1>4, <2>1 DEF Job
  <2>3. dispatches < MaxSteerDispatches
    BY <1>4, AskConstants DEF Exhausted
  <2>4. WithinBudget(job, tries')
    BY <1>4, <2>1, <2>3 DEF WithinBudget
  <2> HIDE DEF job
  <2>5. \A i \in Places("steer", redirectQueue') :
          \/ redirectQueue'[i] = job
          \/ \E j \in Places("steer", redirectQueue) : redirectQueue'[i] = redirectQueue[j]
    <3>1. \A i \in DOMAIN redirectQueue' :
            /\ i \in DOMAIN redirectQueue
            /\ redirectQueue'[i] = IF i = 1 THEN job ELSE redirectQueue[i]
      BY <1>1, <2>2
    <3> QED BY <3>1 DEF Places
  <2>6. UNCHANGED <<exec, tries>>
    BY <1>4
  <2> QED BY <2>4, <2>5, <2>6, NothingSent
<1> QED BY <1>2, <1>3, <1>4 DEF Reconsider

\* The one step that sends a steer: no other steer of the chain carries the same
\* instruction, so no other account moves.
LEMMA SendIsFrugal ==
  ASSUME IInv, Frugal, SteerAtHead, redirectQueue[1].at = "waiting",
         redirectQueue' = [redirectQueue EXCEPT ![1].at = "sent"],
         tries' = [tries EXCEPT ![redirectQueue[1].key].redirects = @ + 1],
         exec' = exec
  PROVE  Frugal'
<1> DEFINE k == redirectQueue[1].key
           job == [redirectQueue[1] EXCEPT !.at = "sent"]
<1>1. /\ k \in Keys /\ k \in Waiting /\ redirectQueue \in Seq(Job) /\ redirectQueue # <<>>
      /\ redirectQueue[1] \in SteerJob /\ 1 \in Places("steer", redirectQueue)
  BY HeadSteer DEF SteerAtHead
<1>2. /\ job \in SteerJob /\ job.lane = "steer" /\ job.key = k /\ job.at = "sent"
      /\ job.dispatches = redirectQueue[1].dispatches /\ job.dispatches \in Nat
  BY <1>1 DEF SteerJob
<1>3. redirectQueue' = [redirectQueue EXCEPT ![1] = job] /\ job \in Job
  BY <1>1, <1>2 DEF Job
<1>4. tries[k].redirects \in Nat /\ tries[k].redirects <= job.dispatches
      /\ job.dispatches < MaxSteerDispatches
  BY <1>1, <1>2 DEF Frugal, WithinBudget, IInv, TypeOK
<1>5. /\ tries'[k].redirects = tries[k].redirects + 1
      /\ \A m \in Keys : m # k => tries'[m].redirects = tries[m].redirects
  BY <1>1 DEF IInv, TypeOK
<1>6. WithinBudget(job, tries')
  BY <1>2, <1>4, <1>5 DEF WithinBudget
<1> HIDE DEF job
<1>7. \A i \in Places("steer", redirectQueue') :
        \/ redirectQueue'[i] = job
        \/ i # 1 /\ i \in Places("steer", redirectQueue) /\ redirectQueue'[i] = redirectQueue[i]
  <2>1. \A i \in DOMAIN redirectQueue' :
          /\ i \in DOMAIN redirectQueue
          /\ redirectQueue'[i] = IF i = 1 THEN job ELSE redirectQueue[i]
    BY <1>1, <1>3
  <2> QED BY <2>1 DEF Places
<1>8. \A i \in Places("steer", redirectQueue) :
        i # 1 => redirectQueue[i].key \in Keys /\ redirectQueue[i].key # k
  BY <1>1 DEF IInv, Lined, Waiting
<1>9. \A i \in Places("steer", redirectQueue') : WithinBudget(redirectQueue'[i], tries')
  <2> SUFFICES ASSUME NEW i \in Places("steer", redirectQueue), i # 1
               PROVE  WithinBudget(redirectQueue[i], tries')
    BY <1>6, <1>7
  <2>1. WithinBudget(redirectQueue[i], tries)
    BY DEF Frugal
  <2> QED BY <1>5, <1>8, <2>1 DEF WithinBudget
<1>10. RedirectsBounded'
  <2>1. MaxSteerDispatches \in Nat
    BY AskConstants
  <2>2. tries'[k].redirects <= MaxSteerDispatches
    BY <1>2, <1>4, <1>5, <2>1
  <2>3. \A m \in Keys : m # k => tries'[m].redirects <= MaxSteerDispatches
    BY <1>5 DEF Frugal, RedirectsBounded
  <2> QED BY <2>2, <2>3 DEF RedirectsBounded
<1>11. \A m \in Keys : ~exec'[m].known => tries'[m].redirects = 0
  BY <1>1, <1>5 DEF Frugal, Waiting
<1> QED BY <1>9, <1>10, <1>11 DEF Frugal

LEMMA SteerStepIsFrugal ==
  ASSUME IInv, Frugal, SteerStarts \/ SteerResumes
  PROVE  Frugal'
<1>1. SteerAtHead
  BY DEF SteerStarts, SteerResumes, Running, SteerAtHead
<1>2. /\ redirectQueue[1].key \in Keys /\ redirectQueue[1] \in SteerJob
      /\ WithinBudget(redirectQueue[1], tries)
      /\ tries[redirectQueue[1].key].redirects \in Nat
  BY <1>1, HeadSteer DEF Frugal, IInv, TypeOK
<1>3. CASE SteerStarts
  <2>1. tries[redirectQueue[1].key].redirects <= 0
    BY <1>2, <1>3 DEF SteerStarts, Running, WithinBudget
  <2> QED BY <1>1, <1>3, <2>1, ReconsiderIsFrugal DEF SteerStarts
<1>4. CASE SteerResumes
  <2>1. /\ redirectQueue[1].at = "waiting"
        /\ redirectQueue[1].attempt + 1 \in Nat /\ redirectQueue[1].dispatches \in Nat
        /\ tries[redirectQueue[1].key].redirects <= redirectQueue[1].dispatches
    BY <1>2, <1>4 DEF SteerResumes, Running, WithinBudget, SteerJob
  <2>2. CASE SettleSteer(redirectQueue[1].key, "cancelled")
    BY <1>1, <2>2, SettleIsFrugal
  <2>3. CASE Reconsider(redirectQueue[1].key, redirectQueue[1].attempt + 1,
                        redirectQueue[1].dispatches)
    BY <1>1, <2>1, <2>3, ReconsiderIsFrugal
  <2>4. CASE /\ redirectQueue' = [redirectQueue EXCEPT ![1].at = "sent"]
             /\ tries' = [tries EXCEPT ![redirectQueue[1].key].redirects = @ + 1]
             /\ UNCHANGED <<ownerExecution, steerOutstanding, exec, answers>>
    BY <1>1, <2>1, <2>4, SendIsFrugal
  <2> QED BY <1>4, <2>2, <2>3, <2>4 DEF SteerResumes
<1> QED BY <1>3, <1>4

LEMMA SteerAnswerIsFrugal ==
  ASSUME IInv, Frugal, NEW outcome \in Outcomes, SteerAnswered(outcome)
  PROVE  Frugal'
<1> DEFINE job == redirectQueue[1]
<1>1. SteerAtHead /\ redirectQueue # <<>> /\ job.at = "sent"
  BY DEF SteerAnswered, Running, SteerAtHead
<1>2. /\ job.key \in Keys /\ job \in SteerJob /\ WithinBudget(job, tries)
      /\ tries[job.key].redirects \in Nat
  BY <1>1, HeadSteer DEF Frugal, IInv, TypeOK
<1>3. CASE outcome \in {"redirected", "queued"}
  <2> DEFINE e == [exec[job.key] EXCEPT
                     !.result = IF outcome = "redirected" THEN "steered" ELSE "queued"]
  <2>1. /\ exec' = IF outcome = "queued"
                   THEN [exec EXCEPT ![job.target].queuedFollowOns = @ + 1, ![job.key] = e]
                   ELSE [exec EXCEPT ![job.key] = e]
        /\ FinishSteer /\ tries' = [tries EXCEPT ![job.key].landed = @ + 1]
    BY <1>3 DEF SteerAnswered
  <2>2. e.known = exec[job.key].known
    BY <1>2 DEF IInv, TypeOK, Execution
  <2> HIDE DEF e
  <2>3. \A m \in Keys : exec[m].known => exec'[m].known
    BY <1>2, <2>1, <2>2 DEF IInv, TypeOK, Execution
  <2>4. \A m \in Keys : tries'[m].redirects = tries[m].redirects
    BY <1>2, <2>1 DEF IInv, TypeOK
  <2>5. redirectQueue' = Tail(redirectQueue)
    BY <2>1 DEF FinishSteer
  <2> QED BY <1>1, <2>3, <2>4, <2>5, HeadLeaves
<1>4. CASE outcome \in {"rejected", "throws"}
  <2>1. PICK r : Settle(job.key, exec[job.key], r)
    BY <1>4 DEF SteerAnswered
  <2>2. PICK n \in {0, 1} : tries' = [tries EXCEPT ![job.key].landed = @ + n]
    BY <1>4 DEF SteerAnswered
  <2>3. redirectQueue' = Tail(redirectQueue)
    BY <1>4 DEF SteerAnswered, FinishSteer
  <2>4. exec' = [exec EXCEPT ![job.key] = [exec[job.key] EXCEPT !.result = r]]
    BY <2>1 DEF Settle
  <2>5. \A m \in Keys : exec[m].known => exec'[m].known
    BY <1>2, <2>4 DEF IInv, TypeOK, Execution
  <2>6. \A m \in Keys : tries'[m].redirects = tries[m].redirects
    BY <1>2, <2>2 DEF IInv, TypeOK
  <2> QED BY <1>1, <2>3, <2>5, <2>6, HeadLeaves
<1>5. CASE outcome = "nothing_active"
  <2>1. /\ job.attempt + 1 \in Nat /\ job.dispatches + 1 \in Nat
        /\ tries[job.key].redirects <= job.dispatches + 1
    BY <1>1, <1>2 DEF WithinBudget, SteerJob
  <2>2. Reconsider(job.key, job.attempt + 1, job.dispatches + 1)
    BY <1>5 DEF SteerAnswered
  <2> QED BY <1>1, <2>1, <2>2, ReconsiderIsFrugal
<1> QED BY <1>3, <1>4, <1>5 DEF Outcomes

-----------------------------------------------------------------------------
LEMMA CallIsFrugal ==
  ASSUME IInv, Frugal, NEW c \in Calls, HandleToolCall(c)
  PROVE  Frugal'
<1>1. CASE RefuseOverBudget(c) \/ RefuseCall(c)
  BY <1>1, ChainIdle DEF RefuseOverBudget, RefuseCall
<1>2. ASSUME NEW k \in Keys, Reattach(c, k) PROVE Frugal'
  <2>1. \A m \in Keys : exec'[m].known = exec[m].known
    BY <1>2 DEF Reattach, IInv, TypeOK, Execution
  <2> QED BY <1>2, <2>1, ChainIdle DEF Reattach
<1>3. ASSUME NEW k \in Keys, Ask(c, k) PROVE Frugal'
  <2> DEFINE e == NewExecution(c)
  <2>1. ~exec[k].known /\ tries[k].redirects = 0
    BY <1>3 DEF Ask, Frugal
  <2>2. e \in Execution /\ e.known
    BY DEF NewExecution, NoExecution, Execution, Turns
  <2> HIDE DEF e
  <2>3. CASE StartOwnerTurn(k, e) /\ UNCHANGED redirectQueue
    <3>1. /\ \A m \in Keys : tries'[m].redirects = tries[m].redirects
          /\ \A m \in Keys : exec[m].known => exec'[m].known
      BY <2>1, <2>2, <2>3, TurnIsFree
    <3> QED BY <2>3, <3>1, NothingSent
  <2>4. CASE Settle(k, e, "busy") /\ UNCHANGED <<redirectQueue, tries>>
    <3>1. \A m \in Keys : exec[m].known => exec'[m].known
      BY <2>1, <2>4 DEF Settle, IInv, TypeOK
    <3> QED BY <2>4, <3>1, ChainIdle
  <2>5. CASE /\ exec' = [exec EXCEPT ![k] = e]
             /\ redirectQueue' = Append(redirectQueue,
                  [lane |-> "steer", key |-> k, at |-> "queued", target |-> None,
                   attempt |-> 0, dispatches |-> 0])
             /\ UNCHANGED tries
    <3> DEFINE job == [lane |-> "steer", key |-> k, at |-> "queued", target |-> None,
                       attempt |-> 0, dispatches |-> 0]
    <3>1. job \in Job /\ WithinBudget(job, tries')
      BY <2>1, <2>5 DEF Job, SteerJob, WithinBudget
    <3>2. redirectQueue \in Seq(Job) /\ redirectQueue' = Append(redirectQueue, job)
      BY <2>5 DEF IInv, TypeOK, Job
    <3> HIDE DEF job
    <3>3. \A i \in Places("steer", redirectQueue') :
            \/ redirectQueue'[i] = job
            \/ \E j \in Places("steer", redirectQueue) : redirectQueue'[i] = redirectQueue[j]
      BY <3>1, <3>2, LastIsNew
    <3>4. \A m \in Keys : exec[m].known => exec'[m].known
      BY <2>1, <2>5 DEF IInv, TypeOK
    <3> QED BY <2>5, <3>1, <3>3, <3>4, NothingSent
  <2> QED BY <1>3, <2>3, <2>4, <2>5 DEF Ask, e
<1>4. CASE Correct(c)
  <2>1. CASE UNCHANGED redirectQueue
    BY <1>4, <2>1, ChainIdle DEF Correct
  <2>2. CASE /\ activeExecution # None
             /\ redirectQueue' = Append(redirectQueue,
                  [lane |-> "correct", call |-> c, at |-> "queued", target |-> activeExecution])
    <3> DEFINE job == [lane |-> "correct", call |-> c, at |-> "queued",
                       target |-> activeExecution]
    <3>1. /\ job \in Job /\ job.lane = "correct" /\ redirectQueue \in Seq(Job)
          /\ redirectQueue' = Append(redirectQueue, job)
      BY <2>2 DEF Job, CorrectionJob, IInv, TypeOK
    <3> HIDE DEF job
    <3>2. \A i \in Places("steer", redirectQueue') :
            \E j \in Places("steer", redirectQueue) : redirectQueue'[i] = redirectQueue[j]
      BY <3>1, LastIsNew DEF Places
    <3> QED BY <1>4, <3>2, NothingSent DEF Correct
  <2> QED BY <1>4, <2>1, <2>2 DEF Correct
<1> QED BY <1>1, <1>2, <1>3, <1>4 DEF HandleToolCall

LEMMA CorrectionIsFrugal ==
  ASSUME IInv, Frugal,
         CorrectionStarts \/ \E outcome \in Outcomes : CorrectionAnswered(outcome)
  PROVE  Frugal'
<1>1. /\ redirectQueue # <<>> /\ redirectQueue[1].lane = "correct"
      /\ redirectQueue \in Seq(Job) /\ UNCHANGED <<exec, tries>>
  BY DEF CorrectionStarts, CorrectionAnswered, Running, IInv, TypeOK, Job
<1>2. CASE redirectQueue' = Tail(redirectQueue)
  BY <1>1, <1>2, HeadLeaves
<1>3. CASE redirectQueue' = [redirectQueue EXCEPT ![1].at = "sent"]
  <2> DEFINE job == [redirectQueue[1] EXCEPT !.at = "sent"]
  <2>1. job \in Job /\ job.lane = "correct" /\ redirectQueue' = [redirectQueue EXCEPT ![1] = job]
    BY <1>1, <1>3, JobLanes DEF Job, CorrectionJob
  <2> HIDE DEF job
  <2>2. redirectQueue'[1] = job
    BY <1>1, <2>1
  <2>3. \A i \in Places("steer", redirectQueue') :
          i \in Places("steer", redirectQueue) /\ redirectQueue'[i] = redirectQueue[i]
    BY <1>1, <2>1, <2>2, HeadIsNew DEF Places
  <2> QED BY <1>1, <2>3, NothingSent
<1> QED BY <1>2, <1>3 DEF CorrectionStarts, CorrectionAnswered, FinishCorrection

\* The owner's turn and the end of the call send nothing.
LEMMA TurnIsFrugal ==
  ASSUME IInv, Frugal,
         (\E k \in Keys : TurnStep(k) \/ Progress(k)) \/ Abort \/ Revoke
  PROVE  Frugal'
<1>1. UNCHANGED <<redirectQueue, tries>>
  BY DEF TurnStep, TurnStreams, TurnCompletes, TurnFails, OwnerSettles, Deactivate, Progress,
         Abort, Revoke
<1>2. \A m \in Keys : exec'[m].known = exec[m].known
  <2>1. ASSUME NEW k \in Keys, TurnStreams(k) \/ Progress(k)
        PROVE  \A m \in Keys : exec'[m].known = exec[m].known
    <3>1. \/ exec' = [exec EXCEPT ![k].turn = "live"]
          \/ exec' = [exec EXCEPT ![k].turn = "live", ![k].active = TRUE, ![k].ready = TRUE]
          \/ exec' = [exec EXCEPT ![k].progressNotes = @ + 1]
      BY <2>1 DEF TurnStreams, Progress
    <3>2. exec[k] \in Execution /\ exec \in [Keys -> Execution]
      BY DEF IInv, TypeOK
    <3>3. /\ [exec[k] EXCEPT !.turn = "live"].known = exec[k].known
          /\ [exec[k] EXCEPT !.turn = "live", !.active = TRUE, !.ready = TRUE].known
               = exec[k].known
          /\ [exec[k] EXCEPT !.progressNotes = @ + 1].known = exec[k].known
      BY <3>2 DEF Execution
    <3> QED BY <3>1, <3>2, <3>3
  <2>2. ASSUME NEW k \in Keys, TurnCompletes(k) \/ TurnFails(k)
        PROVE  \A m \in Keys : exec'[m].known = exec[m].known
    <3>1. \/ exec' = [exec EXCEPT ![k].queuedFollowOns = @ - 1]
          \/ \E turn : exec' = [exec EXCEPT ![k].turn = turn, ![k].active = FALSE]
      BY <2>2 DEF TurnCompletes, TurnFails, Deactivate
    <3>2. exec[k] \in Execution /\ exec \in [Keys -> Execution]
      BY DEF IInv, TypeOK
    <3>3. /\ [exec[k] EXCEPT !.queuedFollowOns = @ - 1].known = exec[k].known
          /\ \A turn : [exec[k] EXCEPT !.turn = turn, !.active = FALSE].known = exec[k].known
      BY <3>2 DEF Execution
    <3> QED BY <3>1, <3>2, <3>3
  <2>3. ASSUME NEW k \in Keys, OwnerSettles(k)
        PROVE  \A m \in Keys : exec'[m].known = exec[m].known
    BY <2>3 DEF OwnerSettles, Settle, Settled, IInv, TypeOK, Execution
  <2>4. CASE Abort
    BY <2>4 DEF Abort, IInv, TypeOK, Execution
  <2> QED BY <2>1, <2>2, <2>3, <2>4 DEF TurnStep, Revoke
<1> QED BY <1>1, <1>2, ChainIdle

LEMMA FrugalInit == Init => Frugal
<1> SUFFICES ASSUME Init PROVE Frugal
  OBVIOUS
<1>1. \A k \in Keys : tries[k].redirects = 0
  BY DEF Init
<1>2. Places("steer", redirectQueue) = {}
  BY DEF Init, Places
<1> QED BY <1>1, <1>2, AskConstants DEF Frugal, RedirectsBounded

LEMMA FrugalNext == IInv /\ Frugal /\ [Next]_vars => Frugal'
<1> SUFFICES ASSUME IInv, Frugal, [Next]_vars PROVE Frugal'
  OBVIOUS
<1>1. CASE \E c \in Calls : HandleToolCall(c)
  BY <1>1, CallIsFrugal
<1>2. CASE RedirectStep
  BY <1>2, SteerStepIsFrugal, SteerAnswerIsFrugal, CorrectionIsFrugal DEF RedirectStep
<1>3. CASE (\E k \in Keys : TurnStep(k) \/ Progress(k)) \/ Abort \/ Revoke
  BY <1>3, TurnIsFrugal
<1>4. CASE UNCHANGED vars
  BY <1>4, ChainIdle DEF vars
<1> QED BY <1>1, <1>2, <1>3, <1>4 DEF Next

\* One steer sends session.redirect at most MAX_STEER_DISPATCHES times, however
\* often the owner it was aimed at settles under it.
THEOREM SteersBounded == Spec => []RedirectsBounded
<1>1. Spec => []Frugal
  BY Invariance, FrugalInit, FrugalNext, PTL DEF Spec
<1>2. Frugal => RedirectsBounded
  BY DEF Frugal
<1> QED BY <1>1, <1>2, PTL

-----------------------------------------------------------------------------
(* Corrections and the execution they were aimed at *)

\* A correction that is in the chain was taken on, so no new call has its id.
CorrectionsTaken ==
  \A i \in Places("correct", redirectQueue) : redirectQueue[i].call \in handledCallIds

\* How the chain of a step follows from the one before it.
ChainStep(chain, next, handled) ==
  \/ next = chain
  \/ chain # <<>> /\ next = Tail(chain)
  \/ \E job \in Job : /\ chain # <<>> /\ next = [chain EXCEPT ![1] = job]
                      /\ job.lane = chain[1].lane
                      /\ job.lane = "correct" => job.call = chain[1].call
  \/ \E job \in Job : /\ next = Append(chain, job)
                      /\ job.lane = "correct" => job.call \in handled

LEMMA CallMovesChain ==
  ASSUME IInv, NEW c \in Calls, HandleToolCall(c)
  PROVE  /\ ChainStep(redirectQueue, redirectQueue', handledCallIds')
         /\ handledCallIds \subseteq handledCallIds'
<1>1. CASE RefuseOverBudget(c) \/ RefuseCall(c) \/ \E k \in Keys : Reattach(c, k)
  BY <1>1 DEF RefuseOverBudget, RefuseCall, Reattach, Accept, ChainStep
<1>2. ASSUME NEW k \in Keys, Ask(c, k)
      PROVE  /\ ChainStep(redirectQueue, redirectQueue', handledCallIds')
             /\ handledCallIds \subseteq handledCallIds'
  <2> DEFINE job == [lane |-> "steer", key |-> k, at |-> "queued", target |-> None,
                     attempt |-> 0, dispatches |-> 0]
  <2>1. job \in Job /\ job.lane # "correct"
    BY DEF Job, SteerJob
  <2>2. redirectQueue' = redirectQueue \/ redirectQueue' = Append(redirectQueue, job)
    BY <1>2 DEF Ask
  <2> HIDE DEF job
  <2>3. ChainStep(redirectQueue, redirectQueue', handledCallIds')
    BY <2>1, <2>2 DEF ChainStep
  <2> QED BY <1>2, <2>3 DEF Ask, Accept
<1>3. CASE Correct(c)
  <2> DEFINE job == [lane |-> "correct", call |-> c, at |-> "queued",
                     target |-> activeExecution]
  <2>1. \/ redirectQueue' = redirectQueue
        \/ activeExecution # None /\ redirectQueue' = Append(redirectQueue, job)
    BY <1>3 DEF Correct
  <2>2. activeExecution # None => job \in Job
    BY DEF Job, CorrectionJob, IInv, TypeOK
  <2>3. job.call = c /\ c \in handledCallIds' /\ handledCallIds \subseteq handledCallIds'
    BY <1>3 DEF Correct, Accept
  <2> HIDE DEF job
  <2> QED BY <2>1, <2>2, <2>3 DEF ChainStep
<1> QED BY <1>1, <1>2, <1>3 DEF HandleToolCall

LEMMA RedirectMovesChain ==
  ASSUME IInv, RedirectStep
  PROVE  /\ ChainStep(redirectQueue, redirectQueue', handledCallIds')
         /\ handledCallIds' = handledCallIds
<1>1. handledCallIds' = handledCallIds
  BY DEF RedirectStep, SteerStarts, SteerResumes, CorrectionStarts, SteerAnswered,
         CorrectionAnswered
<1>2. redirectQueue # <<>> /\ redirectQueue[1] \in Job
  <2>1. redirectQueue # <<>>
    BY DEF RedirectStep, SteerStarts, SteerResumes, CorrectionStarts, SteerAnswered,
           CorrectionAnswered, Running
  <2>2. redirectQueue \in Seq(Job)
    BY DEF IInv, TypeOK, Job
  <2> QED BY <2>1, <2>2
<1>3. ASSUME redirectQueue' = Tail(redirectQueue)
      PROVE  ChainStep(redirectQueue, redirectQueue', handledCallIds')
  BY <1>2, <1>3 DEF ChainStep
<1>4. ASSUME NEW job \in Job, redirectQueue' = [redirectQueue EXCEPT ![1] = job],
             job.lane = redirectQueue[1].lane,
             job.lane = "correct" => job.call = redirectQueue[1].call
      PROVE  ChainStep(redirectQueue, redirectQueue', handledCallIds')
  BY <1>2, <1>4 DEF ChainStep
<1>5. ASSUME NEW attempt \in Nat, NEW dispatches \in Nat, redirectQueue[1] \in SteerJob,
             Reconsider(redirectQueue[1].key, attempt, dispatches)
      PROVE  ChainStep(redirectQueue, redirectQueue', handledCallIds')
  <2> DEFINE job == [redirectQueue[1] EXCEPT !.at = "waiting", !.target = ownerExecution,
                                             !.attempt = attempt, !.dispatches = dispatches]
  <2>1. job \in Job /\ job.lane = "steer" /\ redirectQueue[1].lane = "steer"
    BY <1>5 DEF Job, SteerJob, IInv, TypeOK
  <2>2. \/ redirectQueue' = Tail(redirectQueue)
        \/ redirectQueue' = [redirectQueue EXCEPT ![1] = job]
    BY <1>5 DEF Reconsider, SettleSteer, FinishSteer
  <2> HIDE DEF job
  <2> QED BY <1>3, <1>4, <2>1, <2>2
<1>6. CASE redirectQueue' = [redirectQueue EXCEPT ![1].at = "sent"]
  <2> DEFINE job == [redirectQueue[1] EXCEPT !.at = "sent"]
  <2>1. /\ job \in Job /\ job.lane = redirectQueue[1].lane
        /\ job.lane = "correct" => job.call = redirectQueue[1].call
    BY <1>2, JobLanes DEF Job, SteerJob, CorrectionJob
  <2>2. redirectQueue' = [redirectQueue EXCEPT ![1] = job]
    BY <1>6
  <2> HIDE DEF job
  <2> QED BY <1>1, <1>4, <2>1, <2>2
<1>7. CASE SteerStarts \/ SteerResumes \/ \E outcome \in Outcomes : SteerAnswered(outcome)
  <2>1. SteerAtHead
    BY <1>7 DEF SteerStarts, SteerResumes, SteerAnswered, Running, SteerAtHead
  <2>2. /\ redirectQueue[1] \in SteerJob /\ redirectQueue[1].attempt + 1 \in Nat
        /\ redirectQueue[1].dispatches \in Nat /\ redirectQueue[1].dispatches + 1 \in Nat
    BY <2>1, HeadSteer DEF SteerJob
  <2>3. \/ redirectQueue' = Tail(redirectQueue)
        \/ redirectQueue' = [redirectQueue EXCEPT ![1].at = "sent"]
        \/ \E attempt, dispatches \in Nat :
             Reconsider(redirectQueue[1].key, attempt, dispatches)
    BY <1>7, <2>2 DEF SteerStarts, SteerResumes, SteerAnswered, SettleSteer, FinishSteer
  <2> QED BY <1>1, <1>3, <1>5, <1>6, <2>2, <2>3
<1>8. CASE CorrectionStarts \/ \E outcome \in Outcomes : CorrectionAnswered(outcome)
  <2>1. \/ redirectQueue' = Tail(redirectQueue)
        \/ redirectQueue' = [redirectQueue EXCEPT ![1].at = "sent"]
    BY <1>8 DEF CorrectionStarts, CorrectionAnswered, FinishCorrection
  <2> QED BY <1>1, <1>3, <1>6, <2>1
<1> QED BY <1>1, <1>7, <1>8 DEF RedirectStep

LEMMA ChainMovesOn ==
  ASSUME IInv, [Next]_vars
  PROVE  /\ ChainStep(redirectQueue, redirectQueue', handledCallIds')
         /\ handledCallIds \subseteq handledCallIds'
<1>1. CASE (\E k \in Keys : TurnStep(k) \/ Progress(k)) \/ Abort \/ Revoke \/ UNCHANGED vars
  BY <1>1 DEF TurnStep, TurnStreams, TurnCompletes, TurnFails, OwnerSettles, Deactivate,
              Progress, Abort, Revoke, vars, ChainStep
<1> QED BY <1>1, CallMovesChain, RedirectMovesChain DEF Next

LEMMA TakenKept ==
  ASSUME IInv, CorrectionsTaken, [Next]_vars
  PROVE  CorrectionsTaken'
<1> DEFINE q == redirectQueue
<1>1. ChainStep(q, q', handledCallIds') /\ handledCallIds \subseteq handledCallIds'
  BY ChainMovesOn
<1>2. q \in Seq(Job) /\ \A i \in Places("correct", q) : q[i].call \in handledCallIds'
  BY <1>1 DEF IInv, TypeOK, Job, CorrectionsTaken
<1> SUFFICES \A i \in Places("correct", q') : q'[i].call \in handledCallIds'
  BY DEF CorrectionsTaken
<1> HIDE DEF q
<1>3. CASE q' = q
  BY <1>2, <1>3
<1>4. CASE q # <<>> /\ q' = Tail(q)
  <2>1. \A i \in DOMAIN Tail(q) : i + 1 \in DOMAIN q /\ Tail(q)[i] = q[i + 1]
    BY <1>2, <1>4
  <2>2. \A i \in Places("correct", Tail(q)) :
          i + 1 \in Places("correct", q) /\ Tail(q)[i] = q[i + 1]
    BY <2>1 DEF Places
  <2> QED BY <1>2, <1>4, <2>2
<1>5. ASSUME NEW job \in Job, q # <<>>, q' = [q EXCEPT ![1] = job], job.lane = q[1].lane,
             job.lane = "correct" => job.call = q[1].call
      PROVE  \A i \in Places("correct", q') : q'[i].call \in handledCallIds'
  <2>1. DOMAIN q' = DOMAIN q /\ \A i \in DOMAIN q : q'[i] = IF i = 1 THEN job ELSE q[i]
    BY <1>2, <1>5
  <2> QED BY <1>2, <1>5, <2>1 DEF Places
<1>6. ASSUME NEW job \in Job, q' = Append(q, job),
             job.lane = "correct" => job.call \in handledCallIds'
      PROVE  \A i \in Places("correct", q') : q'[i].call \in handledCallIds'
  <2>1. /\ \A i \in DOMAIN Append(q, job) : i \in DOMAIN q \/ i = Len(q) + 1
        /\ \A i \in DOMAIN q : Append(q, job)[i] = q[i]
        /\ Append(q, job)[Len(q) + 1] = job
    BY <1>2
  <2> QED BY <1>2, <1>6, <2>1 DEF Places
<1> QED BY <1>1, <1>3, <1>4, <1>5, <1>6 DEF ChainStep

\* Nothing that arrives is answered under the id of a call already taken on.
LEMMA TakenNotAnswered ==
  ASSUME IInv, NEW c \in handledCallIds, NEW d \in Calls, HandleToolCall(d)
  PROVE  answers'[c] = answers[c]
<1>1. c \in Calls /\ c # d
  BY DEF IInv, TypeOK, HandleToolCall, RefuseOverBudget, RefuseCall, Reattach, Ask, Correct,
         Accept
<1>2. ASSUME NEW r, Deliver({d}, r) PROVE answers'[c] = answers[c]
  BY <1>1, <1>2 DEF Deliver, IInv, TypeOK
<1>3. NewExecution(d).callIds = {d}
  BY DEF NewExecution, NoExecution
<1>4. ASSUME NEW k \in Keys, Ask(d, k) PROVE answers'[c] = answers[c]
  BY <1>2, <1>3, <1>4 DEF Ask, Settle, StartOwnerTurn
<1>5. CASE RefuseOverBudget(d) \/ RefuseCall(d) \/ Correct(d)
  BY <1>2, <1>5 DEF RefuseOverBudget, RefuseCall, Correct
<1>6. ASSUME NEW k \in Keys, Reattach(d, k) PROVE answers'[c] = answers[c]
  BY <1>2, <1>6 DEF Reattach
<1> QED BY <1>4, <1>5, <1>6 DEF HandleToolCall

\* An answer tells which result was delivered.
LEMMA AnswerTells ==
  ASSUME TypeOK, NEW c \in Calls, NEW calls, NEW r \in Results, Deliver(calls, r),
         NEW q \in Results, answers'[c] = Append(answers[c], q)
  PROVE  q = r
<1>1. answers[c] \in Seq(Results) /\ answers \in [Calls -> Seq(Results)]
  BY DEF TypeOK
<1>2. answers'[c] = answers[c] \/ answers'[c] = Append(answers[c], r)
  BY <1>1 DEF Deliver
<1>3. /\ Append(answers[c], q)[Len(answers[c]) + 1] = q
      /\ Append(answers[c], r)[Len(answers[c]) + 1] = r
      /\ Append(answers[c], q) # answers[c]
  BY <1>1
<1> QED BY <1>2, <1>3

\* Completion wins the race: a correction reports success only while the
\* execution it captured when it was issued is still the live one.
THEOREM CompletionWins == Spec => CorrectionHitsItsTarget
<1> DEFINE Hits ==
      \A c \in Calls :
        /\ Running("correct", "sent") /\ redirectQueue[1].call = c
        /\ answers'[c] \in {Append(answers[c], "redirected"), Append(answers[c], "queued")}
        => activeExecution = redirectQueue[1].target
<1>1. IInv /\ CorrectionsTaken /\ [Next]_vars => [Hits]_vars
  <2> SUFFICES ASSUME IInv, CorrectionsTaken, [Next]_vars, NEW c \in Calls,
                      Running("correct", "sent"), redirectQueue[1].call = c,
                      NEW said \in {"redirected", "queued"},
                      answers'[c] = Append(answers[c], said)
               PROVE  activeExecution = redirectQueue[1].target
    OBVIOUS
  <2>1. c \in handledCallIds
    <3>1. 1 \in Places("correct", redirectQueue)
      BY DEF Running, IInv, TypeOK, Places
    <3> QED BY <3>1 DEF CorrectionsTaken
  <2>2. answers'[c] # answers[c] /\ said \in Results
    BY DEF IInv, TypeOK, Results
  <2>3. CASE \E d \in Calls : HandleToolCall(d)
    BY <2>1, <2>2, <2>3, TakenNotAnswered
  <2>4. CASE RedirectStep
    <3>1. ~(SteerStarts \/ SteerResumes \/ CorrectionStarts)
          /\ \A outcome \in Outcomes : ~SteerAnswered(outcome)
      BY DEF SteerStarts, SteerResumes, SteerAnswered, CorrectionStarts, Running
    <3>2. PICK outcome \in Outcomes : CorrectionAnswered(outcome)
      BY <2>4, <3>1 DEF RedirectStep
    <3>3. StillActive(redirectQueue[1].target)
      <4> SUFFICES ASSUME ~StillActive(redirectQueue[1].target) PROVE FALSE
        OBVIOUS
      <4>1. \E r \in {"rejected", "nothing_active"} : Deliver({redirectQueue[1].call}, r)
        BY <3>2 DEF CorrectionAnswered, FinishCorrection
      <4> QED BY <2>2, <4>1, AnswerTells DEF IInv, Results
    <3> QED BY <3>3 DEF StillActive
  <2>5. ASSUME NEW k \in Keys, TurnStep(k) PROVE FALSE
    <3>1. \/ answers' = answers
          \/ \E calls : \E r \in {"answered", "upstream_unavailable"} : Deliver(calls, r)
      <4>1. CASE TurnStreams(k) \/ TurnCompletes(k) \/ TurnFails(k)
        BY <4>1 DEF TurnStreams, TurnCompletes, TurnFails, Deactivate
      <4>2. CASE OwnerSettles(k)
        BY <4>2 DEF OwnerSettles, Settle
      <4> QED BY <2>5, <4>1, <4>2 DEF TurnStep
    <3> QED BY <2>2, <3>1, AnswerTells DEF IInv, Results
  <2>6. CASE (\E k \in Keys : Progress(k)) \/ Abort \/ Revoke \/ UNCHANGED vars
    BY <2>2, <2>6 DEF Progress, Abort, Revoke, vars
  <2> QED BY <2>3, <2>4, <2>5, <2>6 DEF Next
<1>2. Init => CorrectionsTaken
  BY DEF Init, CorrectionsTaken, Places
<1>3. Spec => [](IInv /\ CorrectionsTaken)
  BY <1>2, Invariance, TakenKept, PTL DEF Spec
<1>4. CorrectionHitsItsTarget <=> [][Hits]_vars
  BY DEF CorrectionHitsItsTarget
<1> HIDE DEF Hits
<1> QED BY <1>1, <1>3, <1>4, PTL DEF Spec

-----------------------------------------------------------------------------
(* Each call that was taken on is answered at most once *)

\* The Realtime API takes one output per call id.
AnsweredAtMostOnce == \A c \in handledCallIds : Len(answers[c]) <= 1

\* Calls taken on that wait for an answer no execution gives.
OpenCorrections ==
  {c \in handledCallIds : answers[c] = <<>> /\ \A k \in Keys : c \notin exec[k].callIds}

\* Instructions that wait in the chain and have not been answered.
OpenSteers == {k \in Waiting : exec[k].result = "none"}

\* Every correction of the chain has a call of the set, and no two of them the same.
Aimed(chain, open) ==
  /\ \A i \in Places("correct", chain) : chain[i].call \in open
  /\ \A i, j \in Places("correct", chain) : chain[i].call = chain[j].call => i = j

\* Each call taken on is owed its answer by one execution or by one correction,
\* which is settled once; a call refused for the budget is never taken on later.
Owed ==
  /\ \A k \in Keys : exec[k].callIds \subseteq handledCallIds
  /\ \A k, m \in Keys : \A c \in exec[k].callIds : c \in exec[m].callIds => k = m
  /\ \A k \in Keys : exec[k].result = "none" => \A c \in exec[k].callIds : answers[c] = <<>>
  /\ \A k \in Keys : exec[k].turn \in {"open", "live", "completed", "failed"} =>
       exec[k].result = "none"
  /\ IsFiniteSet(handledCallIds)
  /\ \A c \in Calls \ handledCallIds :
       answers[c] # <<>> => Cardinality(handledCallIds) >= MaxToolCalls

Once ==
  /\ AnsweredAtMostOnce /\ Owed
  /\ Aimed(redirectQueue, OpenCorrections)
  /\ Lined(redirectQueue, OpenSteers)

LEMMA AimedStep ==
  ASSUME NEW q \in Seq(Job), NEW next, NEW W, NEW V, Aimed(q, W),
         \/ next = q /\ W \subseteq V
         \/ /\ q # <<>> /\ next = Tail(q)
            /\ \A c \in W : c \in V \/ (q[1].lane = "correct" /\ c = q[1].call)
         \/ \E job \in Job : /\ q # <<>> /\ next = [q EXCEPT ![1] = job]
                             /\ job.lane = q[1].lane /\ W \subseteq V
                             /\ job.lane = "correct" => job.call = q[1].call
         \/ \E job \in Job : /\ next = Append(q, job) /\ W \subseteq V
                             /\ job.lane = "correct" => job.call \in V \ W
  PROVE  Aimed(next, V)
<1>1. ASSUME W \subseteq V, NEW t,
             \A i \in Places("correct", t) : i \in Places("correct", q) /\ t[i].call = q[i].call
      PROVE  Aimed(t, V)
  BY <1>1 DEF Aimed
<1>2. CASE next = q /\ W \subseteq V
  BY <1>2 DEF Aimed
<1>3. CASE /\ q # <<>> /\ next = Tail(q)
           /\ \A c \in W : c \in V \/ (q[1].lane = "correct" /\ c = q[1].call)
  <2>1. /\ \A i \in DOMAIN Tail(q) : i + 1 \in DOMAIN q /\ Tail(q)[i] = q[i + 1] /\ i \in Nat \ {0}
        /\ 1 \in DOMAIN q
    BY <1>3
  <2>2. \A i \in Places("correct", next) :
          i + 1 \in Places("correct", q) /\ next[i] = q[i + 1] /\ i \in Nat \ {0}
    BY <1>3, <2>1 DEF Places
  <2>3. \A i \in Places("correct", next) : next[i].call \in V
    <3> SUFFICES ASSUME NEW i \in Places("correct", next), next[i].call \notin V PROVE FALSE
      OBVIOUS
    <3>1. q[1].lane = "correct" /\ q[i + 1].call = q[1].call
      BY <1>3, <2>2 DEF Aimed
    <3>2. 1 \in Places("correct", q) /\ i + 1 # 1
      BY <2>1, <2>2, <3>1 DEF Places
    <3> QED BY <2>2, <3>1, <3>2 DEF Aimed
  <2>4. ASSUME NEW i \in Places("correct", next), NEW j \in Places("correct", next),
               next[i].call = next[j].call
        PROVE  i = j
    <3>1. q[i + 1].call = q[j + 1].call /\ i \in Nat /\ j \in Nat
      BY <2>2, <2>4
    <3>2. i + 1 = j + 1
      BY <2>2, <3>1 DEF Aimed
    <3> QED BY <3>1, <3>2
  <2> QED BY <2>3, <2>4 DEF Aimed
<1>4. ASSUME NEW job \in Job, q # <<>>, next = [q EXCEPT ![1] = job], job.lane = q[1].lane,
             W \subseteq V, job.lane = "correct" => job.call = q[1].call
      PROVE  Aimed(next, V)
  <2>1. DOMAIN next = DOMAIN q /\ \A i \in DOMAIN q : next[i] = IF i = 1 THEN job ELSE q[i]
    BY <1>4
  <2>2. \A i \in Places("correct", next) : i \in Places("correct", q) /\ next[i].call = q[i].call
    BY <1>4, <2>1 DEF Places
  <2> QED BY <1>1, <1>4, <2>2
<1>5. ASSUME NEW job \in Job, next = Append(q, job), W \subseteq V,
             job.lane = "correct" => job.call \in V \ W
      PROVE  Aimed(next, V)
  <2>1. /\ \A i \in DOMAIN Append(q, job) : i \in DOMAIN q \/ i = Len(q) + 1
        /\ \A i \in DOMAIN q : Append(q, job)[i] = q[i]
        /\ Append(q, job)[Len(q) + 1] = job
    OBVIOUS
  <2>2. \A i \in Places("correct", next) :
          \/ i \in Places("correct", q) /\ next[i] = q[i]
          \/ i = Len(q) + 1 /\ next[i] = job /\ job.lane = "correct"
    BY <1>5, <2>1 DEF Places
  <2>3. \A i \in Places("correct", q) : q[i].call \in W /\ q[i].call \in V
    BY <1>5 DEF Aimed
  <2>4. \A i \in Places("correct", next) : next[i].call \in V
    BY <1>5, <2>2, <2>3
  <2>5. ASSUME NEW i \in Places("correct", next), NEW j \in Places("correct", next),
               next[i].call = next[j].call
        PROVE  i = j
    <3>1. CASE i \in Places("correct", q) /\ next[i] = q[i]
               /\ j \in Places("correct", q) /\ next[j] = q[j]
      BY <2>5, <3>1 DEF Aimed
    <3> QED BY <1>5, <2>2, <2>3, <2>5, <3>1
  <2> QED BY <2>4, <2>5 DEF Aimed
<1> QED BY <1>2, <1>3, <1>4, <1>5

\* Nobody who was answered is answered again.
SpeaksOnce(said) ==
  /\ \A c \in Calls : c \notin said => answers'[c] = answers[c]
  /\ \A c \in Calls : c \in said => c \in handledCallIds' /\ Len(answers'[c]) <= 1

LEMMA DeliveredOnce ==
  ASSUME TypeOK, NEW calls, NEW r \in Results, Deliver(calls, r), calls \subseteq handledCallIds',
         \A c \in calls : answers[c] = <<>>
  PROVE  SpeaksOnce(calls)
<1>1. answers \in [Calls -> Seq(Results)]
  BY DEF TypeOK
<1>2. \A c \in Calls : c \notin calls => answers'[c] = answers[c]
  BY <1>1 DEF Deliver
<1>3. \A c \in Calls : c \in calls => answers'[c] \in {answers[c], Append(answers[c], r)}
  BY <1>1 DEF Deliver
<1>4. \A c \in Calls : c \in calls => Len(answers'[c]) <= 1
  <2> SUFFICES ASSUME NEW c \in Calls, c \in calls PROVE Len(answers'[c]) <= 1
    OBVIOUS
  <2>1. answers[c] \in Seq(Results) /\ Len(answers[c]) = 0
    BY <1>1
  <2>2. Len(Append(answers[c], r)) = 1
    BY <2>1
  <2> QED BY <1>3, <2>1, <2>2
<1> QED BY <1>2, <1>4 DEF SpeaksOnce

\* A step that takes on no call and leaves every execution its calls.
LEMMA OwedKept ==
  ASSUME IInv, Once, NEW said, SpeaksOnce(said), handledCallIds' = handledCallIds,
         \A k \in Keys : /\ exec'[k].callIds = exec[k].callIds
                         /\ exec'[k].result = "none" => /\ exec[k].result = "none"
                                                        /\ \A c \in exec[k].callIds : c \notin said
                         /\ exec'[k].turn \in {"open", "live", "completed", "failed"} =>
                              exec'[k].result = "none"
  PROVE  /\ Owed' /\ AnsweredAtMostOnce'
         /\ \A c \in OpenCorrections : c \notin said => c \in OpenCorrections'
<1>1. handledCallIds \subseteq Calls
  BY DEF IInv, TypeOK
<1>2. AnsweredAtMostOnce'
  BY <1>1 DEF Once, AnsweredAtMostOnce, SpeaksOnce
<1>3. \A k \in Keys : exec'[k].result = "none" => \A c \in exec'[k].callIds : answers'[c] = <<>>
  BY <1>1 DEF Once, Owed, SpeaksOnce
<1>4. \A c \in Calls \ handledCallIds' : answers'[c] = answers[c]
  BY DEF SpeaksOnce
<1>5. Owed'
  BY <1>3, <1>4 DEF Once, Owed
<1>6. \A c \in OpenCorrections : c \notin said => c \in OpenCorrections'
  BY <1>1 DEF OpenCorrections, SpeaksOnce
<1> QED BY <1>2, <1>5, <1>6

\* A step that says nothing and changes no execution the proof looks at.
LEMMA OnceIdle ==
  ASSUME IInv, Once, UNCHANGED <<handledCallIds, answers>>,
         \A k \in Keys : /\ exec'[k].callIds = exec[k].callIds
                         /\ exec'[k].result = exec[k].result
                         /\ exec'[k].turn \in {"open", "live", "completed", "failed"} =>
                              exec[k].turn \in {"open", "live", "completed", "failed"}
  PROVE  /\ Owed' /\ AnsweredAtMostOnce'
         /\ OpenCorrections \subseteq OpenCorrections'
<1>1. SpeaksOnce({})
  BY DEF SpeaksOnce
<1>2. \A k \in Keys : exec'[k].turn \in {"open", "live", "completed", "failed"} =>
        exec'[k].result = "none"
  BY DEF Once, Owed
<1> QED BY <1>1, <1>2, OwedKept

\* A steer at the head waits for an answer its calls still need.
LEMMA HeadOpen ==
  ASSUME IInv, Once, SteerAtHead
  PROVE  /\ redirectQueue[1].key \in OpenSteers /\ redirectQueue[1].key \in Keys
         /\ exec[redirectQueue[1].key] \in Execution
         /\ exec[redirectQueue[1].key].callIds \subseteq handledCallIds
         /\ \A c \in exec[redirectQueue[1].key].callIds : answers[c] = <<>> /\ c \notin OpenCorrections
         /\ redirectQueue \in Seq(Job) /\ redirectQueue # <<>>
         /\ redirectQueue[1].lane = "steer"
<1>1. redirectQueue[1].key \in OpenSteers /\ redirectQueue[1].key \in Keys
  BY HeadSteer DEF Once, Lined
<1>2. exec[redirectQueue[1].key].result = "none"
  BY <1>1 DEF OpenSteers
<1> QED BY <1>1, <1>2, HeadSteer DEF Once, Owed, OpenCorrections, SteerAtHead, IInv, TypeOK

\* A steer leaves the chain: answered with its calls, or as the owner of a turn.
LEMMA SteerLeavesOnce ==
  ASSUME IInv, Once, SteerAtHead, redirectQueue' = Tail(redirectQueue), NEW said,
         Owed', AnsweredAtMostOnce',
         \A c \in OpenCorrections : c \notin said => c \in OpenCorrections',
         said \subseteq exec[redirectQueue[1].key].callIds,
         \A k \in Keys : k # redirectQueue[1].key =>
           /\ exec'[k].known = exec[k].known /\ exec'[k].turn = exec[k].turn
           /\ exec'[k].result = exec[k].result /\ tries'[k].landed = tries[k].landed
  PROVE  Once'
<1>1. redirectQueue \in Seq(Job) /\ redirectQueue # <<>> /\ redirectQueue[1].lane = "steer"
  BY HeadOpen
<1>2. OpenCorrections \subseteq OpenCorrections'
  BY HeadOpen
<1>3. Aimed(redirectQueue', OpenCorrections')
  BY <1>1, <1>2, AimedStep DEF Once
<1>4. \A k \in OpenSteers : k \in OpenSteers' \/ k = redirectQueue[1].key
  BY DEF OpenSteers, Waiting
<1>5. Lined(redirectQueue', OpenSteers')
  BY <1>1, <1>4, LinedTail DEF Once
<1> QED BY <1>3, <1>5 DEF Once

\* The calls of a steer are answered while it leaves the chain.
LEMMA SteerAnswersOnce ==
  ASSUME IInv, Once, SteerAtHead, redirectQueue' = Tail(redirectQueue),
         handledCallIds' = handledCallIds,
         NEW r \in Results, Deliver(exec[redirectQueue[1].key].callIds, r),
         exec'[redirectQueue[1].key].result # "none",
         \A k \in Keys : /\ exec'[k].callIds = exec[k].callIds
                         /\ exec'[k].known = exec[k].known /\ exec'[k].turn = exec[k].turn,
         \A k \in Keys : k # redirectQueue[1].key =>
           exec'[k].result = exec[k].result /\ tries'[k].landed = tries[k].landed
  PROVE  Once'
<1> DEFINE k == redirectQueue[1].key
           said == exec[k].callIds
<1>1. /\ k \in Keys /\ k \in OpenSteers /\ said \subseteq handledCallIds
      /\ \A c \in said : answers[c] = <<>>
  BY HeadOpen
<1>2. SpeaksOnce(said)
  BY <1>1, DeliveredOnce DEF IInv
<1>3. exec[k].turn = "none"
  BY <1>1 DEF OpenSteers, Waiting
<1>4. \A m \in Keys : /\ exec'[m].result = "none" => /\ exec[m].result = "none"
                                                     /\ \A c \in exec[m].callIds : c \notin said
                      /\ exec'[m].turn \in {"open", "live", "completed", "failed"} =>
                           exec'[m].result = "none"
  BY <1>1, <1>3 DEF Once, Owed
<1>5. /\ Owed' /\ AnsweredAtMostOnce'
      /\ \A c \in OpenCorrections : c \notin said => c \in OpenCorrections'
  BY <1>2, <1>4, OwedKept
<1> QED BY <1>5, SteerLeavesOnce

LEMMA SettleSteerOnce ==
  ASSUME IInv, Once, SteerAtHead, NEW r \in Results, SettleSteer(redirectQueue[1].key, r),
         handledCallIds' = handledCallIds
  PROVE  Once'
<1> DEFINE k == redirectQueue[1].key
<1>1. /\ exec' = [exec EXCEPT ![k] = [exec[k] EXCEPT !.result = r]]
      /\ Deliver(exec[k].callIds, r) /\ tries' = tries /\ redirectQueue' = Tail(redirectQueue)
  BY DEF SettleSteer, Settle, FinishSteer
<1>2. k \in Keys /\ exec[k] \in Execution
  BY HeadOpen
<1>3. /\ \A m \in Keys : /\ exec'[m].callIds = exec[m].callIds
                         /\ exec'[m].known = exec[m].known /\ exec'[m].turn = exec[m].turn
      /\ \A m \in Keys : m # k => exec'[m].result = exec[m].result
      /\ exec'[k].result = r
  BY <1>1, <1>2 DEF Execution, IInv, TypeOK
<1>4. r # "none"
  BY DEF Results
<1> QED BY <1>1, <1>3, <1>4, SteerAnswersOnce

LEMMA ReconsiderOnce ==
  ASSUME IInv, Once, SteerAtHead, NEW attempt \in Nat, NEW dispatches \in Nat,
         Reconsider(redirectQueue[1].key, attempt, dispatches),
         handledCallIds' = handledCallIds, redirectQueue[1] \in SteerJob
  PROVE  Once'
<1> DEFINE k == redirectQueue[1].key
<1>1. /\ k \in Keys /\ exec[k] \in Execution /\ redirectQueue \in Seq(Job)
      /\ redirectQueue # <<>> /\ redirectQueue[1].lane = "steer"
  BY HeadOpen
<1>2. CASE SettleSteer(k, "cancelled") \/ SettleSteer(k, "busy")
  BY <1>2, SettleSteerOnce DEF Results
<1>3. CASE StartOwnerTurn(k, exec[k]) /\ FinishSteer
  <2>1. /\ exec' = [exec EXCEPT ![k] = [exec[k] EXCEPT !.turn = "open"]]
        /\ tries' = [tries EXCEPT ![k].landed = @ + 1]
        /\ answers' = answers /\ redirectQueue' = Tail(redirectQueue)
    BY <1>3 DEF StartOwnerTurn, FinishSteer
  <2>2. /\ \A m \in Keys : /\ exec'[m].callIds = exec[m].callIds
                           /\ exec'[m].known = exec[m].known
                           /\ exec'[m].result = exec[m].result
        /\ \A m \in Keys : m # k => exec'[m].turn = exec[m].turn
        /\ \A m \in Keys : m # k => tries'[m].landed = tries[m].landed
    BY <1>1, <2>1 DEF Execution, IInv, TypeOK
  <2>3. exec'[k].result = "none"
    BY <1>1, <2>2, HeadOpen DEF OpenSteers
  <2>4. \A m \in Keys : exec'[m].turn \in {"open", "live", "completed", "failed"} =>
          exec'[m].result = "none"
    BY <2>2, <2>3 DEF Once, Owed
  <2>5. SpeaksOnce({})
    BY <2>1 DEF SpeaksOnce
  <2>6. Owed' /\ AnsweredAtMostOnce' /\ \A c \in OpenCorrections : c \in OpenCorrections'
    BY <2>2, <2>4, <2>5, OwedKept
  <2> QED BY <2>1, <2>2, <2>6, SteerLeavesOnce
<1>4. CASE /\ redirectQueue' = [redirectQueue EXCEPT
                ![1] = [@ EXCEPT !.at = "waiting", !.target = ownerExecution,
                                 !.attempt = attempt, !.dispatches = dispatches]]
           /\ UNCHANGED <<exec, answers, tries>>
  <2> DEFINE job == [redirectQueue[1] EXCEPT !.at = "waiting", !.target = ownerExecution,
                                             !.attempt = attempt, !.dispatches = dispatches]
  <2>1. job \in Job /\ job.lane = "steer" /\ job.key = k
    BY <1>1 DEF Job, SteerJob, IInv, TypeOK
  <2>2. redirectQueue' = [redirectQueue EXCEPT ![1] = job]
    BY <1>4
  <2> HIDE DEF job
  <2>3. /\ Owed' /\ AnsweredAtMostOnce' /\ OpenCorrections \subseteq OpenCorrections'
        /\ OpenSteers \subseteq OpenSteers'
    BY <1>4, OnceIdle DEF OpenSteers, Waiting
  <2>4. Aimed(redirectQueue', OpenCorrections')
    BY <1>1, <2>1, <2>2, <2>3, AimedStep DEF Once
  <2>5. Lined(redirectQueue', OpenSteers')
    BY <1>1, <2>1, <2>2, <2>3, LinedHead DEF Once
  <2> QED BY <2>3, <2>4, <2>5 DEF Once
<1> QED BY <1>2, <1>3, <1>4 DEF Reconsider

LEMMA SteerStepOnce ==
  ASSUME IInv, Once, SteerStarts \/ SteerResumes
  PROVE  Once'
<1>1. SteerAtHead /\ handledCallIds' = handledCallIds
  BY DEF SteerStarts, SteerResumes, Running, SteerAtHead
<1>2. redirectQueue[1] \in SteerJob
  BY <1>1, HeadSteer
<1>3. CASE SteerStarts
  BY <1>1, <1>2, <1>3, ReconsiderOnce DEF SteerStarts
<1>4. CASE SteerResumes
  <2>1. redirectQueue[1].attempt + 1 \in Nat /\ redirectQueue[1].dispatches \in Nat
    BY <1>2 DEF SteerJob
  <2>2. CASE SettleSteer(redirectQueue[1].key, "cancelled")
    BY <1>1, <2>2, SettleSteerOnce DEF Results
  <2>3. CASE Reconsider(redirectQueue[1].key, redirectQueue[1].attempt + 1,
                        redirectQueue[1].dispatches)
    BY <1>1, <1>2, <2>1, <2>3, ReconsiderOnce
  <2>4. CASE /\ redirectQueue' = [redirectQueue EXCEPT ![1].at = "sent"]
             /\ tries' = [tries EXCEPT ![redirectQueue[1].key].redirects = @ + 1]
             /\ UNCHANGED <<exec, answers>>
    <3> DEFINE job == [redirectQueue[1] EXCEPT !.at = "sent"]
    <3>1. job \in Job /\ job.lane = "steer" /\ job.key = redirectQueue[1].key
      BY <1>2 DEF Job, SteerJob
    <3>2. redirectQueue' = [redirectQueue EXCEPT ![1] = job]
      BY <2>4
    <3> HIDE DEF job
    <3>3. \A k \in Keys : tries'[k].landed = tries[k].landed
      BY <1>1, <2>4, HeadSteer DEF IInv, TypeOK
    <3>4. /\ Owed' /\ AnsweredAtMostOnce' /\ OpenCorrections \subseteq OpenCorrections'
          /\ OpenSteers \subseteq OpenSteers'
      BY <1>1, <2>4, <3>3, OnceIdle DEF OpenSteers, Waiting
    <3>5. redirectQueue \in Seq(Job) /\ redirectQueue # <<>> /\ redirectQueue[1].lane = "steer"
      BY <1>1, HeadOpen
    <3>6. Aimed(redirectQueue', OpenCorrections')
      BY <3>1, <3>2, <3>4, <3>5, AimedStep DEF Once
    <3>7. Lined(redirectQueue', OpenSteers')
      BY <3>1, <3>2, <3>4, <3>5, LinedHead DEF Once
    <3> QED BY <3>4, <3>6, <3>7 DEF Once
  <2> QED BY <1>4, <2>2, <2>3, <2>4 DEF SteerResumes
<1> QED BY <1>3, <1>4

LEMMA SteerAnsweredOnce ==
  ASSUME IInv, Once, NEW outcome \in Outcomes, SteerAnswered(outcome)
  PROVE  Once'
<1> DEFINE job == redirectQueue[1]
           k == redirectQueue[1].key
<1>1. SteerAtHead /\ handledCallIds' = handledCallIds /\ job.at = "sent"
  BY DEF SteerAnswered, Running, SteerAtHead
<1>2. k \in Keys /\ exec[k] \in Execution /\ job \in SteerJob
  BY <1>1, HeadOpen, HeadSteer
<1>3. CASE outcome \in {"redirected", "queued"}
  <2> DEFINE ack == IF outcome = "redirected" THEN "steered" ELSE "queued"
             e == [exec[k] EXCEPT !.result = ack]
  <2>1. /\ exec' = IF outcome = "queued"
                   THEN [exec EXCEPT ![job.target].queuedFollowOns = @ + 1, ![k] = e]
                   ELSE [exec EXCEPT ![k] = e]
        /\ Deliver(exec[k].callIds, ack) /\ redirectQueue' = Tail(redirectQueue)
        /\ tries' = [tries EXCEPT ![k].landed = @ + 1]
    BY <1>3 DEF SteerAnswered, FinishSteer
  <2>2. /\ e.known = exec[k].known /\ e.turn = exec[k].turn /\ e.callIds = exec[k].callIds
        /\ e.result = ack
    BY <1>2 DEF Execution
  <2>3. ack \in Results /\ ack # "none"
    BY DEF Results
  <2> HIDE DEF e, ack
  <2>4. /\ \A m \in Keys : /\ exec'[m].callIds = exec[m].callIds
                           /\ exec'[m].known = exec[m].known /\ exec'[m].turn = exec[m].turn
        /\ \A m \in Keys : m # k => exec'[m].result = exec[m].result
        /\ exec'[k].result = ack
    <3>1. exec \in [Keys -> Execution]
      BY DEF IInv, TypeOK
    <3>2. \A m \in Keys : LET o == [exec[m] EXCEPT !.queuedFollowOns = @ + 1]
                          IN /\ o.callIds = exec[m].callIds /\ o.known = exec[m].known
                             /\ o.turn = exec[m].turn /\ o.result = exec[m].result
      BY <3>1 DEF Execution
    <3>3. exec'[k] = e
      BY <1>2, <2>1, <3>1
    <3>4. \A m \in Keys : m # k =>
            exec'[m] \in {exec[m], [exec[m] EXCEPT !.queuedFollowOns = @ + 1]}
      BY <2>1, <3>1
    <3>5. \A m \in Keys : m # k =>
            /\ exec'[m].callIds = exec[m].callIds /\ exec'[m].known = exec[m].known
            /\ exec'[m].turn = exec[m].turn /\ exec'[m].result = exec[m].result
      BY <3>2, <3>4
    <3> QED BY <2>2, <3>3, <3>5
  <2>5. \A m \in Keys : m # k => tries'[m].landed = tries[m].landed
    BY <2>1 DEF IInv, TypeOK
  <2> QED BY <1>1, <2>1, <2>3, <2>4, <2>5, SteerAnswersOnce
<1>4. CASE outcome \in {"rejected", "throws"}
  <2>1. PICK r \in {"upstream_unavailable", "busy"} : Settle(k, exec[k], r)
    BY <1>4 DEF SteerAnswered
  <2>2. PICK n \in {0, 1} : tries' = [tries EXCEPT ![k].landed = @ + n]
    BY <1>4 DEF SteerAnswered
  <2>3. /\ exec' = [exec EXCEPT ![k] = [exec[k] EXCEPT !.result = r]]
        /\ Deliver(exec[k].callIds, r) /\ redirectQueue' = Tail(redirectQueue)
    BY <1>4, <2>1 DEF SteerAnswered, Settle, FinishSteer
  <2>4. /\ \A m \in Keys : /\ exec'[m].callIds = exec[m].callIds
                           /\ exec'[m].known = exec[m].known /\ exec'[m].turn = exec[m].turn
        /\ \A m \in Keys : m # k => exec'[m].result = exec[m].result
        /\ exec'[k].result = r
    BY <1>2, <2>3 DEF Execution, IInv, TypeOK
  <2>5. \A m \in Keys : m # k => tries'[m].landed = tries[m].landed
    BY <2>2 DEF IInv, TypeOK
  <2>6. r \in Results /\ r # "none"
    BY DEF Results
  <2> QED BY <1>1, <2>3, <2>4, <2>5, <2>6, SteerAnswersOnce
<1>5. CASE outcome = "nothing_active"
  <2>1. job.attempt + 1 \in Nat /\ job.dispatches + 1 \in Nat
    BY <1>2 DEF SteerJob
  <2>2. Reconsider(k, job.attempt + 1, job.dispatches + 1)
    BY <1>5 DEF SteerAnswered
  <2> QED BY <1>1, <1>2, <2>1, <2>2, ReconsiderOnce
<1> QED BY <1>3, <1>4, <1>5 DEF Outcomes

LEMMA CorrectionStepOnce ==
  ASSUME IInv, Once, CorrectionStarts \/ \E outcome \in Outcomes : CorrectionAnswered(outcome)
  PROVE  Once'
<1> DEFINE c == redirectQueue[1].call
<1>1. /\ redirectQueue \in Seq(Job) /\ redirectQueue # <<>>
      /\ redirectQueue[1].lane = "correct" /\ redirectQueue[1] \in CorrectionJob
      /\ UNCHANGED <<handledCallIds, exec, tries>>
  <2>1. redirectQueue \in Seq(Job)
    BY DEF IInv, TypeOK, Job
  <2>2. /\ redirectQueue # <<>> /\ redirectQueue[1].lane = "correct"
        /\ UNCHANGED <<handledCallIds, exec, tries>>
    BY DEF CorrectionStarts, CorrectionAnswered, Running
  <2> QED BY <2>1, <2>2, JobLanes
<1>2. OpenSteers' = OpenSteers
  BY <1>1 DEF OpenSteers, Waiting
<1>3. c \in OpenCorrections
  <2>1. 1 \in Places("correct", redirectQueue)
    BY <1>1 DEF Places
  <2> QED BY <2>1 DEF Once, Aimed
<1>4. ASSUME NEW r \in Results, FinishCorrection(r) PROVE Once'
  <2>1. SpeaksOnce({c})
    BY <1>1, <1>3, <1>4, DeliveredOnce DEF FinishCorrection, OpenCorrections, IInv
  <2>2. \A k \in Keys : \A d \in exec[k].callIds : d \notin {c}
    BY <1>3 DEF OpenCorrections
  <2>3. \A k \in Keys : exec[k].turn \in {"open", "live", "completed", "failed"} =>
          exec[k].result = "none"
    BY DEF Once, Owed
  <2>4. /\ Owed' /\ AnsweredAtMostOnce'
        /\ \A d \in OpenCorrections : d \notin {c} => d \in OpenCorrections'
    BY <1>1, <2>1, <2>2, <2>3, OwedKept
  <2>5. redirectQueue' = Tail(redirectQueue)
    BY <1>4 DEF FinishCorrection
  <2>6. Aimed(redirectQueue', OpenCorrections')
    BY <1>1, <2>4, <2>5, AimedStep DEF Once
  <2>7. Lined(redirectQueue', OpenSteers')
    BY <1>1, <1>2, <2>5, LinedTail DEF Once
  <2> QED BY <2>4, <2>6, <2>7 DEF Once
<1>5. CASE redirectQueue' = [redirectQueue EXCEPT ![1].at = "sent"] /\ answers' = answers
  <2> DEFINE job == [redirectQueue[1] EXCEPT !.at = "sent"]
  <2>1. job \in Job /\ job.lane = "correct" /\ job.call = c
    BY <1>1 DEF Job, CorrectionJob
  <2>2. redirectQueue' = [redirectQueue EXCEPT ![1] = job]
    BY <1>5
  <2> HIDE DEF job
  <2>3. Owed' /\ AnsweredAtMostOnce' /\ OpenCorrections \subseteq OpenCorrections'
    BY <1>1, <1>5, OnceIdle
  <2>4. Aimed(redirectQueue', OpenCorrections')
    BY <1>1, <2>1, <2>2, <2>3, AimedStep DEF Once
  <2>5. Lined(redirectQueue', OpenSteers')
    BY <1>1, <1>2, <2>1, <2>2, LinedHead DEF Once
  <2> QED BY <2>3, <2>4, <2>5 DEF Once
<1>6. CASE CorrectionStarts
  BY <1>4, <1>5, <1>6 DEF CorrectionStarts, Results
<1>7. ASSUME NEW outcome \in Outcomes, CorrectionAnswered(outcome) PROVE Once'
  <2>1. \E r \in {"rejected", "nothing_active", outcome} :
          r # "throws" /\ FinishCorrection(r)
    BY <1>7 DEF CorrectionAnswered
  <2> QED BY <1>4, <2>1 DEF Outcomes, Results
<1> QED BY <1>6, <1>7

\* The owner's turn, its settling apart, and the end of the call answer nothing.
LEMMA TurnOnce ==
  ASSUME IInv, Once,
         (\E k \in Keys : TurnStep(k) \/ Progress(k)) \/ Abort \/ Revoke \/ UNCHANGED vars
  PROVE  Once'
<1>1. UNCHANGED <<handledCallIds, redirectQueue, tries>> /\ exec \in [Keys -> Execution]
  BY DEF TurnStep, TurnStreams, TurnCompletes, TurnFails, OwnerSettles, Deactivate, Progress,
         Abort, Revoke, vars, IInv, TypeOK
<1>2. ASSUME NEW said, SpeaksOnce(said),
             \A c \in OpenCorrections : c \notin said,
             \A k \in Keys :
               /\ exec'[k].callIds = exec[k].callIds /\ exec'[k].known = exec[k].known
               /\ exec[k].turn = "none" => exec'[k].turn = "none" /\ exec'[k].result = exec[k].result
               /\ exec'[k].result = "none" => /\ exec[k].result = "none"
                                              /\ \A c \in exec[k].callIds : c \notin said
               /\ exec'[k].turn \in {"open", "live", "completed", "failed"} =>
                    exec'[k].result = "none"
      PROVE  Once'
  <2>1. Owed' /\ AnsweredAtMostOnce' /\ OpenCorrections \subseteq OpenCorrections'
    BY <1>1, <1>2, OwedKept
  <2>2. OpenSteers \subseteq OpenSteers'
    BY <1>1, <1>2 DEF OpenSteers, Waiting
  <2>3. redirectQueue \in Seq(Job)
    BY DEF IInv, TypeOK, Job
  <2>4. Aimed(redirectQueue', OpenCorrections')
    BY <1>1, <2>1, <2>3, AimedStep DEF Once
  <2>5. Lined(redirectQueue', OpenSteers')
    BY <1>1, <2>2, LinedGrows DEF Once
  <2> QED BY <2>1, <2>4, <2>5 DEF Once
<1>3. ASSUME answers' = answers,
             \A k \in Keys :
               /\ exec'[k].callIds = exec[k].callIds /\ exec'[k].known = exec[k].known
               /\ exec'[k].result = exec[k].result
               /\ exec'[k].turn = "none" <=> exec[k].turn = "none"
               /\ exec'[k].turn = "done" <=> exec[k].turn = "done"
               /\ exec'[k].turn \in Turns
      PROVE  Once'
  <2>1. SpeaksOnce({})
    BY <1>3 DEF SpeaksOnce
  <2>2. \A k \in Keys : exec'[k].turn \in {"open", "live", "completed", "failed"} =>
          exec'[k].result = "none"
    <3>1. \A k \in Keys : exec[k].turn \in Turns
      BY <1>1 DEF Execution
    <3> QED BY <1>3, <3>1 DEF Once, Owed, Turns
  <2> QED BY <1>2, <1>3, <2>1, <2>2
<1>4. ASSUME NEW k \in Keys, TurnStreams(k) \/ Progress(k) \/ TurnCompletes(k) \/ TurnFails(k)
      PROVE  Once'
  <2>1. answers' = answers
    BY <1>4 DEF TurnStreams, Progress, TurnCompletes, TurnFails, Deactivate
  <2>2. PICK e : /\ exec' = [exec EXCEPT ![k] = e]
                 /\ e.callIds = exec[k].callIds /\ e.known = exec[k].known
                 /\ e.result = exec[k].result
                 /\ e.turn \in {"live", "completed", "failed"}
    <3>1. exec[k] \in Execution /\ exec[k].turn \in {"open", "live"}
      BY <1>1, <1>4 DEF TurnStreams, Progress, TurnCompletes, TurnFails
    <3>2. CASE TurnStreams(k)
      <4>1. PICK e \in {[exec[k] EXCEPT !.turn = "live"],
                        [exec[k] EXCEPT !.turn = "live", !.active = TRUE, !.ready = TRUE]} :
              exec' = [exec EXCEPT ![k] = e]
        BY <3>2 DEF TurnStreams
      <4> QED BY <3>1, <4>1 DEF Execution
    <3>3. CASE Progress(k)
      <4>1. exec' = [exec EXCEPT ![k] = [exec[k] EXCEPT !.progressNotes = @ + 1]]
            /\ exec[k].turn = "live"
        BY <3>3 DEF Progress
      <4> DEFINE e == [exec[k] EXCEPT !.progressNotes = @ + 1]
      <4>2. /\ e.callIds = exec[k].callIds /\ e.known = exec[k].known
            /\ e.result = exec[k].result /\ e.turn = exec[k].turn
        BY <3>1 DEF Execution
      <4> HIDE DEF e
      <4>3. exec' = [exec EXCEPT ![k] = e]
        BY <4>1 DEF e
      <4> QED BY <4>1, <4>2, <4>3
    <3>4. ASSUME NEW turn \in {"completed", "failed"}, Deactivate(k, turn)
          PROVE  \E e : /\ exec' = [exec EXCEPT ![k] = e]
                        /\ e.callIds = exec[k].callIds /\ e.known = exec[k].known
                        /\ e.result = exec[k].result
                        /\ e.turn \in {"live", "completed", "failed"}
      <4>1. exec' = [exec EXCEPT ![k] = [exec[k] EXCEPT !.turn = turn, !.active = FALSE]]
        BY <3>4 DEF Deactivate
      <4> DEFINE e == [exec[k] EXCEPT !.turn = turn, !.active = FALSE]
      <4>2. /\ e.callIds = exec[k].callIds /\ e.known = exec[k].known
            /\ e.result = exec[k].result /\ e.turn = turn
        BY <3>1 DEF Execution
      <4> HIDE DEF e
      <4>3. exec' = [exec EXCEPT ![k] = e]
        BY <4>1 DEF e
      <4> QED BY <4>2, <4>3
    <3>5. CASE exec' = [exec EXCEPT ![k].queuedFollowOns = @ - 1] /\ exec[k].turn = "live"
      <4>1. exec' = [exec EXCEPT ![k] = [exec[k] EXCEPT !.queuedFollowOns = @ - 1]]
        BY <3>5
      <4> DEFINE e == [exec[k] EXCEPT !.queuedFollowOns = @ - 1]
      <4>2. /\ e.callIds = exec[k].callIds /\ e.known = exec[k].known
            /\ e.result = exec[k].result /\ e.turn = exec[k].turn
        BY <3>1 DEF Execution
      <4> HIDE DEF e
      <4>3. exec' = [exec EXCEPT ![k] = e]
        BY <4>1 DEF e
      <4> QED BY <3>5, <4>2, <4>3
    <3> QED BY <1>4, <3>2, <3>3, <3>4, <3>5 DEF TurnCompletes, TurnFails
  <2>3. exec[k].turn \in {"open", "live"}
    BY <1>4 DEF TurnStreams, Progress, TurnCompletes, TurnFails
  <2>4. exec'[k] = e /\ \A m \in Keys : m # k => exec'[m] = exec[m]
    BY <1>1, <2>2
  <2>5. \A m \in Keys : exec[m].turn \in Turns
    BY <1>1 DEF Execution
  <2>6. e.turn \in Turns
    BY <2>2 DEF Turns
  <2> QED BY <1>3, <2>1, <2>2, <2>3, <2>4, <2>5, <2>6
<1>5. ASSUME NEW k \in Keys, OwnerSettles(k) PROVE Once'
  <2>1. PICK r \in {"answered", "upstream_unavailable"} : Settle(k, Settled(exec[k]), r)
    BY <1>5 DEF OwnerSettles
  <2>2. exec[k] \in Execution /\ exec[k].turn \in {"completed", "failed"}
    BY <1>1, <1>5 DEF OwnerSettles
  <2> DEFINE e == [Settled(exec[k]) EXCEPT !.result = r]
             said == exec[k].callIds
  <2>3. /\ e.callIds = said /\ e.known = exec[k].known /\ e.result = r /\ e.turn = "done"
        /\ Settled(exec[k]).callIds = said
    BY <2>2 DEF Settled, Execution
  <2>4. exec' = [exec EXCEPT ![k] = e] /\ Deliver(said, r)
    BY <2>1, <2>3 DEF Settle
  <2> HIDE DEF e
  <2>5. exec'[k] = e /\ \A m \in Keys : m # k => exec'[m] = exec[m]
    BY <1>1, <2>4
  <2>6. said \subseteq handledCallIds' /\ \A c \in said : answers[c] = <<>>
    BY <1>1, <2>2 DEF Once, Owed
  <2>7. SpeaksOnce(said) /\ r \in Results /\ r # "none"
    BY <2>4, <2>6, DeliveredOnce DEF IInv, Results
  <2>8. \A c \in OpenCorrections : c \notin said
    BY DEF OpenCorrections
  <2>9. \A m \in Keys : m # k => \A c \in exec[m].callIds : c \notin said
    BY DEF Once, Owed
  <2>10. \A m \in Keys : exec[m].turn \in {"open", "live", "completed", "failed"} =>
           exec[m].result = "none"
    BY DEF Once, Owed
  <2> HIDE DEF said
  <2>11. \A m \in Keys :
               /\ exec'[m].callIds = exec[m].callIds /\ exec'[m].known = exec[m].known
               /\ exec[m].turn = "none" => exec'[m].turn = "none" /\ exec'[m].result = exec[m].result
               /\ exec'[m].result = "none" => /\ exec[m].result = "none"
                                              /\ \A c \in exec[m].callIds : c \notin said
               /\ exec'[m].turn \in {"open", "live", "completed", "failed"} =>
                    exec'[m].result = "none"
    <3>1. exec[k].callIds = said
      BY DEF said
    <3> QED BY <2>2, <2>3, <2>5, <2>7, <2>9, <2>10, <3>1
  <2> QED BY <1>2, <2>7, <2>8, <2>11
<1>6. CASE Abort
  <2>1. \A k \in Keys : exec'[k] \in {exec[k], [exec[k] EXCEPT !.active = FALSE]}
    BY <1>6 DEF Abort
  <2>2. \A k \in Keys : LET e == [exec[k] EXCEPT !.active = FALSE]
                        IN /\ e.callIds = exec[k].callIds /\ e.known = exec[k].known
                           /\ e.result = exec[k].result /\ e.turn = exec[k].turn
                           /\ exec[k].turn \in Turns
    BY <1>1 DEF Execution
  <2>3. answers' = answers
    BY <1>6 DEF Abort
  <2> QED BY <1>3, <2>1, <2>2, <2>3
<1>7. CASE Revoke \/ UNCHANGED vars
  <2>1. answers' = answers /\ exec' = exec
    BY <1>7 DEF Revoke, vars
  <2>2. \A k \in Keys : exec[k].turn \in Turns
    BY <1>1 DEF Execution
  <2> QED BY <1>3, <2>1, <2>2
<1> QED BY <1>4, <1>5, <1>6, <1>7 DEF TurnStep

\* A call taken on now was never answered, and nothing else owes it an answer.
LEMMA NewCall ==
  ASSUME IInv, Once, NEW c \in Calls, Accept(c)
  PROVE  /\ handledCallIds' = handledCallIds \cup {c} /\ c \notin handledCallIds
         /\ IsFiniteSet(handledCallIds') /\ handledCallIds \subseteq Calls
         /\ \A d \in Calls \ handledCallIds : answers[d] = <<>>
         /\ \A k \in Keys : c \notin exec[k].callIds
         /\ c \notin OpenCorrections
         /\ \A d \in handledCallIds : Len(answers[d]) <= 1 /\ d # c
<1>1. handledCallIds' = handledCallIds \cup {c} /\ c \notin handledCallIds
  BY DEF Accept
<1>2. Cardinality(handledCallIds) \in Nat /\ IsFiniteSet(handledCallIds')
  BY <1>1, FS_CardinalityType, FS_AddElement DEF Once, Owed
<1>3. \A d \in Calls \ handledCallIds : answers[d] = <<>>
  BY <1>2, AskConstants DEF Accept, Once, Owed
<1> QED BY <1>1, <1>2, <1>3 DEF Once, Owed, OpenCorrections, AnsweredAtMostOnce, IInv, TypeOK

\* The call taken on is said to one execution at most, or to none.
LEMMA NewCallOwed ==
  ASSUME IInv, Once, NEW c \in Calls, Accept(c), NEW said \in SUBSET {c}, SpeaksOnce(said),
         \A k \in Keys :
           /\ exec'[k].callIds \subseteq exec[k].callIds \cup {c}
           /\ exec'[k].result = "none" =>
                /\ exec[k].result = "none" \/ exec'[k].callIds \subseteq {c}
                /\ \A d \in exec'[k].callIds : d \notin said
           /\ exec'[k].turn \in {"open", "live", "completed", "failed"} =>
                exec'[k].result = "none",
         \A k, m \in Keys : c \in exec'[k].callIds /\ c \in exec'[m].callIds => k = m
  PROVE  /\ Owed' /\ AnsweredAtMostOnce'
         /\ OpenCorrections \subseteq OpenCorrections'
<1>1. /\ handledCallIds' = handledCallIds \cup {c} /\ c \notin handledCallIds
      /\ IsFiniteSet(handledCallIds') /\ handledCallIds \subseteq Calls
      /\ \A d \in Calls \ handledCallIds : answers[d] = <<>>
      /\ \A k \in Keys : c \notin exec[k].callIds
      /\ c \notin OpenCorrections
      /\ \A d \in handledCallIds : Len(answers[d]) <= 1 /\ d # c
  BY NewCall
<1>2. \A d \in Calls : d # c => answers'[d] = answers[d]
  BY DEF SpeaksOnce
<1>3. AnsweredAtMostOnce'
  <2>1. Len(answers'[c]) <= 1
    <3>1. CASE c \in said
      BY <3>1 DEF SpeaksOnce
    <3>2. CASE c \notin said
      <4>1. answers'[c] = <<>>
        BY <1>1, <3>2 DEF SpeaksOnce
      <4> QED BY <4>1
    <3> QED BY <3>1, <3>2
  <2> QED BY <1>1, <1>2, <2>1 DEF AnsweredAtMostOnce
<1>4. \A k \in Keys : exec'[k].callIds \subseteq handledCallIds'
  BY <1>1 DEF Once, Owed
<1>5. \A k, m \in Keys : \A d \in exec'[k].callIds : d \in exec'[m].callIds => k = m
  BY DEF Once, Owed
<1>6. \A k \in Keys : exec'[k].result = "none" => \A d \in exec'[k].callIds : answers'[d] = <<>>
  <2> SUFFICES ASSUME NEW k \in Keys, exec'[k].result = "none", NEW d \in exec'[k].callIds
               PROVE  answers'[d] = <<>>
    OBVIOUS
  <2>1. d \notin said /\ d \in Calls
    BY <1>1, <1>4
  <2>2. answers[d] = <<>>
    <3>1. CASE d = c
      BY <1>1, <3>1
    <3>2. CASE d # c
      BY <3>2 DEF Once, Owed
    <3> QED BY <3>1, <3>2
  <2> QED BY <2>1, <2>2 DEF SpeaksOnce
<1>7. \A d \in Calls \ handledCallIds' : answers'[d] = <<>>
  BY <1>1, <1>2
<1>8. Owed'
  BY <1>1, <1>4, <1>5, <1>6, <1>7 DEF Owed
<1>9. OpenCorrections \subseteq OpenCorrections'
  BY <1>1, <1>2 DEF OpenCorrections
<1> QED BY <1>3, <1>8, <1>9

LEMMA RefusalOnce ==
  ASSUME IInv, Once, NEW c \in Calls, RefuseOverBudget(c) \/ RefuseCall(c)
  PROVE  Once'
<1>1. UNCHANGED <<exec, redirectQueue, tries>> /\ redirectQueue \in Seq(Job)
  BY DEF RefuseOverBudget, RefuseCall, IInv, TypeOK, Job
<1>2. SUFFICES Owed' /\ AnsweredAtMostOnce' /\ OpenCorrections \subseteq OpenCorrections'
  <2>1. Aimed(redirectQueue', OpenCorrections')
    BY <1>1, <1>2, AimedStep DEF Once
  <2>2. Lined(redirectQueue', OpenSteers')
    BY <1>1 DEF Once, OpenSteers, Waiting
  <2> QED BY <1>2, <2>1, <2>2 DEF Once
<1>3. CASE RefuseOverBudget(c)
  <2>1. /\ handledCallIds' = handledCallIds /\ c \notin handledCallIds
        /\ Cardinality(handledCallIds) >= MaxToolCalls
        /\ Deliver({c}, "busy") /\ handledCallIds \subseteq Calls
    BY <1>3 DEF RefuseOverBudget, IInv, TypeOK
  <2>2. \A d \in Calls : d # c => answers'[d] = answers[d]
    BY <2>1 DEF Deliver, IInv, TypeOK
  <2>3. \A d \in handledCallIds : answers'[d] = answers[d]
    BY <2>1, <2>2
  <2>4. AnsweredAtMostOnce'
    BY <2>1, <2>3 DEF Once, AnsweredAtMostOnce
  <2>5. OpenCorrections \subseteq OpenCorrections'
    BY <1>1, <2>1, <2>3 DEF OpenCorrections
  <2>6. Owed'
    BY <1>1, <2>1, <2>3 DEF Once, Owed
  <2> QED BY <2>4, <2>5, <2>6
<1>4. CASE RefuseCall(c)
  <2>1. Accept(c) /\ \E r \in Results : Deliver({c}, r)
    BY <1>4 DEF RefuseCall, Results
  <2>2. SpeaksOnce({c})
    BY <2>1, NewCall, DeliveredOnce DEF IInv
  <2>3. \A k \in Keys : c \notin exec[k].callIds
    BY <2>1, NewCall
  <2>4. \A k \in Keys :
          /\ exec'[k].callIds \subseteq exec[k].callIds \cup {c}
          /\ exec'[k].result = "none" =>
               /\ exec[k].result = "none" \/ exec'[k].callIds \subseteq {c}
               /\ \A d \in exec'[k].callIds : d \notin {c}
          /\ exec'[k].turn \in {"open", "live", "completed", "failed"} =>
               exec'[k].result = "none"
    BY <1>1, <2>3 DEF Once, Owed
  <2>5. \A k, m \in Keys : c \in exec'[k].callIds /\ c \in exec'[m].callIds => k = m
    BY <1>1, <2>3
  <2> QED BY <2>1, <2>2, <2>4, <2>5, NewCallOwed
<1> QED BY <1>3, <1>4

LEMMA ReattachOnce ==
  ASSUME IInv, Once, NEW c \in Calls, NEW k \in Keys, Reattach(c, k)
  PROVE  Once'
<1> DEFINE said == IF exec[k].result # "none" THEN {c} ELSE {}
<1>1. /\ Accept(c) /\ exec' = [exec EXCEPT ![k].callIds = @ \cup {c}]
      /\ UNCHANGED <<redirectQueue, tries>> /\ redirectQueue \in Seq(Job)
      /\ exec[k] \in Execution /\ exec \in [Keys -> Execution]
  BY DEF Reattach, IInv, TypeOK, Job
<1>2. \A m \in Keys : c \notin exec[m].callIds
  BY <1>1, NewCall
<1>3. SpeaksOnce(said)
  <2>1. CASE exec[k].result # "none"
    <3>1. Deliver({c}, exec[k].result) /\ exec[k].result \in Results
      BY <1>1, <2>1 DEF Reattach, Execution
    <3>2. {c} \subseteq handledCallIds' /\ \A d \in {c} : answers[d] = <<>>
      BY <1>1, NewCall
    <3> QED BY <2>1, <3>1, <3>2, DeliveredOnce DEF IInv
  <2>2. CASE exec[k].result = "none"
    BY <2>2 DEF Reattach, SpeaksOnce
  <2> QED BY <2>1, <2>2
<1>4. /\ exec'[k].callIds = exec[k].callIds \cup {c}
      /\ \A m \in Keys : m # k => exec'[m] = exec[m]
      /\ \A m \in Keys : exec'[m].result = exec[m].result /\ exec'[m].turn = exec[m].turn
                         /\ exec'[m].known = exec[m].known
  BY <1>1 DEF Execution
<1>5. \A m \in Keys :
        /\ exec'[m].callIds \subseteq exec[m].callIds \cup {c}
        /\ exec'[m].result = "none" =>
             /\ exec[m].result = "none" \/ exec'[m].callIds \subseteq {c}
             /\ \A d \in exec'[m].callIds : d \notin said
        /\ exec'[m].turn \in {"open", "live", "completed", "failed"} =>
             exec'[m].result = "none"
  BY <1>2, <1>4 DEF Once, Owed
<1>6. \A m, n \in Keys : c \in exec'[m].callIds /\ c \in exec'[n].callIds => m = n
  BY <1>2, <1>4
<1> HIDE DEF said
<1>7. Owed' /\ AnsweredAtMostOnce' /\ OpenCorrections \subseteq OpenCorrections'
  <2>1. said \in SUBSET {c}
    BY DEF said
  <2> QED BY <1>1, <1>3, <1>5, <1>6, <2>1, NewCallOwed
<1>8. Aimed(redirectQueue', OpenCorrections')
  BY <1>1, <1>7, AimedStep DEF Once
<1>9. OpenSteers' = OpenSteers
  BY <1>1, <1>4 DEF OpenSteers, Waiting
<1>10. Lined(redirectQueue', OpenSteers')
  BY <1>1, <1>9 DEF Once
<1> QED BY <1>7, <1>8, <1>10 DEF Once

LEMMA AskOnce ==
  ASSUME IInv, Once, NEW c \in Calls, NEW k \in Keys, Ask(c, k)
  PROVE  Once'
<1> DEFINE e == NewExecution(c)
<1>1. Accept(c) /\ ~exec[k].known
  BY DEF Ask
<1>2. /\ e \in Execution /\ e.known /\ e.callIds = {c} /\ e.result = "none" /\ e.turn = "none"
  BY DEF NewExecution, NoExecution, Execution, Turns
<1>3. redirectQueue \in Seq(Job) /\ exec \in [Keys -> Execution] /\ k \notin OpenSteers
  BY <1>1 DEF IInv, TypeOK, Job, OpenSteers, Waiting
<1>4. \A m \in Keys : c \notin exec[m].callIds
  BY <1>1, NewCall
<1> HIDE DEF e
<1>5. ASSUME NEW f, exec' = [exec EXCEPT ![k] = f], f.callIds = {c},
             NEW said \in SUBSET {c}, SpeaksOnce(said),
             f.result = "none" => said = {},
             f.turn \in {"open", "live", "completed", "failed"} => f.result = "none",
             \A m \in Keys : m # k => tries'[m].landed = tries[m].landed
      PROVE  /\ Owed' /\ AnsweredAtMostOnce' /\ OpenCorrections \subseteq OpenCorrections'
             /\ OpenSteers \subseteq OpenSteers'
  <2>1. exec'[k] = f /\ \A m \in Keys : m # k => exec'[m] = exec[m]
    BY <1>3, <1>5
  <2>2. \A m \in Keys :
          /\ exec'[m].callIds \subseteq exec[m].callIds \cup {c}
          /\ exec'[m].result = "none" =>
               /\ exec[m].result = "none" \/ exec'[m].callIds \subseteq {c}
               /\ \A d \in exec'[m].callIds : d \notin said
          /\ exec'[m].turn \in {"open", "live", "completed", "failed"} =>
               exec'[m].result = "none"
    BY <1>4, <1>5, <2>1 DEF Once, Owed
  <2>3. \A m, n \in Keys : c \in exec'[m].callIds /\ c \in exec'[n].callIds => m = n
    BY <1>4, <2>1
  <2>4. Owed' /\ AnsweredAtMostOnce' /\ OpenCorrections \subseteq OpenCorrections'
    BY <1>1, <1>5, <2>2, <2>3, NewCallOwed
  <2>5. OpenSteers \subseteq OpenSteers'
    BY <1>3, <1>5, <2>1 DEF OpenSteers, Waiting
  <2> QED BY <2>4, <2>5
<1>6. CASE StartOwnerTurn(k, e) /\ redirectQueue' = redirectQueue
  <2> DEFINE f == [e EXCEPT !.turn = "open"]
  <2>1. f.callIds = {c} /\ f.result = "none"
    BY <1>2 DEF Execution
  <2>2. exec' = [exec EXCEPT ![k] = f] /\ answers' = answers
        /\ tries' = [tries EXCEPT ![k].landed = @ + 1]
    BY <1>6 DEF StartOwnerTurn
  <2> HIDE DEF f
  <2>3. \A m \in Keys : m # k => tries'[m].landed = tries[m].landed
    BY <2>2 DEF IInv, TypeOK
  <2>4. SpeaksOnce({}) /\ {} \in SUBSET {c}
    BY <2>2 DEF SpeaksOnce
  <2>5. /\ Owed' /\ AnsweredAtMostOnce' /\ OpenCorrections \subseteq OpenCorrections'
        /\ OpenSteers \subseteq OpenSteers'
    <3>1. f.turn \in {"open", "live", "completed", "failed"} => f.result = "none"
      BY <2>1
    <3>2. exec' = [exec EXCEPT ![k] = f]
      BY <2>2
    <3> QED BY <1>5, <2>1, <2>3, <2>4, <3>1, <3>2
  <2>6. Aimed(redirectQueue', OpenCorrections')
    BY <1>3, <1>6, <2>5, AimedStep DEF Once
  <2>7. Lined(redirectQueue', OpenSteers')
    BY <1>6, <2>5, LinedGrows DEF Once
  <2> QED BY <2>5, <2>6, <2>7 DEF Once
<1>7. CASE Settle(k, e, "busy") /\ UNCHANGED <<redirectQueue, tries>>
  <2> DEFINE f == [e EXCEPT !.result = "busy"]
  <2>1. f.callIds = {c} /\ f.result = "busy" /\ f.turn = "none"
    BY <1>2 DEF Execution
  <2>2. exec' = [exec EXCEPT ![k] = f] /\ Deliver({c}, "busy")
    BY <1>2, <1>7 DEF Settle
  <2> HIDE DEF f
  <2>3. SpeaksOnce({c})
    BY <1>1, <2>2, NewCall, DeliveredOnce DEF IInv, Results
  <2>4. \A m \in Keys : m # k => tries'[m].landed = tries[m].landed
    BY <1>7
  <2>5. /\ Owed' /\ AnsweredAtMostOnce' /\ OpenCorrections \subseteq OpenCorrections'
        /\ OpenSteers \subseteq OpenSteers'
    BY <1>5, <2>1, <2>2, <2>3, <2>4
  <2>6. Aimed(redirectQueue', OpenCorrections')
    BY <1>3, <1>7, <2>5, AimedStep DEF Once
  <2>7. Lined(redirectQueue', OpenSteers')
    BY <1>7, <2>5, LinedGrows DEF Once
  <2> QED BY <2>5, <2>6, <2>7 DEF Once
<1>8. CASE /\ exec' = [exec EXCEPT ![k] = e]
           /\ redirectQueue' = Append(redirectQueue,
                [lane |-> "steer", key |-> k, at |-> "queued", target |-> None,
                 attempt |-> 0, dispatches |-> 0])
           /\ UNCHANGED <<answers, tries>>
  <2> DEFINE job == [lane |-> "steer", key |-> k, at |-> "queued", target |-> None,
                     attempt |-> 0, dispatches |-> 0]
  <2>1. job \in Job /\ job.lane = "steer" /\ job.key = k
    BY DEF Job, SteerJob
  <2>2. redirectQueue' = Append(redirectQueue, job)
    BY <1>8
  <2> HIDE DEF job
  <2>3. SpeaksOnce({})
    BY <1>8 DEF SpeaksOnce
  <2>4. \A m \in Keys : m # k => tries'[m].landed = tries[m].landed
    BY <1>8
  <2>5. e.turn \notin {"open", "live", "completed", "failed"}
    BY <1>2
  <2>6. /\ Owed' /\ AnsweredAtMostOnce' /\ OpenCorrections \subseteq OpenCorrections'
        /\ OpenSteers \subseteq OpenSteers'
    BY <1>2, <1>5, <1>8, <2>3, <2>4, <2>5
  <2>7. k \in OpenSteers'
    <3>1. exec'[k] = e /\ tries' = tries
      BY <1>3, <1>8
    <3>2. tries[k].landed = 0
      BY <1>1 DEF IInv, UnknownUntouched
    <3> QED BY <1>2, <3>1, <3>2 DEF OpenSteers, Waiting
  <2>8. Aimed(redirectQueue', OpenCorrections')
    BY <1>3, <2>1, <2>2, <2>6, AimedStep DEF Once
  <2>9. Lined(redirectQueue', OpenSteers')
    BY <1>3, <2>1, <2>2, <2>6, <2>7, LinedAppendSteer DEF Once
  <2> QED BY <2>6, <2>8, <2>9 DEF Once
<1> QED BY <1>6, <1>7, <1>8 DEF Ask, e

LEMMA CorrectOnce ==
  ASSUME IInv, Once, NEW c \in Calls, Correct(c)
  PROVE  Once'
<1>1. /\ Accept(c) /\ UNCHANGED <<exec, tries>> /\ redirectQueue \in Seq(Job)
  BY DEF Correct, IInv, TypeOK, Job
<1>2. /\ handledCallIds' = handledCallIds \cup {c} /\ answers[c] = <<>>
      /\ \A k \in Keys : c \notin exec[k].callIds
      /\ c \notin OpenCorrections
  BY <1>1, NewCall
<1>3. OpenSteers' = OpenSteers
  BY <1>1 DEF OpenSteers, Waiting
<1>4. ASSUME NEW said \in SUBSET {c}, SpeaksOnce(said)
      PROVE  Owed' /\ AnsweredAtMostOnce' /\ OpenCorrections \subseteq OpenCorrections'
  <2>1. \A k \in Keys :
          /\ exec'[k].callIds \subseteq exec[k].callIds \cup {c}
          /\ exec'[k].result = "none" =>
               /\ exec[k].result = "none" \/ exec'[k].callIds \subseteq {c}
               /\ \A d \in exec'[k].callIds : d \notin said
          /\ exec'[k].turn \in {"open", "live", "completed", "failed"} =>
               exec'[k].result = "none"
    BY <1>1, <1>2 DEF Once, Owed
  <2>2. \A k, m \in Keys : c \in exec'[k].callIds /\ c \in exec'[m].callIds => k = m
    BY <1>1, <1>2
  <2> QED BY <1>1, <1>4, <2>1, <2>2, NewCallOwed
<1>5. CASE \E r \in Results : Deliver({c}, r) /\ redirectQueue' = redirectQueue
  <2>1. SpeaksOnce({c})
    BY <1>2, <1>5, DeliveredOnce DEF IInv
  <2>2. Owed' /\ AnsweredAtMostOnce' /\ OpenCorrections \subseteq OpenCorrections'
    BY <1>4, <2>1
  <2>3. Aimed(redirectQueue', OpenCorrections')
    BY <1>1, <1>5, <2>2, AimedStep DEF Once
  <2>4. Lined(redirectQueue', OpenSteers')
    BY <1>3, <1>5 DEF Once
  <2> QED BY <2>2, <2>3, <2>4 DEF Once
<1>6. CASE /\ activeExecution # None
           /\ redirectQueue' = Append(redirectQueue,
                [lane |-> "correct", call |-> c, at |-> "queued", target |-> activeExecution])
           /\ UNCHANGED answers
  <2> DEFINE job == [lane |-> "correct", call |-> c, at |-> "queued",
                     target |-> activeExecution]
  <2>1. job \in Job /\ job.lane = "correct" /\ job.call = c
    BY <1>6 DEF Job, CorrectionJob, IInv, TypeOK
  <2>2. redirectQueue' = Append(redirectQueue, job)
    BY <1>6
  <2> HIDE DEF job
  <2>3. SpeaksOnce({})
    BY <1>6 DEF SpeaksOnce
  <2>4. Owed' /\ AnsweredAtMostOnce' /\ OpenCorrections \subseteq OpenCorrections'
    BY <1>4, <2>3
  <2>5. c \in OpenCorrections'
    BY <1>1, <1>2, <1>6 DEF OpenCorrections
  <2>6. Aimed(redirectQueue', OpenCorrections')
    BY <1>1, <1>2, <2>1, <2>2, <2>4, <2>5, AimedStep DEF Once
  <2>7. Lined(redirectQueue', OpenSteers')
    BY <1>1, <1>3, <2>1, <2>2, LinedAppendCorrection DEF Once
  <2> QED BY <2>4, <2>6, <2>7 DEF Once
<1> QED BY <1>5, <1>6 DEF Correct, Results

LEMMA OnceInit == Init => Once
<1> SUFFICES ASSUME Init PROVE Once
  OBVIOUS
<1>1. /\ handledCallIds = {} /\ IsFiniteSet({}) /\ redirectQueue = <<>>
      /\ \A c \in Calls : answers[c] = <<>>
      /\ \A k \in Keys : exec[k] = NoExecution
  BY FS_EmptySet DEF Init
<1>2. Owed /\ AnsweredAtMostOnce
  BY <1>1 DEF Owed, AnsweredAtMostOnce, NoExecution
<1>3. Aimed(redirectQueue, OpenCorrections) /\ Lined(redirectQueue, OpenSteers)
  BY <1>1 DEF Aimed, Lined, Places
<1> QED BY <1>2, <1>3 DEF Once

LEMMA OnceNext == IInv /\ Once /\ [Next]_vars => Once'
<1> SUFFICES ASSUME IInv, Once, [Next]_vars PROVE Once'
  OBVIOUS
<1>1. CASE \E c \in Calls : HandleToolCall(c)
  BY <1>1, RefusalOnce, ReattachOnce, AskOnce, CorrectOnce DEF HandleToolCall
<1>2. CASE RedirectStep
  BY <1>2, SteerStepOnce, SteerAnsweredOnce, CorrectionStepOnce DEF RedirectStep
<1>3. CASE (\E k \in Keys : TurnStep(k) \/ Progress(k)) \/ Abort \/ Revoke \/ UNCHANGED vars
  BY <1>3, TurnOnce
<1> QED BY <1>1, <1>2, <1>3 DEF Next

LEMMA OnceAlways == Spec => []Once
BY Invariance, OnceInit, OnceNext, PTL DEF Spec

\* A call that was taken on is answered at most once, whether its execution
\* settled, its retry joined a settled one, or its correction came back late.
THEOREM OneAnswerPerCall == Spec => []AnsweredAtMostOnce
<1>1. Once => AnsweredAtMostOnce
  BY DEF Once
<1> QED BY <1>1, OnceAlways, PTL

-----------------------------------------------------------------------------
(* The dispatcher does only what AskService promises *)

\* What a step may say: it takes on at most one call of a live conversation, and
\* answers go through deliverResult.
LEMMA ConverseKept ==
  ASSUME TypeOK, Once, Once',
         \/ handledCallIds' = handledCallIds
         \/ ~aborted /\ \E c \in Calls : handledCallIds' = handledCallIds \cup {c},
         answers' = answers \/ \E calls, r : Deliver(calls, r)
  PROVE  Service!Converse
<1> DEFINE n(c) == IF c \in handledCallIds THEN Len(answers[c]) ELSE 0
           replies == [c \in Calls |-> n(c)]
           replied == {c \in handledCallIds' : replies[c] = 0 /\ replies'[c] = 1}
<1>1. handledCallIds \subseteq handledCallIds' /\ handledCallIds' \subseteq Calls
      /\ answers \in [Calls -> Seq(Results)]
  BY DEF TypeOK
<1>2. \A c \in handledCallIds : Len(answers'[c]) >= Len(answers[c])
  <2> SUFFICES ASSUME NEW c \in handledCallIds PROVE Len(answers'[c]) >= Len(answers[c])
    OBVIOUS
  <2>1. answers[c] \in Seq(Results) /\ c \in Calls /\ Len(answers[c]) \in Nat
    BY <1>1
  <2>2. ASSUME NEW r, NEW calls, Deliver(calls, r) PROVE Len(answers'[c]) >= Len(answers[c])
    <3>1. answers'[c] = answers[c] \/ answers'[c] = Append(answers[c], r)
      BY <1>1, <2>1, <2>2 DEF Deliver
    <3>2. Len(Append(answers[c], r)) = Len(answers[c]) + 1
      BY <2>1
    <3> QED BY <2>1, <3>1, <3>2
  <2>3. CASE answers' = answers
    BY <2>1, <2>3
  <2> QED BY <2>2, <2>3
<1>3. \A c \in handledCallIds : Len(answers[c]) \in {0, 1}
  <2> SUFFICES ASSUME NEW c \in handledCallIds PROVE Len(answers[c]) \in {0, 1}
    OBVIOUS
  <2>1. Len(answers[c]) \in Nat
    BY <1>1
  <2>2. Len(answers[c]) <= 1
    BY DEF Once, AnsweredAtMostOnce
  <2>3. \A m \in Nat : m <= 1 => m \in {0, 1}
    OBVIOUS
  <2> QED BY <2>1, <2>2, <2>3
<1>4. \A c \in handledCallIds' : Len(answers'[c]) \in {0, 1}
  <2>1. \A c \in Calls : Len(answers'[c]) \in Nat
    <3> SUFFICES ASSUME NEW c \in Calls PROVE Len(answers'[c]) \in Nat
      OBVIOUS
    <3>1. answers[c] \in Seq(Results) /\ Len(answers[c]) \in Nat
      BY <1>1
    <3>2. \A r : Len(Append(answers[c], r)) = Len(answers[c]) + 1
      BY <3>1
    <3>3. answers'[c] = answers[c] \/ \E r : answers'[c] = Append(answers[c], r)
      BY <1>1 DEF Deliver
    <3> QED BY <3>1, <3>2, <3>3
  <2>2. \A c \in handledCallIds' : Len(answers'[c]) <= 1
    BY DEF Once, AnsweredAtMostOnce
  <2> SUFFICES ASSUME NEW c \in handledCallIds' PROVE Len(answers'[c]) \in {0, 1}
    OBVIOUS
  <2>3. Len(answers'[c]) \in Nat /\ Len(answers'[c]) <= 1
    BY <1>1, <2>1, <2>2
  <2>4. \A m \in Nat : m <= 1 => m \in {0, 1}
    OBVIOUS
  <2> QED BY <2>3, <2>4
<1>5. \A c \in Calls : n(c) \in {0, 1} /\ n(c)' \in {0, 1} /\ n(c) <= n(c)'
  BY <1>1, <1>2, <1>3, <1>4
<1>6. \A c \in Calls : c \notin handledCallIds' => n(c) = 0 /\ n(c)' = 0
  BY <1>1
<1>7. replies = [c \in Calls |-> n(c)] /\ replies' = [c \in Calls |-> n(c)']
  OBVIOUS
<1>8. aborted => handledCallIds' = handledCallIds /\ answers' = answers
  BY DEF Deliver
<1>9. aborted => replies' = replies
  BY <1>8
<1> HIDE DEF n
<1>10. /\ replied \in SUBSET handledCallIds' /\ \A c \in replied : replies[c] = 0
       /\ replies' = [c \in Calls |-> IF c \in replied THEN 1 ELSE replies[c]]
  <2>1. \A c \in Calls : n(c)' = IF c \in replied THEN 1 ELSE n(c)
    BY <1>5, <1>6, <1>7
  <2> QED BY <1>7, <2>1
<1> HIDE DEF replied
<1>11. \E said \in SUBSET handledCallIds' :
         /\ \A c \in said : replies[c] = 0
         /\ replies' = [c \in Calls |-> IF c \in said THEN 1 ELSE replies[c]]
  BY <1>10
<1>12. handledCallIds' = handledCallIds \/ \E c \in Calls : handledCallIds' = handledCallIds \cup {c}
  OBVIOUS
<1> QED BY <1>8, <1>9, <1>11, <1>12 DEF Service!Converse, n

\* An instruction that has not reached Hermes is handed to it.
LEMMA HandedOver ==
  ASSUME TypeOK, NEW k \in Keys, tries[k].landed = 0,
         tries' = [tries EXCEPT ![k].landed = @ + 1],
         \/ ownerExecution' = ownerExecution
         \/ ownerExecution = None /\ ownerExecution' = k
  PROVE  Service!Work
<1> DEFINE Landed == {m \in Keys : tries[m].landed > 0}
<1>1. /\ tries'[k].landed = 1
      /\ \A m \in Keys : m # k => tries'[m].landed = tries[m].landed
  BY DEF TypeOK
<1>2. k \in Keys \ Landed /\ Landed' = Landed \cup {k}
  BY <1>1
<1> QED BY <1>2 DEF Service!Work

LEMMA NothingHandedOver ==
  ASSUME \A k \in Keys : tries'[k].landed = tries[k].landed,
         ownerExecution' \in {ownerExecution, None}
  PROVE  Service!Work
<1> DEFINE Landed == {m \in Keys : tries[m].landed > 0}
<1>1. Landed' = Landed
  OBVIOUS
<1> QED BY <1>1 DEF Service!Work

LEMMA CallServed ==
  ASSUME IInv, Once, Once', NEW c \in Calls, HandleToolCall(c)
  PROVE  Service!Serve
<1>1. aborted' = aborted /\ Service!Converse
  <2>1. aborted' = aborted
    BY DEF HandleToolCall, RefuseOverBudget, RefuseCall, Reattach, Ask, Correct
  <2>2. \/ handledCallIds' = handledCallIds
        \/ ~aborted /\ handledCallIds' = handledCallIds \cup {c}
    BY DEF HandleToolCall, RefuseOverBudget, RefuseCall, Reattach, Ask, Correct, Accept
  <2>3. answers' = answers \/ \E calls, r : Deliver(calls, r)
    <3>1. ASSUME NEW k \in Keys, Ask(c, k)
          PROVE  answers' = answers \/ \E calls, r : Deliver(calls, r)
      BY <3>1 DEF Ask, StartOwnerTurn, Settle
    <3>2. ASSUME NEW k \in Keys, Reattach(c, k)
          PROVE  answers' = answers \/ \E calls, r : Deliver(calls, r)
      BY <3>2 DEF Reattach
    <3>3. CASE RefuseOverBudget(c) \/ RefuseCall(c) \/ Correct(c)
      BY <3>3 DEF RefuseOverBudget, RefuseCall, Correct
    <3> QED BY <3>1, <3>2, <3>3 DEF HandleToolCall
  <2> QED BY <2>1, <2>2, <2>3, ConverseKept DEF IInv
<1>2. Service!Work
  <2>1. ASSUME NEW k \in Keys, Ask(c, k) PROVE Service!Work
    <3>1. tries[k].landed = 0
      BY <2>1 DEF Ask, IInv, UnknownUntouched
    <3>2. \/ ownerExecution = None /\ ownerExecution' = k
             /\ tries' = [tries EXCEPT ![k].landed = @ + 1]
          \/ UNCHANGED <<ownerExecution, tries>>
      BY <2>1 DEF Ask, StartOwnerTurn
    <3> QED BY <3>1, <3>2, HandedOver, NothingHandedOver DEF IInv
  <2>2. CASE RefuseOverBudget(c) \/ RefuseCall(c) \/ Correct(c) \/ \E k \in Keys : Reattach(c, k)
    BY <2>2, NothingHandedOver DEF RefuseOverBudget, RefuseCall, Correct, Reattach
  <2> QED BY <2>1, <2>2 DEF HandleToolCall
<1> QED BY <1>1, <1>2 DEF Service!Serve

\* A steer that is reconsidered settles, waits, or gets a turn when none runs.
LEMMA ReconsiderServes ==
  ASSUME IInv, SteerAtHead, NEW attempt, NEW dispatches,
         Reconsider(redirectQueue[1].key, attempt, dispatches)
  PROVE  Service!Work /\ (answers' = answers \/ \E calls, r : Deliver(calls, r))
<1> DEFINE k == redirectQueue[1].key
<1>1. k \in Keys /\ k \in Waiting
  BY HeadSteer
<1>2. CASE \E r : SettleSteer(k, r)
  <2>1. UNCHANGED <<ownerExecution, tries>> /\ \E calls, r : Deliver(calls, r)
    BY <1>2 DEF SettleSteer, Settle
  <2> QED BY <2>1, NothingHandedOver
<1>3. CASE OwnerGone(k) /\ StartOwnerTurn(k, exec[k])
  <2>1. ownerExecution = None
    BY <1>1, <1>3 DEF OwnerGone, Waiting, IInv, OwnerExclusive
  <2>2. ownerExecution' = k /\ tries' = [tries EXCEPT ![k].landed = @ + 1] /\ answers' = answers
    BY <1>3 DEF StartOwnerTurn
  <2> QED BY <1>1, <2>1, <2>2, HandedOver DEF Waiting, IInv
<1>4. CASE UNCHANGED <<ownerExecution, answers, tries>>
  BY <1>4, NothingHandedOver
<1> QED BY <1>2, <1>3, <1>4 DEF Reconsider

LEMMA SteerServed ==
  ASSUME IInv, Once, Once', SteerStarts \/ SteerResumes
  PROVE  Service!Serve
<1>1. SteerAtHead /\ UNCHANGED <<aborted, handledCallIds>>
  BY DEF SteerStarts, SteerResumes, Running, SteerAtHead
<1>2. redirectQueue[1].key \in Keys
  BY <1>1, HeadSteer
<1>3. CASE \E attempt, dispatches : Reconsider(redirectQueue[1].key, attempt, dispatches)
  BY <1>1, <1>3, ReconsiderServes, ConverseKept DEF Service!Serve, IInv
<1>4. CASE SettleSteer(redirectQueue[1].key, "cancelled")
  <2>1. UNCHANGED <<ownerExecution, tries>> /\ \E calls, r : Deliver(calls, r)
    BY <1>4 DEF SettleSteer, Settle
  <2> QED BY <1>1, <2>1, NothingHandedOver, ConverseKept DEF Service!Serve, IInv
<1>5. CASE /\ tries' = [tries EXCEPT ![redirectQueue[1].key].redirects = @ + 1]
           /\ UNCHANGED <<ownerExecution, answers>>
  <2>1. \A k \in Keys : tries'[k].landed = tries[k].landed
    BY <1>2, <1>5 DEF IInv, TypeOK
  <2> QED BY <1>1, <1>5, <2>1, NothingHandedOver, ConverseKept DEF Service!Serve, IInv
<1>6. CASE SteerStarts
  BY <1>3, <1>6 DEF SteerStarts
<1>7. CASE SteerResumes
  BY <1>3, <1>4, <1>5, <1>7 DEF SteerResumes
<1> QED BY <1>6, <1>7

\* The redirect of a steer that has not landed comes back.
LEMMA SteerAnswerServed ==
  ASSUME IInv, Once, Once', NEW outcome \in Outcomes, SteerAnswered(outcome)
  PROVE  Service!Serve
<1> DEFINE k == redirectQueue[1].key
<1>1. SteerAtHead /\ UNCHANGED <<aborted, handledCallIds>>
  BY DEF SteerAnswered, Running, SteerAtHead
<1>2. k \in Keys /\ tries[k].landed = 0
  BY <1>1, HeadSteer DEF Waiting
<1>3. CASE outcome = "nothing_active"
  <2>1. \E attempt, dispatches : Reconsider(k, attempt, dispatches)
    BY <1>3 DEF SteerAnswered
  <2> QED BY <1>1, <2>1, ReconsiderServes, ConverseKept DEF Service!Serve, IInv
<1>4. CASE outcome # "nothing_active"
  <2>1. ownerExecution' = ownerExecution /\ \E calls, r : Deliver(calls, r)
    BY <1>4 DEF SteerAnswered, Settle
  <2>2. PICK n \in {0, 1} : tries' = [tries EXCEPT ![k].landed = @ + n]
    BY <1>4 DEF SteerAnswered
  <2>3. Service!Work
    <3>1. CASE n = 0
      <4>1. \A m \in Keys : tries'[m].landed = tries[m].landed
        BY <1>2, <2>2, <3>1 DEF IInv, TypeOK
      <4> QED BY <2>1, <4>1, NothingHandedOver
    <3>2. CASE n = 1
      BY <1>2, <2>1, <2>2, <3>2, HandedOver DEF IInv
    <3> QED BY <3>1, <3>2
  <2> QED BY <1>1, <2>1, <2>3, ConverseKept DEF Service!Serve, IInv
<1> QED BY <1>3, <1>4

LEMMA CorrectionServed ==
  ASSUME IInv, Once, Once', CorrectionStarts \/ \E outcome \in Outcomes : CorrectionAnswered(outcome)
  PROVE  Service!Serve
<1>1. UNCHANGED <<aborted, handledCallIds, ownerExecution, tries>>
  BY DEF CorrectionStarts, CorrectionAnswered
<1>2. answers' = answers \/ \E calls, r : Deliver(calls, r)
  BY DEF CorrectionStarts, CorrectionAnswered, FinishCorrection
<1> QED BY <1>1, <1>2, NothingHandedOver, ConverseKept DEF Service!Serve, IInv

LEMMA TurnServed ==
  ASSUME IInv, Once, Once', NEW k \in Keys, TurnStep(k) \/ Progress(k)
  PROVE  Service!Serve
<1>1. UNCHANGED <<aborted, handledCallIds, tries>>
  BY DEF TurnStep, TurnStreams, TurnCompletes, TurnFails, OwnerSettles, Deactivate, Progress
<1>2. ownerExecution' \in {ownerExecution, None}
  BY DEF TurnStep, TurnStreams, TurnCompletes, TurnFails, OwnerSettles, Deactivate, Progress
<1>3. answers' = answers \/ \E calls, r : Deliver(calls, r)
  BY DEF TurnStep, TurnStreams, TurnCompletes, TurnFails, OwnerSettles, Deactivate, Progress,
         Settle
<1> QED BY <1>1, <1>2, <1>3, NothingHandedOver, ConverseKept DEF Service!Serve, IInv

\* Every step of the dispatcher is one AskService allows, or none at all.
LEMMA StepServed ==
  ASSUME IInv, Once, Once', [Next]_vars
  PROVE  [Service!Next]_(Service!svars)
<1>1. CASE \E c \in Calls : HandleToolCall(c)
  BY <1>1, CallServed DEF Service!Next
<1>2. CASE RedirectStep
  BY <1>2, SteerServed, SteerAnswerServed, CorrectionServed DEF RedirectStep, Service!Next
<1>3. CASE \E k \in Keys : TurnStep(k) \/ Progress(k)
  BY <1>3, TurnServed DEF Service!Next
<1>4. CASE Abort
  <2>1. Service!Close
    BY <1>4 DEF Abort, Service!Close
  <2> QED BY <2>1 DEF Service!Next
<1>5. CASE Revoke \/ UNCHANGED vars
  BY <1>5 DEF Revoke, vars, Service!svars
<1> QED BY <1>1, <1>2, <1>3, <1>4, <1>5 DEF Next

\* The dispatcher implements the safety part of AskService: a call is answered
\* once and never after abort(), one Hermes turn works at a time, and an
\* instruction is handed over once.
THEOREM PromiseKept == Spec => Service!Init /\ [][Service!Next]_(Service!svars)
<1>1. Init => Service!Init
  BY AskConstants DEF Init, Service!Init
<1> QED BY <1>1, StepServed, Invariance, OnceAlways, PTL DEF Spec
=============================================================================
