------------------------------ MODULE AskHermes ------------------------------
(***************************************************************************)
(* features/realtime/ask-hermes-orchestrator: the trusted dispatcher of    *)
(* one live voice call's tool calls.  At most one ask execution, the       *)
(* owner, runs a gateway turn; a further ask is steered into it through    *)
(* one serialised chain of session.redirect dispatches, which corrections  *)
(* share.  Every await of the code is a point where any other step may     *)
(* run.  The gateway (the owner's turn and the redirect's answer) and the  *)
(* model that issues the tool calls are external.                          *)
(***************************************************************************)
EXTENDS Integers, Sequences, FiniteSets, TLC

CONSTANTS
  Calls,             \* tool-call ids the model may issue
  Keys,              \* execution keys: (user item, instruction) pairs
  None,              \* no execution
  MaxToolCalls,      \* MAX_TOOL_CALLS_PER_REALTIME_CALL
  MaxSteers,         \* MAX_OUTSTANDING_TOOL_CALLS
  MaxCorrections,    \* MAX_OUTSTANDING_CORRECTIONS
  MaxSteerAttempts,
  MaxSteerDispatches,
  MaxProgressNotes,  \* MAX_PROGRESS_NOTES_PER_EXECUTION
  MaxRefusals        \* bound: how often the model repeats an over-budget call

ASSUME AskConstants ==
  /\ None \notin Keys
  /\ {MaxToolCalls, MaxSteers, MaxCorrections, MaxSteerAttempts,
      MaxSteerDispatches, MaxProgressNotes, MaxRefusals} \subseteq Nat

\* What a tool call can be answered with.
Results == {"answered", "steered", "queued", "redirected", "nothing_active",
            "rejected", "busy", "cancelled", "unauthorized", "invalid_arguments",
            "unknown_tool", "upstream_unavailable"}

\* The owner's gateway turn: not started, started without an event yet,
\* streaming, returned by the executor, and settled by startOwnerTurn.
Turns == {"none", "open", "live", "completed", "failed", "done"}

\* How one session.redirect dispatch can come back.
Outcomes == {"redirected", "queued", "nothing_active", "rejected", "throws"}

VARIABLES
  aborted, authorized, ownerExecution, activeExecution, handledCallIds,
  correctionOutstanding, steerOutstanding,
  exec,           \* executionsByKey, with the state of each execution's turn
  redirectQueue,  \* the promise chain; its head is the only job running
  answers,        \* what was delivered to the model for each call, in order
  tries           \* history: how often a key's instruction was dispatched

vars == <<aborted, authorized, ownerExecution, activeExecution, handledCallIds,
          correctionOutstanding, steerOutstanding, exec, redirectQueue, answers, tries>>

Execution == [known : BOOLEAN, active : BOOLEAN, ready : BOOLEAN,
              callIds : SUBSET Calls, queuedFollowOns : Nat, progressNotes : Nat,
              result : Results \cup {"none"}, turn : Turns]

NoExecution == [known |-> FALSE, active |-> FALSE, ready |-> FALSE, callIds |-> {},
                queuedFollowOns |-> 0, progressNotes |-> 0, result |-> "none",
                turn |-> "none"]

SteerJob == [lane : {"steer"}, key : Keys, at : {"queued", "waiting", "sent"},
             target : Keys \cup {None}, attempt : Nat, dispatches : Nat]

CorrectionJob == [lane : {"correct"}, call : Calls, at : {"queued", "sent"}, target : Keys]

Init ==
  /\ aborted = FALSE /\ authorized = TRUE
  /\ ownerExecution = None /\ activeExecution = None
  /\ handledCallIds = {}
  /\ correctionOutstanding = 0 /\ steerOutstanding = 0
  /\ exec = [k \in Keys |-> NoExecution]
  /\ redirectQueue = <<>>
  /\ answers = [c \in Calls |-> <<>>]
  /\ tries = [k \in Keys |-> [landed |-> 0, redirects |-> 0]]

-----------------------------------------------------------------------------
\* deliverResult for a set of calls: nothing reaches the model after abort().
Deliver(calls, result) ==
  answers' = IF aborted THEN answers
             ELSE [c \in Calls |-> IF c \in calls THEN Append(answers[c], result)
                                   ELSE answers[c]]

\* settleAsk: record the result of execution e of key k, answer all its calls.
Settle(k, e, result) ==
  /\ exec' = [exec EXCEPT ![k] = [e EXCEPT !.result = result]]
  /\ Deliver(e.callIds, result)

\* startOwnerTurn up to its await: the executor runs from here on.
StartOwnerTurn(k, e) ==
  /\ ownerExecution' = k
  /\ exec' = [exec EXCEPT ![k] = [e EXCEPT !.turn = "open"]]
  /\ tries' = [tries EXCEPT ![k].landed = @ + 1]
  /\ UNCHANGED answers

-----------------------------------------------------------------------------
(* handleToolCall *)

\* A call id already handled is ignored; past the budget a call is refused
\* without being remembered.
RefuseOverBudget(c) ==
  /\ ~aborted /\ c \notin handledCallIds
  /\ Cardinality(handledCallIds) >= MaxToolCalls
  /\ Len(answers[c]) < MaxRefusals
  /\ Deliver({c}, "busy")
  /\ UNCHANGED <<aborted, authorized, ownerExecution, activeExecution, handledCallIds,
                 correctionOutstanding, steerOutstanding, exec, redirectQueue, tries>>

Accept(c) ==
  /\ ~aborted /\ c \notin handledCallIds
  /\ Cardinality(handledCallIds) < MaxToolCalls
  /\ handledCallIds' = handledCallIds \cup {c}

\* Unknown tool, arguments that fail the strict schema, or a revoked call.
RefuseCall(c) ==
  /\ Accept(c)
  /\ \/ \E result \in {"unknown_tool", "invalid_arguments", "rejected"} : Deliver({c}, result)
     \/ ~authorized /\ \E result \in {"unauthorized", "rejected"} : Deliver({c}, result)
  /\ UNCHANGED <<aborted, authorized, ownerExecution, activeExecution,
                 correctionOutstanding, steerOutstanding, exec, redirectQueue, tries>>

\* A retry of an instruction within one user turn joins its execution.
Reattach(c, k) ==
  /\ Accept(c) /\ authorized
  /\ exec[k].known
  /\ exec' = [exec EXCEPT ![k].callIds = @ \cup {c}]
  /\ IF exec[k].result # "none" THEN Deliver({c}, exec[k].result) ELSE UNCHANGED answers
  /\ UNCHANGED <<aborted, authorized, ownerExecution, activeExecution,
                 correctionOutstanding, steerOutstanding, redirectQueue, tries>>

\* createExecution, entered in executionsByKey.
NewExecution_Unregistered(c) == [NoExecution EXCEPT !.callIds = {c}]
NewExecution(c) == [NoExecution EXCEPT !.known = TRUE, !.callIds = {c}]

\* A new execution: it owns the next turn, is refused, or becomes a steer.
Ask(c, k) ==
  LET e == NewExecution(c)
  IN /\ Accept(c) /\ authorized
     /\ ~exec[k].known
     /\ \/ /\ ownerExecution = None
           /\ StartOwnerTurn(k, e)
           /\ UNCHANGED <<steerOutstanding, redirectQueue>>
        \/ /\ ownerExecution # None /\ steerOutstanding >= MaxSteers
           /\ Settle(k, e, "busy")
           /\ UNCHANGED <<ownerExecution, steerOutstanding, redirectQueue, tries>>
        \/ /\ ownerExecution # None /\ steerOutstanding < MaxSteers
           /\ exec' = [exec EXCEPT ![k] = e]
           /\ steerOutstanding' = steerOutstanding + 1
           /\ redirectQueue' = Append(redirectQueue,
                [lane |-> "steer", key |-> k, at |-> "queued", target |-> None,
                 attempt |-> 0, dispatches |-> 0])
           /\ UNCHANGED <<ownerExecution, answers, tries>>
     /\ UNCHANGED <<aborted, authorized, activeExecution, correctionOutstanding>>

\* handleCorrection: captures the live execution now, dispatches in its turn.
Correct(c) ==
  /\ Accept(c) /\ authorized
  /\ \/ /\ activeExecution = None
        /\ Deliver({c}, "nothing_active")
        /\ UNCHANGED <<correctionOutstanding, redirectQueue>>
     \/ /\ activeExecution # None /\ correctionOutstanding >= MaxCorrections
        /\ Deliver({c}, "rejected")
        /\ UNCHANGED <<correctionOutstanding, redirectQueue>>
     \/ /\ activeExecution # None /\ correctionOutstanding < MaxCorrections
        /\ correctionOutstanding' = correctionOutstanding + 1
        /\ redirectQueue' = Append(redirectQueue,
             [lane |-> "correct", call |-> c, at |-> "queued", target |-> activeExecution])
        /\ UNCHANGED answers
  /\ UNCHANGED <<aborted, authorized, ownerExecution, activeExecution,
                 steerOutstanding, exec, tries>>

-----------------------------------------------------------------------------
(* The redirect chain *)

Running(lane, at) ==
  redirectQueue # <<>> /\ redirectQueue[1].lane = lane /\ redirectQueue[1].at = at

StillActive_Any(k) == activeExecution # None

\* The captured execution still has the open redirect lane.
StillActive(k) == activeExecution = k /\ exec[k].active

FinishSteer_Leaks == redirectQueue' = Tail(redirectQueue) /\ UNCHANGED steerOutstanding

\* The steer at the head is over; the finally gives its slot back.
FinishSteer ==
  /\ redirectQueue' = Tail(redirectQueue)
  /\ steerOutstanding' = steerOutstanding - 1

SettleSteer(k, result) ==
  /\ Settle(k, exec[k], result)
  /\ FinishSteer
  /\ UNCHANGED <<ownerExecution, tries>>

\* A steer is reconsidered and dispatched only so often.
Exhausted_AttemptsOnly(attempt, dispatches) == attempt >= MaxSteerAttempts
Exhausted(attempt, dispatches) ==
  attempt >= MaxSteerAttempts \/ dispatches >= MaxSteerDispatches

\* The running turn settled before the steer could land.
OwnerGone_Always(k) == TRUE
OwnerGone(k) == ownerExecution \in {None, k}

\* runSteer up to its first await, for the given attempt and dispatch counts.
Reconsider(k, attempt, dispatches) ==
  \/ /\ aborted
     /\ SettleSteer(k, "cancelled")
  \/ /\ ~aborted /\ Exhausted(attempt, dispatches)
     /\ SettleSteer(k, "busy")
  \/ /\ ~aborted /\ ~Exhausted(attempt, dispatches) /\ OwnerGone(k)
     /\ StartOwnerTurn(k, exec[k])
     /\ FinishSteer
  \/ /\ ~aborted /\ ~Exhausted(attempt, dispatches) /\ ~OwnerGone(k)
     /\ redirectQueue' = [redirectQueue EXCEPT
          ![1] = [@ EXCEPT !.at = "waiting", !.target = ownerExecution,
                           !.attempt = attempt, !.dispatches = dispatches]]
     /\ UNCHANGED <<ownerExecution, steerOutstanding, exec, answers, tries>>

SteerStarts ==
  /\ Running("steer", "queued")
  /\ Reconsider(redirectQueue[1].key, 0, 0)
  /\ UNCHANGED <<aborted, authorized, activeExecution, handledCallIds, correctionOutstanding>>

\* await owner.ready resumes: the lane opened, or the owner's turn settled.
SteerResumes ==
  /\ Running("steer", "waiting")
  /\ LET job == redirectQueue[1]
     IN /\ exec[job.target].ready
        /\ \/ /\ aborted
              /\ SettleSteer(job.key, "cancelled")
           \/ /\ ~aborted /\ ~StillActive(job.target)
              /\ Reconsider(job.key, job.attempt + 1, job.dispatches)
           \/ /\ ~aborted /\ StillActive(job.target)
              /\ redirectQueue' = [redirectQueue EXCEPT ![1].at = "sent"]
              /\ tries' = [tries EXCEPT ![job.key].redirects = @ + 1]
              /\ UNCHANGED <<ownerExecution, steerOutstanding, exec, answers>>
  /\ UNCHANGED <<aborted, authorized, activeExecution, handledCallIds, correctionOutstanding>>

\* The answer to a steer's redirect.  The owner is not looked at again.  An
\* accepted redirect landed, a conflict did not, of a failure nobody knows.
SteerAnswered(outcome) ==
  /\ Running("steer", "sent")
  /\ LET job == redirectQueue[1]
         ack == IF outcome = "redirected" THEN "steered" ELSE "queued"
     IN /\ \/ /\ outcome \in {"redirected", "queued"}
              /\ LET e == [exec[job.key] EXCEPT !.result = ack]
                 IN exec' = IF outcome = "queued"
                            THEN [exec EXCEPT ![job.target].queuedFollowOns = @ + 1, ![job.key] = e]
                            ELSE [exec EXCEPT ![job.key] = e]
              /\ Deliver(exec[job.key].callIds, ack)
              /\ FinishSteer
              /\ tries' = [tries EXCEPT ![job.key].landed = @ + 1]
              /\ UNCHANGED ownerExecution
           \/ /\ outcome \in {"rejected", "throws"}
              /\ Settle(job.key, exec[job.key],
                        IF outcome = "throws" THEN "upstream_unavailable" ELSE "busy")
              /\ FinishSteer
              /\ \E n \in {0, 1} : tries' = [tries EXCEPT ![job.key].landed = @ + n]
              /\ UNCHANGED ownerExecution
           \/ /\ outcome = "nothing_active"
              /\ Reconsider(job.key, job.attempt + 1, job.dispatches + 1)
  /\ UNCHANGED <<aborted, authorized, activeExecution, handledCallIds, correctionOutstanding>>

FinishCorrection(result) ==
  /\ Deliver({redirectQueue[1].call}, result)
  /\ redirectQueue' = Tail(redirectQueue)
  /\ correctionOutstanding' = correctionOutstanding - 1

CorrectionStarts ==
  /\ Running("correct", "queued")
  /\ LET target == redirectQueue[1].target
         stale == aborted \/ ~authorized \/ ~StillActive(target)
     IN \/ stale /\ FinishCorrection("nothing_active")
        \/ /\ ~stale
           /\ redirectQueue' = [redirectQueue EXCEPT ![1].at = "sent"]
           /\ UNCHANGED <<answers, correctionOutstanding>>
  /\ UNCHANGED <<aborted, authorized, ownerExecution, activeExecution, handledCallIds,
                 steerOutstanding, exec, tries>>

\* Completion wins: an answer for an execution that is no longer live is dropped.
CorrectionAnswered(outcome) ==
  /\ Running("correct", "sent")
  /\ FinishCorrection(IF outcome = "throws" THEN "rejected"
                      ELSE IF ~StillActive(redirectQueue[1].target) THEN "nothing_active"
                      ELSE outcome)
  /\ UNCHANGED <<aborted, authorized, ownerExecution, activeExecution, handledCallIds,
                 steerOutstanding, exec, tries>>

-----------------------------------------------------------------------------
(* The owner's turn: gateway-ask-hermes-executor over GatewayClient.streamTurn *)

\* The stream's first event: lifecycle.activate opens the redirect lane.
TurnStreams(k) ==
  /\ exec[k].turn = "open"
  /\ IF aborted \/ exec[k].active \/ ownerExecution # k
     THEN /\ exec' = [exec EXCEPT ![k].turn = "live"]
          /\ UNCHANGED activeExecution
     ELSE /\ exec' = [exec EXCEPT ![k].turn = "live", ![k].active = TRUE, ![k].ready = TRUE]
          /\ activeExecution' = k
  /\ UNCHANGED <<aborted, authorized, ownerExecution, handledCallIds, correctionOutstanding,
                 steerOutstanding, redirectQueue, answers, tries>>

Progress(k) ==
  /\ exec[k].turn = "live"
  /\ ~aborted /\ ownerExecution = k /\ exec[k].progressNotes < MaxProgressNotes
  /\ exec' = [exec EXCEPT ![k].progressNotes = @ + 1]
  /\ UNCHANGED <<aborted, authorized, ownerExecution, activeExecution, handledCallIds,
                 correctionOutstanding, steerOutstanding, redirectQueue, answers, tries>>

Deactivate_Leaks(k, turn) ==
  /\ exec' = [exec EXCEPT ![k].turn = turn, ![k].active = FALSE]
  /\ UNCHANGED <<aborted, authorized, ownerExecution, activeExecution, handledCallIds,
                 correctionOutstanding, steerOutstanding, redirectQueue, answers, tries>>

\* The executor returns: its finally runs lifecycle.deactivate.
Deactivate(k, turn) ==
  /\ exec' = [exec EXCEPT ![k].turn = turn, ![k].active = FALSE]
  /\ activeExecution' = IF activeExecution = k THEN None ELSE activeExecution
  /\ UNCHANGED <<aborted, authorized, ownerExecution, handledCallIds, correctionOutstanding,
                 steerOutstanding, redirectQueue, answers, tries>>

\* turn.completed: a queued follow-on keeps the stream open for its turn.
TurnCompletes(k) ==
  /\ exec[k].turn = "live"
  /\ \/ /\ ~aborted /\ exec[k].queuedFollowOns > 0
        /\ exec' = [exec EXCEPT ![k].queuedFollowOns = @ - 1]
        /\ UNCHANGED <<aborted, authorized, ownerExecution, activeExecution, handledCallIds,
                       correctionOutstanding, steerOutstanding, redirectQueue, answers, tries>>
     \/ /\ aborted \/ exec[k].queuedFollowOns = 0
        /\ Deactivate(k, "completed")

TurnFails(k) ==
  /\ exec[k].turn \in {"open", "live"}
  /\ Deactivate(k, "failed")

\* startOwnerTurn's finally resolves ready whether or not the lane ever opened.
Settled_NotReady(e) == [e EXCEPT !.turn = "done"]
Settled(e) == [e EXCEPT !.ready = TRUE, !.turn = "done"]

\* startOwnerTurn after its await: its finally, then settleAsk.
OwnerSettles(k) ==
  /\ exec[k].turn \in {"completed", "failed"}
  /\ ownerExecution' = IF ownerExecution = k THEN None ELSE ownerExecution
  /\ Settle(k, Settled(exec[k]),
            IF exec[k].turn = "completed" THEN "answered" ELSE "upstream_unavailable")
  /\ UNCHANGED <<aborted, authorized, activeExecution, handledCallIds, correctionOutstanding,
                 steerOutstanding, redirectQueue, tries>>

-----------------------------------------------------------------------------
Abort ==
  /\ ~aborted
  /\ aborted' = TRUE
  /\ activeExecution' = None
  /\ exec' = [k \in Keys |-> IF k = activeExecution THEN [exec[k] EXCEPT !.active = FALSE]
                             ELSE exec[k]]
  /\ UNCHANGED <<authorized, ownerExecution, handledCallIds, correctionOutstanding,
                 steerOutstanding, redirectQueue, answers, tries>>

\* The backend no longer tracks the call (isAuthorized turns false).
Revoke ==
  /\ authorized
  /\ authorized' = FALSE
  /\ UNCHANGED <<aborted, ownerExecution, activeExecution, handledCallIds, correctionOutstanding,
                 steerOutstanding, exec, redirectQueue, answers, tries>>

HandleToolCall(c) ==
  \/ RefuseOverBudget(c)
  \/ RefuseCall(c)
  \/ \E k \in Keys : Reattach(c, k) \/ Ask(c, k)
  \/ Correct(c)

RedirectStep ==
  \/ SteerStarts
  \/ SteerResumes
  \/ CorrectionStarts
  \/ \E outcome \in Outcomes : SteerAnswered(outcome) \/ CorrectionAnswered(outcome)

TurnStep(k) == TurnStreams(k) \/ TurnCompletes(k) \/ TurnFails(k) \/ OwnerSettles(k)

Next ==
  \/ \E c \in Calls : HandleToolCall(c)
  \/ RedirectStep
  \/ \E k \in Keys : TurnStep(k) \/ Progress(k)
  \/ Abort
  \/ Revoke

Spec == Init /\ [][Next]_vars

\* Promise continuations run, a gateway RPC answers or times out, and a stream
\* ends: GatewayClient bounds each of them.  The model and the user owe nothing.
Fairness ==
  /\ WF_vars(RedirectStep)
  /\ \A k \in Keys : WF_vars(TurnStep(k))

FairSpec == Spec /\ Fairness

-----------------------------------------------------------------------------
\* Every variable has its type.
TypeOK ==
  /\ aborted \in BOOLEAN /\ authorized \in BOOLEAN
  /\ ownerExecution \in Keys \cup {None} /\ activeExecution \in Keys \cup {None}
  /\ handledCallIds \subseteq Calls
  /\ correctionOutstanding \in Nat /\ steerOutstanding \in Nat
  /\ exec \in [Keys -> Execution]
  /\ redirectQueue \in Seq(SteerJob \cup CorrectionJob)
  /\ answers \in [Calls -> Seq(Results)]
  /\ tries \in [Keys -> [landed : Nat, redirects : Nat]]

\* Owner turns never overlap: a gateway turn that has not settled belongs to the
\* one owner, across steers that fall back to owning a turn themselves.
OwnerExclusive ==
  \A k \in Keys : exec[k].turn \in {"open", "live", "completed", "failed"} <=> ownerExecution = k

\* A correction can only ever be aimed at the owner while its stream is live:
\* the active execution is the owner, and no other execution claims to be active.
ActiveIsLiveOwner ==
  /\ activeExecution # None =>
       ownerExecution = activeExecution /\ exec[activeExecution].turn = "live"
  /\ \A k \in Keys : exec[k].active <=> activeExecution = k

\* An instruction reaches Hermes at most once: as a turn of its own or as one
\* accepted redirect, however often its steer is reconsidered or retried.
InstructionLandsOnce == \A k \in Keys : tries[k].landed <= 1

\* One steer sends session.redirect at most MAX_STEER_DISPATCHES times.
RedirectsBounded == \A k \in Keys : tries[k].redirects <= MaxSteerDispatches

\* The outstanding counters are the jobs of each kind in the chain, so a slot is
\* always given back and the lane can never silently fill up.
SlotsAccountedFor ==
  LET jobs(lane) == Cardinality({i \in DOMAIN redirectQueue : redirectQueue[i].lane = lane})
  IN /\ steerOutstanding = jobs("steer") /\ steerOutstanding <= MaxSteers
     /\ correctionOutstanding = jobs("correct") /\ correctionOutstanding <= MaxCorrections

\* A correction reports success only while the execution it captured when it was
\* issued is still the live one: completion wins the race.
CorrectionHitsItsTarget ==
  [][\A c \in Calls :
       /\ Running("correct", "sent") /\ redirectQueue[1].call = c
       /\ answers'[c] \in {Append(answers[c], "redirected"), Append(answers[c], "queued")}
       => activeExecution = redirectQueue[1].target]_vars

\* Unless the call ends, every call taken on is eventually answered: no promise
\* of the chain or of an owner's ready waits for something that never comes.
EveryCallAnswered ==
  \A c \in Calls : c \in handledCallIds ~> (answers[c] # <<>> \/ aborted)

\* The dispatcher keeps the promise of AskService.
Service == INSTANCE AskService WITH
  open <- ~aborted,
  taken <- handledCallIds,
  replies <- [c \in Calls |-> IF c \in handledCallIds THEN Len(answers[c]) ELSE 0],
  working <- ownerExecution,
  landed <- {k \in Keys : tries[k].landed > 0}

ServiceKept == Service!Spec

-----------------------------------------------------------------------------
\* For model checking: call ids and keys are interchangeable.
Symmetry == Permutations(Calls) \cup Permutations(Keys)
=============================================================================
