----------------------------- MODULE Conversation -----------------------------
(***************************************************************************)
(* One conversation on the screen: what is typed in the composer           *)
(* (composer/index, composer/state), sent, stopped, corrected and resumed  *)
(* by useWaveChat, shown by waveChatReducer and read back by               *)
(* refreshWaveSessionTimeline, over a gateway that may answer late, refuse *)
(* or not be reached.  The stream itself is TurnStream's.  A text stands   *)
(* for the user row it becomes; texts are numbered as they are typed.      *)
(***************************************************************************)
EXTENDS Naturals, FiniteSets

CONSTANTS MaxTexts, MaxTurns \* bounds of the model

VARIABLE conv

C == conv
Texts == 1..MaxTexts
Readers == {"turn", "race"}
NoFetch == [at |-> "none", rows |-> {}]

\* The screen is opened, perhaps on a turn an earlier screen has started (1).
Init ==
  \E before \in 0..1 :
    conv = [draft |-> 0, typed |-> before, status |-> "idle", loop |-> "none", turn |-> 0,
            known |-> FALSE, resumed |-> FALSE, cancelling |-> FALSE, aborted |-> FALSE, stop |-> "none",
            correcting |-> 0, shown |-> 0, local |-> {}, wiped |-> FALSE,
            cache |-> 1..before, journal |-> {}, fetch |-> NoFetch, read |-> [r \in Readers |-> "none"],
            race |-> "none", probe |-> IF before = 1 THEN "out" ELSE "none", found |-> 0, turns |-> 0,
            submit |-> 0, running |-> before, end |-> "none", stored |-> 1..before,
            unknown |-> FALSE, refused |-> {}]

\* busyRef, and what the screen takes for busy.
BusyRef == C.loop # "none"
Busy == C.status \in {"submitting", "streaming", "cancelling"}

----------------------------------------------------------------------------
(* The composer.                                                           *)
TypeText ==
  C.draft = 0 /\ C.typed < MaxTexts
  /\ conv' = [C EXCEPT !.draft = C.typed + 1, !.typed = @ + 1]

\* resolveComposerAction: the one action the trailing button has.
Action ==
  CASE C.shown # 0 -> "correction-loading"
    [] C.shown = 0 /\ Busy /\ C.status # "cancelling" /\ C.draft # 0 -> "correct"
    [] C.shown = 0 /\ Busy /\ (C.status = "cancelling" \/ C.draft = 0) -> "stop"
    [] C.shown = 0 /\ ~Busy /\ C.draft # 0 -> "send"
    [] OTHER -> "live"

\* A new loop over the stream of turn t.
Consume(d, t, resumed) ==
  [d EXCEPT !.loop = "open", !.turns = @ + 1, !.turn = t, !.known = resumed, !.resumed = resumed,
            !.cancelling = FALSE, !.aborted = FALSE, !.status = "submitting", !.shown = 0, !.wiped = FALSE,
            !.local = IF resumed THEN {} ELSE {t}, !.submit = IF resumed THEN @ ELSE t]

CanStart == ~BusyRef /\ C.correcting = 0

\* send(): the composer has cleared the draft before the hook may refuse it.
Send ==
  /\ Action = "send" /\ C.turns < MaxTurns
  /\ LET d == [C EXCEPT !.draft = 0]
     IN conv' = IF CanStart THEN Consume(d, C.draft, FALSE)
                ELSE [d EXCEPT !.refused = @ \cup {<<C.status, C.loop>>}]

\* regenerateTurn(): the rows from the replayed one on leave the cache first.  A
\* text that is in the composer or being answered is another row: left alone here.
Regenerate(t) ==
  /\ ~Busy /\ C.turns < MaxTurns /\ t \in C.cache \ (C.journal \cup {C.draft, C.correcting, C.running, C.found})
  /\ LET d == [C EXCEPT !.cache = {x \in @ : x < t}, !.unknown = TRUE]
     IN conv' = IF CanStart THEN Consume(d, t, FALSE) ELSE d

\* The probe on mount asks for a running turn, and resumes it on its answer.
ProbeTaken ==
  C.probe = "out" /\ conv' = [C EXCEPT !.probe = "taken", !.found = C.running]

ProbeFails == C.probe = "out" /\ conv' = [C EXCEPT !.probe = "none"]

ProbeAnswered ==
  /\ C.probe = "taken"
  /\ LET d == [C EXCEPT !.probe = "none", !.found = 0]
     IN conv' = IF C.found # 0 /\ CanStart THEN Consume(d, C.found, TRUE) ELSE d

----------------------------------------------------------------------------
(* The gateway.                                                            *)

\* prompt.submit arrives, also one whose stream was aborted meanwhile; a replayed
\* row takes the rows after it along.
GatewayTakes ==
  /\ C.submit # 0 /\ C.running = 0
  /\ conv' = [C EXCEPT !.submit = 0, !.running = C.submit, !.end = "none",
                       !.stored = {x \in @ : x < C.submit} \cup {C.submit},
                       !.unknown = @ \/ C.loop # "open"]

GatewayRefuses ==
  C.submit # 0 /\ conv' = [C EXCEPT !.submit = 0]

\* The turn ends, and on its own stream the terminal event says how.
TurnEnds(how) ==
  /\ C.running # 0 /\ (how = "cancelled" => C.stop = "accepted")
  /\ conv' = [C EXCEPT !.running = 0, !.unknown = TRUE, !.stop = IF @ = "accepted" THEN "none" ELSE @,
                       !.end = IF C.turn = C.running THEN how ELSE @]

----------------------------------------------------------------------------
(* refreshWaveSessionTimeline(), for the turn that ended or after a        *)
(* correction that failed.  A fetch under way serves whoever asks again.   *)
Read(d, r) ==
  [d EXCEPT !.read[r] = "waiting", !.fetch.at = IF @ = "none" THEN "out" ELSE @]

RowsTaken ==
  /\ C.fetch.at = "out"
  /\ conv' = [C EXCEPT !.fetch = [at |-> "taken", rows |-> C.stored], !.unknown = FALSE]

\* The rows are on the screen, the session list is still being refetched.
RowsApplied ==
  /\ C.fetch.at = "taken"
  /\ conv' = [C EXCEPT !.fetch = NoFetch, !.cache = C.fetch.rows \cup C.journal,
                       !.read = [r \in Readers |-> IF @[r] = "waiting" THEN "applied" ELSE @[r]]]

\* timeline.reconciled drops the local rows; settled comes with the same turn.
Reconciled(d) == [d EXCEPT !.local = {}]

Settled(d) ==
  [d EXCEPT !.loop = "none", !.turn = 0, !.known = FALSE, !.cancelling = FALSE,
            !.aborted = FALSE, !.resumed = FALSE, !.wiped = FALSE, !.end = "none",
            !.status = IF @ = "error" THEN @ ELSE "idle"]

Finished(d, r) ==
  CASE r = "turn" -> Settled([d EXCEPT !.read["turn"] = "none"])
    [] r = "race" -> [d EXCEPT !.read["race"] = "none", !.race = "none"]

ReadDone(r) ==
  /\ C.read[r] = "applied"
  /\ conv' = Finished([Reconciled(C) EXCEPT !.wiped = @ \/ (r = "race" /\ C.loop = "open")], r)

\* The fetch fails for all who wait for it.
FetchFails ==
  /\ C.fetch.at # "none"
  /\ LET d == [C EXCEPT !.fetch = NoFetch, !.unknown = TRUE]
         e == IF d.read["turn"] = "waiting" THEN Finished(d, "turn") ELSE d
     IN conv' = IF e.read["race"] = "waiting" THEN Finished(e, "race") ELSE e

\* The user retries, or the app comes back to the front, when no turn runs here: the
\* query is refetched, and what the reducer still holds of a failed turn is shown
\* beside its rows.
Refetched ==
  /\ C.loop = "none" /\ C.unknown /\ C.fetch.at = "none"
  /\ conv' = [C EXCEPT !.cache = C.stored \cup C.journal,
                       !.unknown = C.running # 0 \/ C.submit # 0 \/ C.local # {}]

----------------------------------------------------------------------------
(* consumeTurn().                                                          *)
Following == C.loop = "open" /\ ~C.aborted

\* turn.started, a delta or a tool event of the running turn.
EventArrives ==
  /\ Following /\ C.submit # C.turn /\ C.running = C.turn
  /\ conv' = [C EXCEPT !.known = TRUE, !.status = "streaming"]

Conclude(d) == Read([d EXCEPT !.loop = "reading"], "turn")

TerminalArrives ==
  /\ Following /\ C.end # "none" /\ C.running # C.turn
  /\ conv' = Conclude([C EXCEPT !.status =
               CASE C.end = "completed" -> "streaming"
                 [] C.end = "cancelled" /\ C.status = "cancelling" -> "cancelling"
                 [] OTHER -> "error"])

\* A resumed turn the gateway no longer knows has concluded.
ResumeNotFound ==
  /\ Following /\ C.known /\ C.submit # C.turn /\ C.running # C.turn
  /\ conv' = Conclude(C)

\* The dial, the submit or the reattach attempts fail; Stop's abort surfaces.
StreamFails ==
  /\ C.loop = "open"
  /\ conv' = Conclude([C EXCEPT !.unknown = TRUE,
                          !.status = IF C.cancelling /\ C.aborted THEN "cancelling" ELSE "error"])

----------------------------------------------------------------------------
(* stop() and correct().                                                   *)
Stop ==
  /\ Action = "stop" /\ C.loop # "none" /\ ~C.cancelling /\ C.correcting = 0
  /\ conv' = [C EXCEPT !.cancelling = TRUE, !.status = "cancelling",
                       !.stop = IF C.known THEN "sent" ELSE @, !.aborted = ~C.known]

\* session.interrupt: the turn named is still the running one, or is over.
StopTaken ==
  /\ C.stop = "sent"
  /\ conv' = [C EXCEPT !.stop = IF C.running # 0 /\ C.running = C.turn THEN "accepted" ELSE "none"]

StopFails ==
  /\ C.stop = "sent"
  /\ conv' = [C EXCEPT !.stop = "none", !.aborted = C.loop # "none"]

\* correct(): refused without a trace unless a turn runs that is not being
\* stopped; the composer puts the text back, so nothing has changed then.
Correct ==
  /\ Action = "correct" /\ BusyRef /\ ~C.cancelling /\ C.correcting = 0 /\ C.race = "none"
  /\ conv' = [C EXCEPT !.draft = 0, !.correcting = C.draft, !.shown = C.draft,
                       !.local = @ \cup {C.draft}]

\* redirectTurn: accepted by the running turn, or rejected.
CorrectionAccepted ==
  /\ C.correcting # 0 /\ C.running # 0 /\ C.correcting \notin C.stored
  /\ conv' = [C EXCEPT !.stored = @ \cup {C.correcting}, !.unknown = TRUE]

CorrectionResolved ==
  /\ C.correcting # 0 /\ C.correcting \in C.stored
  /\ conv' = [C EXCEPT !.correcting = 0, !.shown = 0, !.journal = @ \cup {C.correcting},
                       !.cache = @ \cup {C.correcting}]

\* The composer takes a text back if it is empty.  One the gateway has stored,
\* its answer lost, would become another row: a new number, while there is one.
Restored(d, t) ==
  CASE d.draft = 0 /\ t \notin d.stored \cup d.cache -> [d EXCEPT !.draft = t]
    [] d.draft = 0 /\ t \in d.stored \cup d.cache /\ d.typed < MaxTexts ->
         [d EXCEPT !.draft = d.typed + 1, !.typed = @ + 1]
    [] OTHER -> d

\* Rejected, or its answer was lost: a look at whether the turn still runs.
CorrectionFails ==
  /\ C.correcting # 0
  /\ conv' = Restored([C EXCEPT !.correcting = 0, !.shown = 0, !.race = "probing",
                              !.local = IF C.shown = 0 THEN @ ELSE @ \ {C.correcting}],
                      C.correcting)

\* reconcileCorrectionRace(): a turn that runs, or an error, ends it.
RaceProbed ==
  /\ C.race = "probing"
  /\ conv' = IF C.running = 0 THEN Read([C EXCEPT !.race = "reading"], "race")
             ELSE [C EXCEPT !.race = "none"]

RaceProbeFails == C.race = "probing" /\ conv' = [C EXCEPT !.race = "none"]

Settles ==
  \/ RowsTaken \/ RowsApplied \/ TerminalArrives \/ ResumeNotFound \/ StopTaken
  \/ \E r \in Readers : ReadDone(r)
  \/ C.stop = "accepted" /\ TurnEnds("cancelled")
  \/ C.aborted /\ StreamFails

Next ==
  \/ TypeText \/ Send \/ ProbeTaken \/ ProbeFails \/ ProbeAnswered
  \/ GatewayTakes \/ GatewayRefuses \/ EventArrives \/ TerminalArrives \/ ResumeNotFound
  \/ StreamFails \/ RowsTaken \/ RowsApplied \/ FetchFails \/ Refetched \/ Stop \/ StopTaken \/ StopFails
  \/ Correct \/ CorrectionAccepted \/ CorrectionResolved \/ CorrectionFails
  \/ RaceProbed \/ RaceProbeFails
  \/ \E t \in Texts : Regenerate(t)
  \/ \E how \in {"completed", "error", "cancelled"} : TurnEnds(how)
  \/ \E r \in Readers : ReadDone(r)

Fairness == WF_conv(Settles)
Spec == Init /\ [][Next]_conv /\ Fairness
----------------------------------------------------------------------------
Quiet ==
  C.loop = "none" /\ C.correcting = 0 /\ C.race = "none" /\ C.submit = 0
  /\ C.fetch.at = "none" /\ \A r \in Readers : C.read[r] = "none"

\* Once everything has settled the screen shows the rows of the gateway, each
\* once, and the corrections in the journal, whatever was stopped or replayed: unless the last reading
\* failed, or the rows changed behind a stream that was given up.
ScreenTellsTheGateway ==
  (Quiet /\ C.running = 0 /\ ~C.unknown) =>
    /\ C.local = {} /\ C.stored \subseteq C.cache /\ C.cache \subseteq C.stored \cup C.journal

\* The prompt being answered stays on the screen until the stored rows replace
\* it, unless an earlier correction's reading landed in the middle of the turn.
PromptStaysVisible ==
  (C.loop = "open" /\ ~C.wiped /\ ~C.resumed) => C.turn \in C.local

\* A text vanishes without a word only in the moment after a failed turn, before
\* its reading back has ended.
RefusedOnlyAfterFailure == C.refused \subseteq {<<"error", "reading">>}

\* A stop that was asked for comes to an end.
Stopping == C.cancelling
=============================================================================
