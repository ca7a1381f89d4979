----------------------------- MODULE ModelPicker ------------------------------
(***************************************************************************)
(* The model picker of a stored conversation (composer/model/picker,       *)
(* gateway-models, gateway-client's setSession* calls): the cached context *)
(* the pill and the sheet show, the reads that fill it, the two lanes of   *)
(* changes (model; thinking or speed), and the gateway's session.  "base"  *)
(* has a "-fast" sibling, "dear" asks for consent and has a speed of its   *)
(* own.                                                                    *)
(***************************************************************************)
EXTENDS Naturals

CONSTANTS MaxReads, MaxChanges

VARIABLE picker

P == picker
Models == {"base", "base-fast", "dear"}
Efforts == {"none", "high"}
None == "none"
Speeds == {"normal", "fast"}
Start == [model |-> "base", fast |-> "normal", effort |-> "high"]
Unknown == [Start EXCEPT !.model = None]
NoRequest == [key |-> "none", value |-> "none", consent |-> FALSE, keepOpen |-> FALSE, at |-> "idle"]

\* known: nothing has happened at the gateway that the cache was not told.
Init ==
  picker = [server |-> Start, deferred |-> None, turn |-> FALSE,
            cache |-> Unknown, known |-> FALSE,
            read |-> [at |-> "out", value |-> Start, stale |-> FALSE],
            refresh |-> [at |-> "idle", value |-> Start, stale |-> FALSE],
            reads |-> 0, changes |-> 0,
            model |-> NoRequest, control |-> NoRequest, toggling |-> FALSE,
            open |-> FALSE, confirm |-> None, timer |-> None, consented |-> {}]

HasCache == P.cache # Unknown

----------------------------------------------------------------------------
(* Reading the context.                                                    *)

\* A fetch under way is given up for the new one once there is data to show.
Refetched(p) ==
  IF p.read.at # "idle" /\ p.cache = Unknown THEN p
  ELSE [p EXCEPT !.read = [at |-> "out", value |-> Start, stale |-> FALSE]]

\* The gateway reads its session for either of the two.
Answered(lane) == [lane EXCEPT !.at = "back", !.value = P.server, !.stale = FALSE]
ReadAnswered == P.read.at = "out" /\ picker' = [P EXCEPT !.read = Answered(@)]
RefreshAnswered == P.refresh.at = "out" /\ picker' = [P EXCEPT !.refresh = Answered(@)]

Idle(lane) == [lane EXCEPT !.at = "idle"]

ReadApplied ==
  /\ P.read.at = "back"
  /\ picker' = [P EXCEPT !.read = Idle(@), !.cache = P.read.value, !.known = ~P.read.stale]

RefreshApplied ==
  /\ P.refresh.at = "back"
  /\ picker' = [P EXCEPT !.refresh = Idle(@), !.cache = P.refresh.value, !.known = ~P.refresh.stale]

ReadFails == P.read.at # "idle" /\ picker' = [P EXCEPT !.read = Idle(@)]
RefreshFails == P.refresh.at # "idle" /\ picker' = [P EXCEPT !.refresh = Idle(@)]

----------------------------------------------------------------------------
(* The sheet and the alert.                                                *)

\* A native alert and a native sheet cannot present at the same instant.
OpenPicker ==
  /\ ~P.open /\ P.reads < MaxReads
  /\ picker' = Refetched([P EXCEPT !.open = TRUE, !.confirm = None, !.timer = None, !.reads = @ + 1])

ClosePicker == P.open /\ picker' = [P EXCEPT !.open = FALSE]

RefreshModels ==
  /\ P.open /\ P.refresh.at = "idle" /\ P.reads < MaxReads
  /\ picker' = [P EXCEPT !.refresh = [at |-> "out", value |-> Start, stale |-> FALSE],
                         !.reads = @ + 1]

TimerFires ==
  /\ P.timer # None
  /\ picker' = IF P.timer = "reopen" THEN [P EXCEPT !.timer = None, !.open = TRUE]
               ELSE [P EXCEPT !.timer = None, !.confirm = P.timer]

CloseConfirmation == P.confirm # None /\ picker' = [P EXCEPT !.confirm = None]

----------------------------------------------------------------------------
(* Changing it.                                                            *)
Request(key, value) == [NoRequest EXCEPT !.key = key, !.value = value, !.at = "out"]

\* One model change at a time; another one is ignored.
Selected(p, m, consent, keepOpen) ==
  IF p.model.at # "idle" \/ p.changes = MaxChanges THEN p
  ELSE [p EXCEPT !.model = [Request("model", m) EXCEPT !.consent = consent, !.keepOpen = keepOpen],
                 !.changes = @ + 1]

Select(m) == P.open /\ HasCache /\ picker' = Selected(P, m, FALSE, FALSE)

\* The user agrees, and the pick goes out once more.
ConfirmSelection ==
  /\ P.confirm # None
  /\ picker' = Selected([P EXCEPT !.confirm = None, !.consented = @ \cup {P.confirm}],
                        P.confirm, TRUE, FALSE)

CanControl == P.open /\ HasCache /\ P.control.at = "idle" /\ ~P.toggling /\ P.changes < MaxChanges

SetReasoning(effort) ==
  /\ CanControl
  /\ picker' = [P EXCEPT !.control = Request("effort", effort), !.changes = @ + 1]

\* How the current model is made fast: a parameter, a sibling, or not at all.
FastControl(context) ==
  CASE context.model = "dear" -> "parameter"
    [] OTHER -> "variant"

\* A sibling is another model: the change takes the model's lane, and both are
\* free again when it is over.
SetFastMode(speed) ==
  /\ CanControl
  /\ picker' = IF FastControl(P.cache) = "parameter"
               THEN [P EXCEPT !.control = Request("fast", speed), !.changes = @ + 1]
               ELSE LET m == IF speed = "fast" THEN "base-fast" ELSE "base"
                        p == Selected(P, m, FALSE, TRUE)
                    IN IF p = P THEN P ELSE [p EXCEPT !.toggling = TRUE]

\* An answer on its way no longer tells what the session is.
Overtaken(p) ==
  [p EXCEPT !.read.stale = p.read.at = "back" \/ @,
            !.refresh.stale = p.refresh.at = "back" \/ @]

\* The gateway asks for consent, defers the pick of a running turn, or applies it.
GatewaySwitches ==
  /\ P.model.at = "out"
  /\ LET m == P.model.value
     IN picker' = IF m = "dear" /\ ~P.model.consent THEN [P EXCEPT !.model.at = "confirm"]
                  ELSE IF P.turn THEN [P EXCEPT !.model.at = "deferred", !.deferred = m]
                  ELSE Overtaken([P EXCEPT !.model.at = "applied", !.server.model = m,
                                           !.deferred = None])

GatewaySets ==
  /\ P.control.at = "out"
  /\ LET r == P.control
     IN picker' = Overtaken([P EXCEPT !.control.at = "applied",
                                      !.server = IF r.key = "fast" THEN [@ EXCEPT !.fast = r.value]
                                                 ELSE [@ EXCEPT !.effort = r.value]])

TurnMoves ==
  picker' = IF P.turn \/ P.deferred = None THEN [P EXCEPT !.turn = ~@]
            ELSE Overtaken([P EXCEPT !.turn = TRUE, !.server.model = P.deferred,
                                     !.known = @ /\ P.cache.model = P.deferred,
                                     !.deferred = None])

ModelFree(p) == [p EXCEPT !.model = NoRequest, !.toggling = FALSE]

\* The sheet closes first; the alert follows when it has gone.
ConsentAsked ==
  /\ P.model.at = "confirm"
  /\ picker' = ModelFree([P EXCEPT !.open = FALSE, !.timer = P.model.value])

Switched ==
  /\ P.model.at \in {"applied", "deferred"}
  /\ picker' = ModelFree([P EXCEPT !.cache = IF HasCache THEN [@ EXCEPT !.model = P.model.value] ELSE @,
                                   !.open = @ /\ P.model.keepOpen])

\* The call fails, whether or not the gateway has taken it; a failed consent
\* brings the sheet back for its error.
SwitchFails ==
  /\ P.model.at # "idle"
  /\ picker' = ModelFree([P EXCEPT !.known = @ /\ P.model.at = "out",
                                   !.timer = IF P.model.consent THEN "reopen" ELSE @])

ControlSet ==
  /\ P.control.at = "applied"
  /\ picker' = [P EXCEPT !.control = NoRequest,
                         !.cache = IF P.control.key = "fast"
                                   THEN [@ EXCEPT !.fast = P.control.value]
                                   ELSE [@ EXCEPT !.effort = P.control.value]]

ControlFails ==
  /\ P.control.at # "idle"
  /\ picker' = [P EXCEPT !.control = NoRequest, !.known = @ /\ P.control.at = "out"]

Next ==
  \/ ReadAnswered \/ RefreshAnswered \/ ReadApplied \/ RefreshApplied \/ ReadFails \/ RefreshFails
  \/ OpenPicker \/ ClosePicker \/ RefreshModels \/ TimerFires
  \/ CloseConfirmation \/ ConfirmSelection
  \/ \E m \in Models : Select(m)
  \/ \E effort \in Efforts : SetReasoning(effort)
  \/ \E speed \in Speeds : SetFastMode(speed)
  \/ GatewaySwitches \/ GatewaySets \/ TurnMoves
  \/ ConsentAsked \/ Switched \/ SwitchFails \/ ControlSet \/ ControlFails

Spec == Init /\ [][Next]_picker

----------------------------------------------------------------------------
\* The expensive model runs, or waits to run, only after the user agreed to it.
DearWithConsent == "dear" \in {P.server.model, P.deferred} => "dear" \in P.consented

\* The native sheet and the native alert are never up together, whatever the
\* timers, the answers and the user's taps do.
OneSurface == ~(P.open /\ P.confirm # None)

\* With no change under way, what the pill shows is what the gateway has or has
\* deferred, unless an older read was applied over a change, or a change that
\* failed had been taken.
PillTellsTheGateway ==
  P.known /\ P.model.at = "idle" /\ P.control.at = "idle" =>
    /\ P.cache.fast = P.server.fast /\ P.cache.effort = P.server.effort
    /\ P.cache.model \in {P.server.model, P.deferred}
=============================================================================
