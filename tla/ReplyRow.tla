------------------------------- MODULE ReplyRow -------------------------------
(***************************************************************************)
(* The bubble of a reply, twice: assembled live from the gateway's frames  *)
(* (gateway-turn-events, chat-state's applyEvent) and grouped from the     *)
(* stored rows once the turn is over (timelineToWaveChatMessages).  Here   *)
(* are the parts that Transcript leaves out: several tools, by name, the   *)
(* reasoning trace, the plan, and the hand-over to the stored rows.  A     *)
(* part of either bubble is a text, or a task and how it ended.            *)
(***************************************************************************)
EXTENDS Naturals, SequencesExt, FiniteSetsExt

CONSTANTS MaxCalls, MaxSegments, MaxTurns

VARIABLE reply

R == reply
\* One name begins another one.
Tools == {"read", "read_file"}
Begins(name, other) == name = other \/ (name = "read" /\ other = "read_file")
NoTool == "Hermes tool"

Text(n, isSealed) == [type |-> "text", n |-> n, sealed |-> isSealed, name |-> NoTool, status |-> "complete"]
Task(name, status) == [type |-> "task", n |-> 0, sealed |-> FALSE, name |-> name, status |-> status]
UserRow == [type |-> "user", n |-> 0, sealed |-> FALSE, name |-> NoTool, status |-> "complete"]

NoLive == [parts |-> <<>>, trace |-> FALSE, shimmers |-> FALSE, plan |-> 0, status |-> "idle"]

\* calls: the gateway's tool calls that run; mixed: two ran at once whose names
\* begin alike.
Init ==
  reply = [stored |-> <<>>, live |-> NoLive, active |-> NoTool,
           turn |-> "idle", turns |-> 0, calls |-> {}, started |-> 0,
           segments |-> 0, open |-> FALSE, revision |-> 0, mixed |-> FALSE]

Running == R.turn = "running"

----------------------------------------------------------------------------
(* The live bubble.                                                        *)
Appended(parts, n) ==
  IF parts # <<>> /\ Last(parts).type = "text" /\ ~Last(parts).sealed THEN parts
  ELSE Append(parts, Text(n, FALSE))

OpenAt(parts) == {i \in DOMAIN parts : parts[i].type = "text" /\ ~parts[i].sealed}

SealedText(parts, n) ==
  IF OpenAt(parts) = {} THEN Append(parts, Text(n, TRUE))
  ELSE [parts EXCEPT ![Max(OpenAt(parts))] = Text(n, TRUE)]

ReplacedText(parts, n) ==
  IF OpenAt(parts) # {} THEN [parts EXCEPT ![Max(OpenAt(parts))] = Text(n, FALSE)]
  ELSE Append(parts, Text(n, FALSE))

TaskStatus(event) == IF event \in {"started", "progress"} THEN "running" ELSE event

\* The last task with that name takes every event, but a new start never
\* reopens one that has ended.
TaskUpdated_FirstMatch(parts, name, event) ==
  LET Same == {i \in DOMAIN parts : parts[i].type = "task" /\ Begins(name, parts[i].name)}
  IN IF Same = {} \/ (event = "started" /\ parts[Min(Same)].status # "running")
     THEN Append(parts, Task(name, TaskStatus(event)))
     ELSE [parts EXCEPT ![Min(Same)].status = TaskStatus(event)]

TaskUpdated(parts, name, event) ==
  LET Same == {i \in DOMAIN parts : parts[i].type = "task" /\ Begins(name, parts[i].name)}
  IN IF Same = {} \/ (event = "started" /\ parts[Max(Same)].status # "running")
     THEN Append(parts, Task(name, TaskStatus(event)))
     ELSE [parts EXCEPT ![Max(Same)].status = TaskStatus(event)]

\* An older snapshot of the plan is a late frame.
Planned(live, revision) ==
  IF live.plan # 0 /\ revision < live.plan THEN live ELSE [live EXCEPT !.plan = revision]

----------------------------------------------------------------------------
(* The gateway's turn and its frames.                                      *)
Send ==
  /\ R.turn = "idle" /\ R.turns < MaxTurns
  /\ reply' = [R EXCEPT !.turn = "running", !.turns = @ + 1, !.stored = Append(@, UserRow),
                        !.live = [NoLive EXCEPT !.status = "streaming"], !.active = NoTool,
                        !.calls = {}, !.open = FALSE, !.revision = 0,
                        !.mixed = FALSE]

\* Text streams into the segment that is open, or opens the next one.
Stream ==
  /\ Running /\ R.calls = {} /\ (R.open \/ R.segments < MaxSegments)
  /\ LET n == IF R.open THEN R.segments ELSE R.segments + 1
     IN reply' = [R EXCEPT !.segments = n, !.open = TRUE,
                           !.live.parts = Appended(@, n)]

\* The segment ends before the tools of its message run.
Interim ==
  /\ Running /\ R.open
  /\ reply' = [R EXCEPT !.open = FALSE, !.stored = Append(@, Text(R.segments, FALSE)),
                        !.live.parts = SealedText(@, R.segments)]

Reason ==
  /\ Running
  /\ reply' = [R EXCEPT !.live.trace = TRUE, !.live.shimmers = TRUE]

\* A tool starts; others may still run.
StartTool(name) ==
  /\ Running /\ ~R.open /\ R.started < MaxCalls /\ name \notin R.calls
  /\ reply' = [R EXCEPT !.started = @ + 1, !.calls = @ \cup {name}, !.active = name,
                        !.mixed = @ \/ \E other \in R.calls : Begins(name, other) \/ Begins(other, name),
                        !.live.parts = TaskUpdated(@, name, "started")]

\* Progress and completion name their tool, or mean the one that started last.
ToolNamed(name, named) == IF named THEN name ELSE R.active

ProgressTool(name, named) ==
  /\ Running /\ name \in R.calls /\ (named \/ R.active = name)
  /\ reply' = [R EXCEPT !.live.parts = TaskUpdated(@, ToolNamed(name, named), "progress")]

CompleteTool(name, named, status) ==
  /\ Running /\ name \in R.calls /\ (named \/ R.active = name)
  /\ reply' = [R EXCEPT !.calls = @ \ {name}, !.active = NoTool,
                        !.stored = Append(@, Task(name, status)),
                        !.live.parts = TaskUpdated(@, ToolNamed(name, named), status)]

\* A plan is snapshotted, and an older snapshot may be seen again.
PlanChanges ==
  /\ Running /\ R.revision < 2
  /\ reply' = [R EXCEPT !.revision = @ + 1, !.live = Planned(@, R.revision + 1)]
PlanReplayed ==
  /\ Running /\ R.revision = 2
  /\ reply' = [R EXCEPT !.live = Planned(@, 1)]

\* The turn ends with its last segment, and every trace stops shimmering.
Completed(live, parts) ==
  [live EXCEPT !.parts = parts, !.shimmers = FALSE, !.plan = 0, !.status = "complete"]

Complete ==
  /\ Running /\ R.calls = {} /\ R.open
  /\ reply' = [R EXCEPT !.turn = "over", !.open = FALSE,
                        !.stored = Append(@, Text(R.segments, FALSE)),
                        !.live = Completed(@, ReplacedText(@.parts, R.segments))]

\* A failed turn ends where it is, after the text it has, if that was sent: only
\* then does a trace that streamed stop shimmering.
Failed(live, parts) == [live EXCEPT !.parts = parts, !.plan = 0, !.status = "error"]

Fail(partial) ==
  /\ Running /\ (partial => R.open)
  /\ reply' = [R EXCEPT !.turn = "over", !.calls = {}, !.open = FALSE,
       !.live = IF partial THEN [Failed(@, ReplacedText(@.parts, R.segments)) EXCEPT !.shimmers = FALSE]
                           ELSE Failed(@, @.parts)]

\* The stored rows replace the live bubble.
Reconcile ==
  /\ R.turn = "over"
  /\ reply' = [R EXCEPT !.turn = "idle", !.live = NoLive]

Next ==
  \/ Send \/ Stream \/ Interim \/ Reason \/ PlanChanges \/ PlanReplayed
  \/ \E name \in Tools :
       \/ StartTool(name)
       \/ \E named \in BOOLEAN :
            \/ ProgressTool(name, named)
            \/ \E status \in {"complete", "error"} : CompleteTool(name, named, status)
  \/ \E partial \in BOOLEAN : Fail(partial)
  \/ Complete \/ Reconcile

Spec == Init /\ [][Next]_reply

----------------------------------------------------------------------------
(* The stored bubbles: what follows a user row, up to the next one.        *)

\* A stored tool row is complete: whether it failed is not kept with it.
Part(row) == IF row.type = "task" THEN Task(row.name, "complete") ELSE Text(row.n, FALSE)

Grouped(rows) ==
  FoldLeft(LAMBDA bubbles, row :
             IF row.type = "user" THEN Append(bubbles, <<>>)
             ELSE [bubbles EXCEPT ![Len(bubbles)] = Append(@, Part(row))],
           <<>>, rows)

\* What of a part the user recognises it by.
Shape(parts) == [i \in DOMAIN parts |-> <<parts[i].type, parts[i].n, parts[i].name>>]

\* The bubble of a completed turn has the same parts in the same order before
\* and after the stored rows replace it, unless tools whose names begin alike
\* had run at the same time.
RowSurvivesReload ==
  R.live.status = "complete" /\ ~R.mixed =>
    Shape(R.live.parts) = Shape(Last(Grouped(R.stored)))

\* A task of the live bubble runs if and only if the gateway's tool does.
TasksTellTheTools ==
  Running /\ ~R.mixed =>
    R.calls = {R.live.parts[i].name : i \in {j \in DOMAIN R.live.parts :
                 R.live.parts[j].type = "task" /\ R.live.parts[j].status = "running"}}

\* A completed turn leaves no trace shimmering, and no plan.
CompletedIsQuiet == R.live.status = "complete" => ~R.live.shimmers /\ R.live.plan = 0

\* While the turn runs the plan on the screen is the newest.
PlanIsNewest == Running /\ R.live.plan # 0 => R.live.plan = R.revision
=============================================================================
