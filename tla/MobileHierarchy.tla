--------------------------- MODULE MobileHierarchy ---------------------------
(***************************************************************************)
(* The hierarchy snapshots of the mobile agent (tools/mobile-agent) and    *)
(* the actions it takes on them: an action names a node of the latest      *)
(* snapshot of a session, the driver acts on whatever is on the screen by  *)
(* then, and every action, failed or not, makes the snapshots of its       *)
(* session stale.  A screen has a number for each action taken on it; a    *)
(* refused call changes nothing, and is not a step.                        *)
(***************************************************************************)
EXTENDS Naturals, SequencesExt, FiniteSetsExt

CONSTANTS MaxCalls, MaxSnapshots, MaxTraces

VARIABLE mobile

M == mobile
Sessions == {1, 2}
Slots == {1, 2}

\* The kinds of node a screen has: found by a locator of its own, by its bounds
\* only, by neither, or hidden or disabled.
Nodes == {"located", "bounded", "blank", "inactive"}

Idle == [phase |-> "idle", session |-> 1, snap |-> 0, aim |-> 0, traced |-> FALSE,
         trace |-> 0, page |-> 0, hit |-> 0]

\* screen: how many actions changed it; snaps: the snapshots retained, oldest
\* first; traces: the trace directories, last modified last.
Init ==
  mobile = [screen |-> [s \in Sessions |-> 1], snaps |-> <<>>, latest |-> [s \in Sessions |-> 0],
            named |-> 0, calls |-> [c \in Slots |-> Idle], made |-> 0, overlapped |-> FALSE,
            traces |-> <<>>]

Snapshot(id) == CHOOSE x \in ToSet(M.snaps) : x.id = id
isLatest(id, s) == M.latest[s] = id

----------------------------------------------------------------------------
(* The store.                                                              *)
Evicted(m) ==
  IF Len(m.snaps) <= MaxSnapshots THEN m
  ELSE LET oldest == Head(m.snaps)
       IN [m EXCEPT !.snaps = Tail(@),
                    !.latest[oldest.session] = IF @ = oldest.id THEN 0 ELSE @]

\* capture: the page becomes the latest snapshot of its session.
capture(m, s, page) ==
  Evicted([m EXCEPT !.named = @ + 1,
                    !.snaps = Append(@, [id |-> m.named + 1, session |-> s, screen |-> page]),
                    !.latest[s] = m.named + 1])

invalidate(m, s) == [m EXCEPT !.latest[s] = 0]

----------------------------------------------------------------------------
(* The tools.                                                              *)
Begin(c, call) ==
  /\ M.calls[c].phase = "idle" /\ M.made < MaxCalls
  /\ mobile' = [M EXCEPT !.calls[c] = call, !.made = @ + 1,
                         !.overlapped = @ \/ \E d \in Slots : M.calls[d].phase # "idle"]

get_element_tree(c, s) == Begin(c, [Idle EXCEPT !.phase = "tree", !.session = s])

\* Without a snapshot to look in, a query captures one.
find_elements(c, s) == get_element_tree(c, s)

\* The first await of an action: a trace needs a snapshot from before it.
Unified(call) ==
  [call EXCEPT !.phase = IF ~call.traced THEN "operate"
                         ELSE IF call.snap = 0 THEN "before" ELSE "begin"]

\* resolveActionSnapshot, once the node was found fit for the action.
OnNode(c, id, traced, first) ==
  /\ M.made < MaxCalls /\ isLatest(id, Snapshot(id).session)
  /\ LET call == [Idle EXCEPT !.session = Snapshot(id).session, !.snap = id, !.traced = traced,
                              !.aim = Snapshot(id).screen]
     IN Begin(c, IF first = "points" THEN [call EXCEPT !.phase = "points"] ELSE Unified(call))

requireActionableNode(node) == node # "inactive"
requireUniqueLocator(node) == node = "located"
\* Bounds serve only if the caller allows them.
requireNodeActionMethod(node, fallback) == node = "located" \/ (fallback /\ node = "bounded")

tap(c, id, node, fallback, traced) ==
  /\ requireActionableNode(node) /\ requireNodeActionMethod(node, fallback)
  /\ OnNode(c, id, traced, "operation")

\* The point of a located node is asked of the driver first.
long_press(c, id, node, fallback, traced) ==
  /\ requireActionableNode(node) /\ requireNodeActionMethod(node, fallback)
  /\ OnNode(c, id, traced, IF node = "located" THEN "points" ELSE "operation")

drag(c, id, source, target, fallback, traced) ==
  /\ \A node \in {source, target} :
       requireActionableNode(node) /\ requireNodeActionMethod(node, fallback)
  /\ OnNode(c, id, traced, IF "located" \in {source, target} THEN "points" ELSE "operation")

type_text(c, id, node, traced) ==
  /\ requireActionableNode(node) /\ requireUniqueLocator(node)
  /\ OnNode(c, id, traced, "operation")
clear_text(c, id, node, traced) == type_text(c, id, node, traced)

\* Actions on the screen rather than a node; a swipe asks for the window first.
swipe(c, s, traced) ==
  Begin(c, [Idle EXCEPT !.phase = "points", !.session = s, !.traced = traced])
scroll(c, s, traced) == swipe(c, s, traced)

press_key(c, s, traced) == Begin(c, Unified([Idle EXCEPT !.session = s, !.traced = traced]))
app_lifecycle(c, s, traced) == press_key(c, s, traced)
open_deep_link(c, s, traced) == press_key(c, s, traced)

----------------------------------------------------------------------------
(* What a call does between its awaits.                                    *)
In(c, phases) == M.calls[c].phase \in phases
S(c) == M.calls[c].session

\* resolveNodePoint, the window: found and in bounds, or the call ends.
PointsResolved(c) ==
  /\ In(c, {"points"})
  /\ \/ mobile' = [M EXCEPT !.calls[c] = Unified(@)]
     \/ mobile' = [M EXCEPT !.calls[c] = Idle]

\* The driver reads the screen, and its page arrives later.
getPageSource(c) ==
  /\ In(c, {"tree", "before", "after"}) /\ M.calls[c].page = 0
  /\ mobile' = [M EXCEPT !.calls[c].page = M.screen[S(c)]]

\* What follows a capture that succeeded or failed.
AfterCapture(call, id, screen) ==
  CASE call.phase = "tree" -> Idle
    [] call.phase = "before" /\ id = 0 -> [call EXCEPT !.phase = "operate", !.page = 0]
    [] call.phase = "before" /\ id # 0 -> [call EXCEPT !.phase = "begin", !.page = 0, !.aim = screen]
    [] call.phase = "after" -> [call EXCEPT !.phase = "complete"]

captureHierarchy(c) ==
  /\ M.calls[c].page # 0 /\ In(c, {"tree", "before", "after"})
  /\ LET call == M.calls[c]
         kept == capture(M, S(c), call.page)
     IN mobile' = [kept EXCEPT !.calls[c] = AfterCapture(call, kept.named, call.page)]

CaptureFails(c) ==
  /\ In(c, {"tree", "before", "after"})
  /\ mobile' = [M EXCEPT !.calls[c] = AfterCapture([@ EXCEPT !.page = 0], 0, 0)]

\* The directory of the trace and its first files, or a warning.
beginActionTrace(c) ==
  /\ In(c, {"begin"})
  /\ \/ mobile' = [M EXCEPT !.calls[c] = [@ EXCEPT !.phase = "operate", !.trace = M.made],
                            !.traces = Append(@, M.made)]
     \/ mobile' = [M EXCEPT !.calls[c].phase = "operate"]

\* The driver acts on what is on the screen now.
operation(c) ==
  /\ In(c, {"operate"})
  /\ mobile' = [M EXCEPT !.calls[c] = [@ EXCEPT !.phase = "acted", !.hit = M.screen[S(c)]],
                         !.screen[S(c)] = @ + 1]

Invalidated_OnSuccess(m, c, ok) ==
  IF ok THEN invalidate(m, m.calls[c].session) ELSE m

\* The operation is over, well or not (a failed one may have acted): its
\* snapshots are stale.
Invalidated(m, c, ok) == invalidate(m, m.calls[c].session)

OperationEnds(c, ok) ==
  /\ In(c, {"acted"}) \/ (In(c, {"operate"}) /\ ~ok)
  /\ LET stale == Invalidated(M, c, ok)
     IN mobile' = [stale EXCEPT !.calls[c] = IF ok /\ @.trace # 0 THEN [@ EXCEPT !.phase = "after"]
                                             ELSE Idle]

\* The newest traces are kept.
pruneActionTraces(traces) ==
  IF Len(traces) > MaxTraces THEN SubSeq(traces, Len(traces) - MaxTraces + 1, Len(traces))
  ELSE traces

prune_artifacts == /\ Len(M.traces) > MaxTraces
                   /\ mobile' = [M EXCEPT !.traces = pruneActionTraces(@)]

\* A trace whose directory was pruned by another call cannot be completed.
completeActionTrace(c) ==
  /\ In(c, {"complete"})
  /\ LET written == Append(Remove(M.traces, M.calls[c].trace), M.calls[c].trace)
     IN mobile' = [M EXCEPT !.calls[c] = Idle,
                            !.traces = IF Contains(@, M.calls[c].trace)
                                       THEN pruneActionTraces(written) ELSE @]

CallNext(c) ==
  \/ \E s \in Sessions, traced \in BOOLEAN :
       \/ get_element_tree(c, s) \/ find_elements(c, s)
       \/ swipe(c, s, traced) \/ scroll(c, s, traced)
       \/ press_key(c, s, traced) \/ app_lifecycle(c, s, traced) \/ open_deep_link(c, s, traced)
  \/ \E x \in ToSet(M.snaps), traced \in BOOLEAN, node, other \in Nodes, fallback \in BOOLEAN :
       \/ tap(c, x.id, node, fallback, traced) \/ long_press(c, x.id, node, fallback, traced)
       \/ drag(c, x.id, node, other, fallback, traced)
       \/ type_text(c, x.id, node, traced) \/ clear_text(c, x.id, node, traced)
  \/ PointsResolved(c) \/ getPageSource(c) \/ captureHierarchy(c) \/ CaptureFails(c)
  \/ beginActionTrace(c) \/ operation(c) \/ completeActionTrace(c)
  \/ \E ok \in BOOLEAN : OperationEnds(c, ok)

Next == prune_artifacts \/ \E c \in Slots : CallNext(c)

Spec == Init /\ [][Next]_mobile

----------------------------------------------------------------------------
\* An agent that makes one call at a time acts on the screen its snapshot shows,
\* whatever failed before.
ActsOnWhatItSaw ==
  ~M.overlapped => \A c \in Slots : In(c, {"acted"}) /\ M.calls[c].snap # 0 =>
                                      M.calls[c].hit = M.calls[c].aim

\* The trace of its action shows the screen as it was before and as it was left.
TraceTellsTheAction ==
  ~M.overlapped => \A c \in Slots : In(c, {"complete"}) /\ M.calls[c].page # 0 =>
                                      M.calls[c].page = M.calls[c].aim + 1

\* However calls overlap, the latest snapshot of a session is retained, and its own.
LatestIsRetained ==
  \A s \in Sessions : M.latest[s] # 0 =>
    \E x \in ToSet(M.snaps) : x.id = M.latest[s] /\ x.session = s
=============================================================================
