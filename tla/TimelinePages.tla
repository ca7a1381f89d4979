----------------------------- MODULE TimelinePages -----------------------------
(***************************************************************************)
(* Loading a transcript newest first (gateway-client getSessionTimeline    *)
(* and its fetch* helpers): from a gateway that pages from the newest row, *)
(* or from one that only pages from the oldest, whose row count is asked   *)
(* for, drifts, or has to be found by probing single rows.  Rows are       *)
(* numbered from the oldest; the running turn appends rows between two     *)
(* requests.  The scan limit (500 rows) is Scan here, that of a page Limit,*)
(* that of a count Unbounded.                                              *)
(***************************************************************************)
EXTENDS Naturals, FiniteSets

CONSTANTS MaxRows, Limit, Scan, Unbounded

VARIABLE pages

P == pages
Orders == {"latest", "ignored", "rejected"}
Less(a, b) == IF a > b THEN a - b ELSE 0
AtMost(a, b) == IF a < b THEN a ELSE b

Init ==
  \E rows \in 0..MaxRows, order \in Orders :
    pages = [rows |-> rows, order |-> order, support |-> "unknown", at |-> "idle",
             rowsAtLoad |-> 0, held |-> {}, below |-> 0, cursor |-> "none",
             newest |-> 0, offset |-> 0, low |-> 0, high |-> 0, span |-> 0]

\* Rows of an oldest-first request.
Rows(limit, offset) == {i \in 1..P.rows : i > offset /\ i <= offset + limit}

TurnAppends == P.rows < MaxRows /\ pages' = [P EXCEPT !.rows = @ + 1]

----------------------------------------------------------------------------
\* getSessionTimeline() without a cursor.
Load ==
  /\ P.at = "idle"
  /\ pages' = [P EXCEPT !.rowsAtLoad = P.rows, !.held = {}, !.newest = 0,
                        !.at = IF P.support = "unsupported" THEN "count" ELSE "latest"]

\* getSessionTimeline() with the cursor of the last page.
LoadOlder ==
  /\ P.at = "idle" /\ P.cursor # "none"
  /\ pages' = [P EXCEPT !.at = IF P.cursor = "latest" THEN "latest" ELSE "older"]

Shown(p, rows, below, kind) ==
  [p EXCEPT !.at = "idle", !.held = @ \cup rows, !.below = below,
            !.cursor = kind]

\* fetchLatestTimelinePage(): one row more than a page is asked for; P.newest
\* rows, counted from the newest, are held already.
LatestArrives ==
  /\ P.at = "latest" /\ P.order = "latest"
  /\ LET top == Less(P.rows, P.newest)
         asked == {i \in 1..top : i > Less(top, Limit + 1)}
         more == Cardinality(asked) > Limit
         rows == IF more THEN {i \in asked : i > top - Limit} ELSE asked
     IN pages' = [Shown(P, rows, Less(top, Cardinality(rows)), IF more THEN "latest" ELSE "none")
                    EXCEPT !.support = "supported", !.newest = @ + Cardinality(rows)]

\* The order is not confirmed, or the parameter is rejected.
LatestUnsupported ==
  /\ P.at = "latest" /\ P.order # "latest"
  /\ pages' = [P EXCEPT !.support = "unsupported", !.at = "count"]

\* fetchMessageCount(): the count, one that has drifted, or none.
CountArrives ==
  /\ P.at = "count"
  /\ \/ \E count \in 0..(MaxRows + Limit) :
          pages' = [P EXCEPT !.offset = Less(count, Limit), !.at = "rows"]
     \/ pages' = [P EXCEPT !.at = "scan"]

\* fetchNewestWindow(): the count is at least low and at most high.
Search(p, low, high) ==
  IF low < high THEN [p EXCEPT !.low = low, !.high = high, !.at = "probe"]
  ELSE [p EXCEPT !.offset = Less(low, Limit), !.at = "window"]

\* The newest rows from the offset to the end; only the last page is kept.
Window(p) ==
  LET rows == Rows(Unbounded, p.offset)
      drop == Less(Cardinality(rows), Limit)
      lower == p.offset + drop
  IN Shown(p, {i \in rows : i > lower}, lower, IF lower > 0 THEN "offset" ELSE "none")

\* The count overshot: the offset bounds it from above.
RowsArrive ==
  /\ P.at = "rows"
  /\ pages' = IF Rows(Unbounded, P.offset) = {} /\ P.offset > 0
              THEN Search(P, 0, P.offset) ELSE Window(P)

WindowArrives == P.at = "window" /\ pages' = Window(P)

HasRowAt(probe) == Rows(1, probe) # {}

\* The first probe: a short history is fetched whole.
ScanArrives ==
  /\ P.at = "scan"
  /\ pages' = IF ~HasRowAt(Scan - 1) THEN [P EXCEPT !.at = "short", !.offset = 0]
              ELSE [P EXCEPT !.at = "double", !.low = Scan, !.span = 2 * Scan]

ShortArrives ==
  /\ P.at = "short"
  /\ LET rows == Rows(Scan, 0)
         lower == Less(Cardinality(rows), Limit)
     IN pages' = Shown(P, {i \in rows : i > lower}, lower, IF lower > 0 THEN "offset" ELSE "none")

DoubleArrives ==
  /\ P.at = "double"
  /\ pages' = IF P.span >= Unbounded THEN Search(P, P.low, Unbounded)
              ELSE IF HasRowAt(P.span - 1) THEN [P EXCEPT !.low = P.span, !.span = 2 * @]
              ELSE Search(P, P.low, P.span - 1)

ProbeArrives ==
  /\ P.at = "probe"
  /\ LET mid == (P.low + P.high) \div 2
     IN pages' = IF HasRowAt(mid) THEN Search(P, mid + 1, P.high) ELSE Search(P, P.low, mid)

OlderArrives ==
  /\ P.at = "older"
  /\ LET lower == Less(P.below, Limit)
     IN pages' = Shown(P, Rows(P.below - lower, lower), lower,
                       IF lower > 0 THEN "offset" ELSE "none")

\* A request fails: the page is not shown, what is held stays.
RequestFails ==
  /\ P.at # "idle" /\ P.at # "count"
  /\ pages' = [P EXCEPT !.at = "idle", !.cursor = IF P.held = {} THEN "none" ELSE @]

Arrives ==
  \/ LatestArrives \/ LatestUnsupported \/ CountArrives \/ RowsArrive \/ WindowArrives
  \/ ScanArrives \/ ShortArrives \/ DoubleArrives \/ ProbeArrives \/ OlderArrives

Next == TurnAppends \/ Load \/ LoadOlder \/ Arrives \/ RequestFails

Spec == Init /\ [][Next]_pages
----------------------------------------------------------------------------
\* What is held are the rows from the cursor on, without a gap, down to the
\* first one when there is no cursor, and it reaches the rows there were when
\* the load began, however the count had drifted.
NoGap ==
  P.at = "idle" /\ P.held # {} =>
    /\ \A i \in 1..P.rows : (i > P.below /\ i <= P.rowsAtLoad) => i \in P.held
    /\ \A i, j \in P.held : \A k \in i..j : k \in P.held
    /\ P.cursor = "none" => 1 \in P.held
=============================================================================
