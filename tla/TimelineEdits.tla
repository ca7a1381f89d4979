----------------------------- MODULE TimelineEdits -----------------------------
(***************************************************************************)
(* What the chat reads into the rows it has loaded: the corrections it     *)
(* weaves between them (session-correction-journal) and the row that a     *)
(* regenerate or a branch aims at (turn-action-targets, chat-screen),      *)
(* while the gateway appends rows, rewrites them under new durable ids and *)
(* holds more of them than the page that is loaded.  A row keeps its `id`  *)
(* for good, which is also its time; `rid` is the durable id the gateway   *)
(* gave it last, or Absent.                                                *)
(***************************************************************************)
EXTENDS Naturals, FiniteSets, SequencesExt

CONSTANTS Contents, MaxRows, PageSize, MaxCorrections, MaxRewrites

VARIABLE edits

E == edits
Absent == 0

Init ==
  \E durable \in BOOLEAN :
    edits = [durable |-> durable, stored |-> <<>>, ids |-> 0, rids |-> 0, pages |-> <<>>,
             journal |-> <<>>, behind |-> FALSE, stale |-> FALSE, rewrites |-> 0]

Users(rows) == {i \in 1..Len(rows) : rows[i].role = "user"}
OfHermes(rows) == {i \in 1..Len(rows) : ~rows[i].wave}

----------------------------------------------------------------------------
(* The correction journal.                                                 *)

\* The rows with the content of the anchor: the last one that is not younger than
\* the correction, else the first.
AnchorIndex(rows, c) ==
  LET Matches == {i \in Users(rows) : rows[i].text = c.anchor}
      Earlier == {i \in Matches : rows[i].id <= c.id}
  IN CASE Matches = {} -> Absent
       [] Earlier # {} -> Max(Earlier)
       [] OTHER -> Min(Matches)

\* The next user row of the gateway's own already is the correction.
HasCanonical(rows, anchor, text) ==
  LET Later == {i \in Users(rows) \cap OfHermes(rows) : i > anchor}
  IN Later # {} /\ rows[Min(Later)].text = text

\* The place behind the corrections that already follow the anchor.
Behind(rows, anchor) ==
  Min({i \in (anchor + 1)..(Len(rows) + 1) : i = Len(rows) + 1 \/ ~rows[i].wave})

Weave(rows, c) ==
  LET anchor == AnchorIndex(rows, c)
  IN IF anchor = Absent \/ HasCanonical(rows, anchor, c.text) THEN rows
     ELSE InsertAt(rows, Behind(rows, anchor),
            [id |-> c.id, rid |-> Absent, role |-> "user", text |-> c.text, wave |-> TRUE])

\* mergeWaveCorrectionsIntoTimelineEntries(): rows woven earlier are taken out first.
Merged(rows, journal) ==
  LET Ids == {journal[j].id : j \in 1..Len(journal)}
  IN FoldLeft(Weave, SelectSeq(rows, LAMBDA row : ~(row.wave /\ row.id \in Ids)), journal)

\* The pages in display order, woven once more as a whole.
View == Merged(FlattenSeq(E.pages), E.journal)

----------------------------------------------------------------------------
(* The gateway, and what is loaded of it.                                  *)
Stored(d, role, text) ==
  [d EXCEPT !.stored = Append(@, [id |-> d.ids + 1, wave |-> FALSE, role |-> role, text |-> text,
                                  rid |-> IF d.durable THEN d.rids + 1 ELSE Absent]),
            !.ids = @ + 1, !.rids = @ + 1, !.behind = TRUE]

Room(n) == Len(E.stored) + n <= MaxRows

\* A turn of this client or of another one.
TurnStored(text) ==
  Room(2) /\ edits' = Stored(Stored(E, "user", text), "assistant", text)

\* n pages are read, each with the journal woven in.
Fetch(n) ==
  LET rows == E.stored
      from == IF Len(rows) > PageSize THEN Len(rows) - PageSize ELSE 0
      newest == SubSeq(rows, from + 1, Len(rows))
      older == SubSeq(rows, 1, from)
      Woven(page) == Merged(page, E.journal)
  IN /\ n = 2 => from > 0
     /\ edits' = [E EXCEPT !.pages = IF n = 2 THEN <<Woven(older), Woven(newest)>>
                                     ELSE <<Woven(newest)>>,
                           !.behind = FALSE, !.stale = FALSE]

\* The running turn takes a correction: the gateway may store it as a row of its
\* own, and the journal and every loaded page take it in.  `of` is the prompt that
\* was corrected, `own` the row the gateway made of the correction (history).
Correct(text, kept) ==
  /\ Len(E.journal) < MaxCorrections /\ E.stored # <<>> /\ (kept => Room(2))
  /\ LET prompt == E.stored[Max(Users(E.stored))]
         chained == E.journal # <<>> /\ Last(E.journal).id > prompt.id
         c == [id |-> E.ids + 1, text |-> text,
               anchor |-> IF chained THEN Last(E.journal).text ELSE prompt.text,
               of |-> prompt.id, own |-> IF kept THEN E.ids + 2 ELSE Absent]
         d == [E EXCEPT !.ids = @ + 1, !.journal = Append(@, c),
                        !.pages = [p \in DOMAIN @ |-> Merged(@[p], <<c>>)]]
     IN edits' = IF kept THEN Stored(Stored(d, "user", text), "assistant", text) ELSE d

----------------------------------------------------------------------------
(* Regenerate.                                                             *)

\* regenerateTarget(): the last user row of the gateway's up to the one tapped.
Targets(rows, i) == {k \in Users(rows) \cap OfHermes(rows) : k <= i}

Ordinal(rows, k) == Cardinality({j \in Users(rows) \cap OfHermes(rows) : j <= k})

\* The gateway looks the durable id up, or counts its user rows.
Resolved(rows, k) ==
  LET Found == IF rows[k].rid # Absent THEN {i \in Users(E.stored) : E.stored[i].rid = rows[k].rid}
               ELSE {i \in Users(E.stored) : Ordinal(E.stored, i) = Ordinal(rows, k)}
  IN IF Found = {} THEN Absent ELSE Max(Found)

\* The rows before the target survive under new durable ids.
Rewritten(before, rids) ==
  [i \in DOMAIN before |->
     [before[i] EXCEPT !.rid = IF E.durable THEN rids + i ELSE Absent]]

\* rebindTimelineSurvivors(): by the map from old ids to new ones.
ReboundByMap(rows, before, after) ==
  [k \in DOMAIN rows |->
     LET Same == {i \in DOMAIN before : before[i].rid = rows[k].rid}
     IN IF rows[k].rid = Absent \/ Same = {} THEN rows[k]
        ELSE [rows[k] EXCEPT !.rid = after[Max(Same)].rid]]

\* rebindTimelineSurvivorRowIds(): the loaded user rows are the last survivors.
ReboundByOrder(rows, after) ==
  LET survivors == SelectSeq(after, LAMBDA row : row.role = "user")
      Loaded == Users(rows) \cap OfHermes(rows)
      start == IF Len(survivors) > Cardinality(Loaded)
               THEN Len(survivors) - Cardinality(Loaded) ELSE 0
  IN [k \in DOMAIN rows |->
        IF k \notin Loaded THEN rows[k]
        ELSE LET n == start + Ordinal(rows, k)
             IN [rows[k] EXCEPT !.rid = IF n <= Len(survivors) THEN survivors[n].rid ELSE Absent]]

\* regenerateTurn(): the target and what follows leave the cache, the gateway does
\* the same with its rows, and the rows that are left are bound to their new ids.
Regenerate(i, byMap) ==
  /\ E.rewrites < MaxRewrites /\ i \in 1..Len(View) /\ View[i].role = "assistant"
  /\ Targets(View, i) # {}
  /\ LET k == Max(Targets(View, i))
         at == Resolved(View, k)
         pruned == SubSeq(View, 1, k - 1)
         before == SubSeq(E.stored, 1, at - 1)
         after == Rewritten(before, E.rids)
         bound == IF byMap THEN ReboundByMap(pruned, before, after)
                  ELSE ReboundByOrder(pruned, after)
     IN IF at = Absent THEN edits' = [E EXCEPT !.pages = <<pruned>>, !.behind = TRUE]
        ELSE edits' = [Stored([E EXCEPT !.stored = after, !.rids = @ + Len(after)],
                              "user", View[k].text) EXCEPT
                         !.pages = <<IF E.durable THEN bound ELSE pruned>>,
                         !.rewrites = @ + 1]

\* Another client rewrites the conversation: the durable ids change unseen.
RewrittenElsewhere ==
  /\ E.rewrites < MaxRewrites /\ E.durable /\ E.stored # <<>>
  /\ edits' = [E EXCEPT !.stored = Rewritten(@, E.rids), !.rids = @ + Len(E.stored),
                        !.rewrites = @ + 1, !.stale = TRUE]

\* branchCount(): the gateway's first rows up to the one tapped, or all of them
\* when it is the last.
BranchedAt(i) ==
  IF \A k \in OfHermes(View) : k <= i THEN Len(E.stored)
  ELSE Cardinality({k \in OfHermes(View) : k <= i})

Next ==
  \/ \E text \in Contents : TurnStored(text) \/ \E kept \in BOOLEAN : Correct(text, kept)
  \/ \E n \in 1..2 : Fetch(n)
  \/ RewrittenElsewhere
  \/ \E i \in 1..(MaxRows + MaxCorrections) :
       \E byMap \in BOOLEAN : Regenerate(i, byMap)

Spec == Init /\ [][Next]_edits
----------------------------------------------------------------------------
\* Every row from the beginning is loaded, and nothing was stored since.
AllLoaded ==
  ~E.behind /\ SelectSeq(View, LAMBDA row : ~row.wave) = E.stored

At(id) == {i \in DOMAIN View : View[i].id = id}

\* Texts are all the code can tell rows apart by: no correction repeats the words
\* of another one, or of a row the gateway has stored, its own one excepted.
TextsTell ==
  \A j \in DOMAIN E.journal :
    LET c == E.journal[j]
    IN /\ \A i \in DOMAIN E.journal \ {j} : E.journal[i].text # c.text
       /\ \A k \in Users(E.stored) : E.stored[k].id # c.own => E.stored[k].text # c.text

\* A correction never stands beside the row the gateway has made of it, nor twice
\* where two pages meet; it stands behind the prompt it corrected, with only
\* corrections between the two; and one the gateway made no row of is on the screen
\* with its prompt.  Pages, journal and rewrites may be of different moments.
CorrectionShownOnce ==
  TextsTell =>
    \A j \in DOMAIN E.journal :
      LET c == E.journal[j]
      IN At(c.of) # {} =>
           /\ Cardinality(At(c.id)) <= 1 /\ (At(c.own) = {} \/ At(c.id) = {})
           /\ \A i \in At(c.id), p \in At(c.of) : p < i /\ \A k \in p+1..i : View[k].wave
           /\ c.own = Absent => At(c.id) # {}

\* Once tapped, a replay would go to the row that is shown, whatever another client
\* has rewritten or stored meanwhile: a gateway that knows durable ids never takes
\* another row for it, one that counts rows does not while all of them are loaded.
ReplayHitsItsRow ==
  \A i \in {j \in DOMAIN View : View[j].role = "assistant" /\ Targets(View, j) # {}} :
    LET k == Max(Targets(View, i))
        at == Resolved(View, k)
    IN (at # Absent /\ (View[k].rid # Absent \/ AllLoaded)) => E.stored[at].id = View[k].id

\* A branch ends with the row that was tapped, while all rows are loaded.
BranchEndsAtItsRow ==
  AllLoaded => \A i \in OfHermes(View) : E.stored[BranchedAt(i)].id = View[i].id

\* The durable ids of the loaded user rows are the ones the gateway has now, also
\* after it gave out new ones: unless another client made it do so.
RowIdsAreCurrent ==
  (E.durable /\ ~E.stale) =>
    \A i \in Users(View) \cap OfHermes(View) : \A k \in DOMAIN E.stored :
      (View[i].id = E.stored[k].id /\ View[i].rid # Absent) => View[i].rid = E.stored[k].rid
=============================================================================
