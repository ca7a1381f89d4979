----------------------------- MODULE SessionLists -----------------------------
(***************************************************************************)
(* The cached conversation list and what the drawer, the search and the    *)
(* open conversation do to it (drawer/content.shared, session-page-cache,  *)
(* use-wave-sessions, session-search-screen.shared, chat-screen): fetched  *)
(* and re-fetched, marked optimistically and rolled back, while replies    *)
(* and other clients change the rows at the gateway.  A row is the set of  *)
(* its marks, or Gone.                                                     *)
(***************************************************************************)
EXTENDS Naturals, FiniteSets

CONSTANTS Sessions, Queries, MaxMutations, MaxChanges

VARIABLE lists

D == lists
Gone == {"gone"}
Mutations == 1..MaxMutations
NoRows == [s \in Sessions |-> Gone]
NoMutation == [kind |-> "none", at |-> "none", s |-> 0, on |-> FALSE,
               applied |-> FALSE, previous |-> NoRows]

Init ==
  \E part \in {"list", "search"} :
   lists = [part |-> part, rows |-> [s \in Sessions |-> {}], cache |-> [s \in Sessions |-> {}],
           fetch |-> "none", taken |-> NoRows,
           mutation |-> [m \in Mutations |-> NoMutation], next |-> 1,
           unknown |-> FALSE, changes |-> 0, route |-> 0, active |-> 0,
           text |-> 0, debounced |-> 0, found |-> {}]

----------------------------------------------------------------------------
(* The list query.                                                         *)

\* invalidateQueries(): a fetch starts anew, also from one that is under way.
Invalidate(d) == [d EXCEPT !.fetch = "out"]

\* A stale list is fetched when a screen mounts or the app comes to the front.
Refetch == D.fetch = "none" /\ lists' = Invalidate(D)

\* The gateway answers with its rows of that moment.
RowsTaken ==
  D.fetch = "out" /\ lists' = [D EXCEPT !.fetch = "taken", !.taken = D.rows, !.unknown = FALSE]

RowsApplied ==
  D.fetch = "taken" /\ lists' = [D EXCEPT !.fetch = "none", !.cache = D.taken]

\* The fetch fails: the cached rows stay on the screen.
FetchFails ==
  D.fetch # "none" /\ lists' = [D EXCEPT !.fetch = "none", !.unknown = TRUE]

\* A reply marks a row unread, another client pins or deletes one.
OthersChange(s) ==
  /\ D.changes < MaxChanges /\ D.rows[s] # Gone
  /\ \E row \in {D.rows[s] \cup {"unread"}, Gone} :
       lists' = [D EXCEPT !.rows[s] = row, !.changes = @ + 1, !.unknown = TRUE]

----------------------------------------------------------------------------
(* Mutations.                                                              *)
Begin(kind, at, s, on) ==
  [D EXCEPT !.next = @ + 1,
            !.mutation[D.next] = [NoMutation EXCEPT !.kind = kind, !.at = at, !.s = s, !.on = on]]

CanMutate(s) == D.next \in Mutations /\ D.cache[s] # Gone

\* One pin and one read mark may be out at a time: a mutation of each kind.
Toggle(kind, s) ==
  /\ CanMutate(s)
  /\ \A m \in Mutations : D.mutation[m].kind = kind => D.mutation[m].at = "over"
  /\ lists' = Begin(kind, "cancelling", s, kind \notin D.cache[s])

Mark(row, kind, on) ==
  IF row = Gone THEN row ELSE IF on THEN row \cup {kind} ELSE row \ {kind}

Project(d, s, kind, on) == [d EXCEPT !.cache[s] = Mark(@, kind, on)]

\* onMutate: the fetch under way is cancelled and the row projected at once.
OnMutate(m) ==
  /\ D.mutation[m].at = "cancelling"
  /\ LET mu == D.mutation[m]
     IN lists' = Project([D EXCEPT !.mutation[m].previous = D.cache, !.mutation[m].at = "sent",
                                   !.unknown = @ \/ D.fetch # "none",
                                   !.fetch = "none"], mu.s, mu.kind, mu.on)

\* The open conversation clears its unread mark: no fetch is cancelled, and
\* none is started afterwards.
ClearUnread(s) ==
  /\ CanMutate(s) /\ D.route = s /\ "unread" \in D.cache[s]
  /\ lists' = Project([Begin("clear", "sent", s, FALSE) EXCEPT !.unknown = TRUE],
                      s, "unread", FALSE)

RenameSession(s) == CanMutate(s) /\ lists' = Begin("rename", "sent", s, FALSE)

DeleteSession(s) ==
  /\ CanMutate(s)
  /\ \A m \in Mutations : D.mutation[m].kind = "delete" => D.mutation[m].at = "over"
  /\ lists' = Begin("delete", "sent", s, FALSE)

\* The gateway applies the request, in time or after the client gave up on it.
GatewayApplies(m) ==
  /\ D.mutation[m].at \in {"sent", "over"} /\ ~D.mutation[m].applied
  /\ LET mu == D.mutation[m]
     IN lists' = [D EXCEPT !.mutation[m].applied = TRUE,
                           !.unknown = @ \/ mu.at = "over" \/ mu.kind = "clear",
                           !.rows[mu.s] = CASE mu.kind = "delete" -> Gone
                                            [] mu.kind = "rename" -> @
                                            [] mu.kind = "clear" -> Mark(@, "unread", FALSE)
                                            [] OTHER -> Mark(@, mu.kind, mu.on)]

Over(d, m) == [d EXCEPT !.mutation[m].at = "over"]

\* onSettled: the list is read again, whatever the outcome was.
Settled(d, m) ==
  IF d.mutation[m].kind = "clear" THEN Over(d, m) ELSE Invalidate(Over(d, m))

MutationSucceeds(m) ==
  /\ D.mutation[m].at = "sent" /\ D.mutation[m].applied /\ D.mutation[m].kind # "delete"
  /\ lists' = Settled(D, m)

\* onError: the snapshot taken before the projection comes back as a whole; a
\* failed clearing marks its row again; a failed renaming or deletion, which
\* the gateway may have applied, changes nothing here.
MutationFails(m) ==
  /\ D.mutation[m].at = "sent"
  /\ LET mu == D.mutation[m]
     IN lists' = CASE mu.kind \in {"pin", "unread"} -> Settled([D EXCEPT !.cache = mu.previous], m)
                   [] mu.kind = "clear" -> Over(Project([D EXCEPT !.unknown = TRUE],
                                                          mu.s, "unread", TRUE), m)
                   [] OTHER -> Over([D EXCEPT !.unknown = TRUE], m)

\* onSuccess of a deletion: the record of the open conversation goes first.
DeletionAnswered(m) ==
  /\ D.mutation[m].at = "sent" /\ D.mutation[m].kind = "delete" /\ D.mutation[m].applied
  /\ lists' = [D EXCEPT !.mutation[m].at = "clearing",
                        !.active = IF @ = D.mutation[m].s THEN 0 ELSE @]

DeletionShown(m) ==
  /\ D.mutation[m].at = "clearing"
  /\ lists' = [Invalidate(Over(D, m)) EXCEPT !.route = IF @ = D.mutation[m].s THEN 0 ELSE @]

----------------------------------------------------------------------------
(* Navigation and search.                                                  *)
OpenSession(s) ==
  D.cache[s] # Gone /\ D.route # s /\ lists' = [D EXCEPT !.active = s, !.route = s]

\* The timeline of the open conversation answers not found: back to a new one.
NotFound ==
  /\ D.route # 0 /\ D.rows[D.route] = Gone
  /\ lists' = [Invalidate(D) EXCEPT !.route = 0, !.active = IF @ = D.route THEN 0 ELSE @]

Type(q) == D.text # q /\ lists' = [D EXCEPT !.text = q]

Debounced == D.debounced # D.text /\ lists' = [D EXCEPT !.debounced = D.text]

\* The content search of a query answers; results stay cached by query.
SearchAnswers(q) == q = D.debounced /\ lists' = [D EXCEPT !.found = @ \cup {q}]

\* mergeSessionSearchResults: content hits only of the query on the screen.
ShownHits == IF D.debounced = D.text THEN D.found \cap {D.debounced} ELSE {}

ListNext ==
  \/ Refetch \/ RowsTaken \/ RowsApplied \/ FetchFails \/ NotFound
  \/ \E s \in Sessions :
       \/ OthersChange(s) \/ Toggle("pin", s) \/ Toggle("unread", s) \/ ClearUnread(s)
       \/ RenameSession(s) \/ DeleteSession(s) \/ OpenSession(s)
  \/ \E m \in Mutations :
       \/ OnMutate(m) \/ GatewayApplies(m) \/ MutationSucceeds(m) \/ MutationFails(m)
       \/ DeletionAnswered(m) \/ DeletionShown(m)

SearchNext == Debounced \/ \E q \in Queries : Type(q) \/ SearchAnswers(q)

\* The list and the search of message contents share no state.
Next ==
  \/ D.part = "list" /\ ListNext
  \/ D.part = "search" /\ SearchNext

Fairness == WF_lists(NotFound)
Spec == Init /\ [][Next]_lists /\ Fairness
----------------------------------------------------------------------------
\* When all is quiet the list shows what the gateway has, whatever was marked,
\* rolled back or fetched meanwhile: unless someone else changed it since, the
\* last fetch failed, or the open conversation cleared its mark beside a fetch.
ListTellsTheGateway ==
  (/\ D.fetch = "none" /\ ~D.unknown
   /\ \A m \in Mutations : D.mutation[m].at \in {"none", "over"})
    => D.cache = D.rows

\* No hit is shown under a text it was not searched for.
HitsAreForTheText == ShownHits \subseteq {D.text}

\* The open conversation is one that exists, or is left for a new one.
StrandedOnDeleted == D.route # 0 /\ D.rows[D.route] = Gone
=============================================================================
