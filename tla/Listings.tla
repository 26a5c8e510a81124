------------------------------- MODULE Listings -------------------------------
(***************************************************************************)
(* Reading a list page by page while its rows change.  The case queue goes *)
(* forward and back in three orders over a snapshot in time                *)
(* (persistence/case_persistence/queries.py); reviews, actions and         *)
(* connections go forward by time and identifier; notifications, messages  *)
(* and activity by time and identifier, both descending.  A cursor names a *)
(* position, never an offset, and is bound to its list and its filters.    *)
(***************************************************************************)
EXTENDS Integers, Sequences, FiniteSets

CONSTANTS
  Rows,      \* public identifiers, natural numbers
  PageSize,  \* the page limit
  MaxClock   \* bound: time

VARIABLES
  rank,      \* risk rank of a case
  due,       \* its due_at
  updated,   \* updated_at, submitted_at or created_at
  clock,
  sort,      \* the list that is read, "none" before
  snapshot,  \* CaseQueueCursorRecord.snapshot_at
  page,      \* the rows of the page shown
  next, previous,  \* positions of its cursors, NoCursor without one
  shown,     \* history: rows shown since the list was opened
  moved,     \* history: rows whose place changed since then
  trail,     \* history: the page the last step forward left
  wentBack   \* history: the page shown was reached backward

listRows == <<rank, due, updated, clock>>
listVars == <<listRows, sort, snapshot, page, next, previous, shown, moved, trail, wentBack>>

CaseSorts == {"priority", "sla", "updated"}
Sorts == CaseSorts \union {"newest", "history"}

NoCursor == <<>>

ListInit ==
  /\ rank \in [Rows -> 1..2]
  /\ due \in [Rows -> 1..2]
  /\ updated = due
  /\ clock = 2
  /\ sort = "none" /\ snapshot = 0
  /\ page = {} /\ next = NoCursor /\ previous = NoCursor
  /\ shown = {} /\ moved = {} /\ trail = {} /\ wentBack = FALSE

-----------------------------------------------------------------------------
\* Positions, compared entry by entry: _case_queue_position and the cursors'
\* payloads.
QueuePosition(s, r) ==
  CASE s = "priority" -> <<rank[r], due[r], r>>
    [] s = "sla" -> <<due[r], r>>
    [] s = "updated" -> <<-updated[r], r>>

\* Reviews, actions and connections.
NewestPosition(r) == <<-updated[r], r>>

\* Notifications, messages and activity.
HistoryPosition(r) == <<-updated[r], -r>>

Position(s, r) ==
  CASE s \in CaseSorts -> QueuePosition(s, r)
    [] s = "newest" -> NewestPosition(r)
    [] s = "history" -> HistoryPosition(r)

Before(p, q) == \E i \in 1..Len(p) : p[i] < q[i] /\ \A j \in 1..(i - 1) : p[j] = q[j]

\* The case queue leaves out what changed after its snapshot.
Listed(s, at) == {r \in Rows : s \in CaseSorts => updated[r] <= at}

\* Mutant of After: the tie breakers are left out.
AfterFirstKey(s, at, p) ==
  IF p = NoCursor THEN Listed(s, at) ELSE {r \in Listed(s, at) : p[1] < Position(s, r)[1]}

After(s, at, p) ==
  IF p = NoCursor THEN Listed(s, at) ELSE {r \in Listed(s, at) : Before(p, Position(s, r))}

Ahead(s, at, p) == {r \in Listed(s, at) : Before(Position(s, r), p)}

\* ORDER BY ... LIMIT: the first or, backward, the last of them.
FirstOf(s, rows) == {r \in rows : Cardinality({q \in rows : Before(Position(s, q), Position(s, r))}) < PageSize}
LastOf(s, rows) == {r \in rows : Cardinality({q \in rows : Before(Position(s, r), Position(s, q))}) < PageSize}

Ends(s, rows) == [first |-> CHOOSE r \in rows : \A q \in rows \ {r} : Before(Position(s, r), Position(s, q)),
                  last |-> CHOOSE r \in rows : \A q \in rows \ {r} : Before(Position(s, q), Position(s, r))]

Shows(s, rows, more, less) ==
  /\ page' = rows
  /\ shown' = shown \union rows
  /\ next' = IF rows # {} /\ more THEN Position(s, Ends(s, rows).last) ELSE NoCursor
  /\ previous' = IF s \in CaseSorts /\ rows # {} /\ less THEN Position(s, Ends(s, rows).first) ELSE NoCursor
  /\ UNCHANGED listRows

\* The first page.
Open(s) ==
  /\ sort = "none"
  /\ sort' = s /\ snapshot' = clock
  /\ LET rows == After(s, clock, NoCursor) IN
       Shows(s, FirstOf(s, rows), Cardinality(rows) > PageSize, FALSE)
  /\ wentBack' = FALSE
  /\ UNCHANGED <<moved, trail>>

NextPage ==
  /\ next # NoCursor
  /\ LET rows == After(sort, snapshot, next) IN
       Shows(sort, FirstOf(sort, rows), Cardinality(rows) > PageSize, TRUE)
  /\ trail' = page /\ wentBack' = FALSE
  /\ UNCHANGED <<sort, snapshot, moved>>

\* There is a next page when this one has rows.
PreviousPage ==
  /\ previous # NoCursor
  /\ LET rows == Ahead(sort, snapshot, previous) IN
       Shows(sort, LastOf(sort, rows), TRUE, Cardinality(rows) > PageSize)
  /\ wentBack' = TRUE
  /\ UNCHANGED <<sort, snapshot, moved, trail>>

\* A row changes: its time moves on, a case's due date and risk do not.
TouchRow(r) ==
  /\ clock < MaxClock
  /\ clock' = clock + 1
  /\ updated' = [updated EXCEPT ![r] = clock + 1]
  /\ moved' = IF sort = "none" THEN moved ELSE moved \union {r}
  /\ UNCHANGED <<rank, due, sort, snapshot, page, next, previous, shown, trail, wentBack>>

ListingsNext == (\E s \in Sorts : Open(s)) \/ NextPage \/ PreviousPage \/ (\E r \in Rows : TouchRow(r))

-----------------------------------------------------------------------------
(* Properties *)

\* Whoever reads on to the end has been shown every row whose place did not
\* change meanwhile, whatever ties there are and whatever else changed; and
\* the page before the second is the first again.  (Going back to a page all
\* of whose rows changed shows an empty page without cursors.)
ListIsWalkedWhole ==
  [][/\ sort' # "none" /\ next' = NoCursor /\ ~(wentBack' /\ page' = {}) => Rows \ moved' \subseteq shown'
     /\ ~wentBack /\ wentBack' /\ moved' = {} => page' = trail]_listVars

=============================================================================
