----------------------------- MODULE Notifications -----------------------------
(***************************************************************************)
(* Alerts about cases near their limit, waiting reviews and actions to     *)
(* recover (services/notification_projector.py,                            *)
(* persistence/notification_repository.py).  A projection reads what is    *)
(* open and enqueues one notification per recipient and event, in one      *)
(* transaction; two may run at once, and recipients read meanwhile.        *)
(***************************************************************************)
EXTENDS Integers, FiniteSets

CONSTANTS
  Alerted,      \* active supervisors and administrators
  Happenings,   \* event keys: a case, review or action in one version
  Projections   \* projections that may run at once

VARIABLES
  open,        \* events that hold now
  notices,     \* committed NotificationModel rows
  unsaved,     \* the rows each projection has inserted and not committed
  running,     \* projections under way
  mail,        \* email_delivery of the settings
  mailed       \* pending email rows of the outbox

noticeVars == <<open, notices, unsaved, running, mail, mailed>>

\* by tells two rows for the same recipient and event apart.
Notice(m, e, p) == [recipient |-> m, event |-> e, by |-> p, status |-> "unread"]

NoticeInit ==
  /\ open = {} /\ notices = {} /\ mailed = {}
  /\ unsaved = [p \in Projections |-> {}]
  /\ running = {}
  /\ mail \in BOOLEAN

\* A case comes near its limit, a review waits, an action needs recovery; or
\* it moved on, with another version and so another key.
EventChanges(e) ==
  /\ open' = IF e \in open THEN open \ {e} ELSE open \union {e}
  /\ UNCHANGED <<notices, unsaved, running, mail, mailed>>

BeginProjection(p) ==
  /\ p \notin running
  /\ running' = running \union {p}
  /\ UNCHANGED <<open, notices, unsaved, mail, mailed>>

For(rows, m, e) == {n \in rows : n.recipient = m /\ n.event = e}

\* Mutant of KeyFree: the table has no unique key.
KeyUnchecked(p, m, e) == p \in Projections

\* The unique key on recipient and event: the insert waits while another
\* projection holds the same key, and fails when that one commits.
KeyFree(p, m, e) == \A q \in Projections \ {p} : For(unsaved[q], m, e) = {}

\* enqueue: an event already told about is left as it is.
Enqueue(p, m, e) ==
  /\ p \in running /\ e \in open
  /\ For(notices, m, e) = {} /\ For(unsaved[p], m, e) = {}
  /\ KeyFree(p, m, e)
  /\ unsaved' = [unsaved EXCEPT ![p] = @ \union {Notice(m, e, p)}]
  /\ UNCHANGED <<open, notices, running, mail, mailed>>

\* The outbox rows come with the notification.
CommitProjection(p) ==
  /\ p \in running
  /\ notices' = notices \union unsaved[p]
  /\ mailed' = IF mail THEN mailed \union unsaved[p] ELSE mailed
  /\ unsaved' = [unsaved EXCEPT ![p] = {}]
  /\ running' = running \ {p}
  /\ UNCHANGED <<open, mail>>

\* A duplicate key, a recipient who left, a deadlock or a crash undoes all of it.
ProjectionFails(p) ==
  /\ p \in running
  /\ unsaved' = [unsaved EXCEPT ![p] = {}]
  /\ running' = running \ {p}
  /\ UNCHANGED <<open, notices, mail, mailed>>

Read(rows) == {[n EXCEPT !.status = "read"] : n \in rows}

\* mark_read with the version of an unread row
MarkRead(m, e) ==
  /\ \E n \in For(notices, m, e) : n.status = "unread"
  /\ notices' = (notices \ For(notices, m, e)) \union Read(For(notices, m, e))
  /\ UNCHANGED <<open, unsaved, running, mail, mailed>>

MarkAllRead(m) ==
  LET mine == {n \in notices : n.recipient = m /\ n.status = "unread"} IN
  /\ mine # {}
  /\ notices' = (notices \ mine) \union Read(mine)
  /\ UNCHANGED <<open, unsaved, running, mail, mailed>>

NotificationsNext ==
  \/ \E e \in Happenings : EventChanges(e)
  \/ \E p \in Projections :
       \/ BeginProjection(p) \/ CommitProjection(p) \/ ProjectionFails(p)
       \/ \E m \in Alerted, e \in Happenings : Enqueue(p, m, e)
  \/ \E m \in Alerted : MarkAllRead(m) \/ (\E e \in Happenings : MarkRead(m, e))

-----------------------------------------------------------------------------
(* Properties *)

\* Nobody is told or mailed twice about one event, however often and however
\* concurrently it is projected, and what was read is never unread again.
ToldOnce ==
  [][\A m \in Alerted, e \in Happenings :
       /\ Cardinality(For(notices', m, e)) <= 1 /\ Cardinality(For(mailed', m, e)) <= 1
       /\ (\E n \in For(notices, m, e) : n.status = "read") => For(notices', m, e) = For(notices, m, e)]_noticeVars

=============================================================================
