----------------------------- MODULE InboxSync -----------------------------
(***************************************************************************)
(* Incremental import from one connected inbox: the durable sync jobs of   *)
(* persistence/inbox/sync_jobs.py and sync_claim.py, the drain of          *)
(* services/inbox/sync.py, and the import of a selected thread by          *)
(* services/inbox/imports.py, over one provider thread.                    *)
(*                                                                         *)
(* A provider message is its position in the mailbox history, and a        *)
(* history id is the number of messages the mailbox then had.  A claim is  *)
(* a ranked subquery evaluated on a snapshot, then a row lock whose        *)
(* recheck repeats only the join and not the subquery's filters: two steps.*)
(***************************************************************************)
EXTENDS Naturals, FiniteSets

CONSTANTS
  Workers,        \* drains that may run at once
  MaxJobs,        \* bound: sync jobs of the connection
  MaxMessages,    \* bound: messages the thread receives
  MaxAttempts,    \* MAX_SYNC_ATTEMPTS
  MaxReprocess    \* bound: dead jobs put back

ASSUME MaxJobsAssumption == MaxJobs \in Nat \ {0}
ASSUME MaxMessagesAssumption == MaxMessages \in Nat \ {0}
ASSUME MaxSyncAttemptsAssumption == MaxAttempts \in Nat \ {0}
ASSUME MaxReprocessAssumption == MaxReprocess \in Nat

VARIABLES
  mailbox,      \* messages the provider thread has
  since,        \* messages the mailbox had when the thread's external conversation
                \* and case were created, 0 before
  copies,       \* local copies of each message
  cursor,       \* InboxSyncCheckpointModel.provider_history_id
  status,       \* InboxSyncJobModel.status, "no_job" before it is created
  attempts,     \* .attempt_count
  owner,        \* .lease_owner, NoWorker without one
  expired,      \* .lease_expires_at has passed
  waiting,      \* .available_at is in the future
  requested,    \* .requested_history_id, NoHistory without one
  page,         \* .page_token: the position after which to go on, 0 without one
  reprocessed,  \* dead jobs put back so far
  raced,        \* history: a claim locked a job that was no longer eligible
  step,         \* where each drain is
  work,         \* the job it works on
  base,         \* committed_history_id as the claim read it
  got,          \* messages fetched
  observed,     \* history id of the last page
  next,         \* next page token, 0 without one
  view          \* messages an import has fetched and not stored yet, 0 without

jobRow == <<status, attempts, owner, expired, waiting, requested, page>>
drains == <<step, work, base, got, observed, next>>
local == <<since, copies>>
vars == <<mailbox, local, cursor, jobRow, reprocessed, raced, drains, view>>

NoWorker == "none"
Jobs == 1 .. MaxJobs
Messages == 1 .. MaxMessages
History == 0 .. MaxMessages

NoHistory == MaxMessages + 1

Conversation == since # 0

SyncJobStatus == {"no_job", "pending", "running", "completed", "failed", "dead"}

TypeOK ==
  /\ mailbox \in Messages
  /\ since \in History
  /\ copies \in [Messages -> Nat]
  /\ cursor \in History
  /\ status \in [Jobs -> SyncJobStatus]
  /\ attempts \in [Jobs -> 0 .. MaxAttempts + 1]
  /\ owner \in [Jobs -> Workers \union {NoWorker}]
  /\ expired \in [Jobs -> BOOLEAN] /\ waiting \in [Jobs -> BOOLEAN]
  /\ requested \in [Jobs -> History \union {NoHistory}] /\ page \in [Jobs -> History]
  /\ reprocessed \in 0 .. MaxReprocess
  /\ raced \in BOOLEAN
  /\ step \in [Workers -> {"idle", "selected", "fetching", "persisting"}]
  /\ work \in [Workers -> 0 .. MaxJobs]
  /\ base \in [Workers -> History]
  /\ got \in [Workers -> SUBSET Messages]
  /\ observed \in [Workers -> History] /\ next \in [Workers -> History]
  /\ view \in History

NothingImported ==
  /\ since = 0
  /\ copies = [m \in Messages |-> 0]

\* The thread has received a first message since the connection was made.
Init ==
  /\ mailbox = 1 /\ cursor = 0
  /\ NothingImported
  /\ status = [j \in Jobs |-> "no_job"]
  /\ attempts = [j \in Jobs |-> 0]
  /\ owner = [j \in Jobs |-> NoWorker]
  /\ expired = [j \in Jobs |-> FALSE] /\ waiting = [j \in Jobs |-> FALSE]
  /\ requested = [j \in Jobs |-> NoHistory] /\ page = [j \in Jobs |-> 0]
  /\ reprocessed = 0 /\ raced = FALSE
  /\ step = [w \in Workers |-> "idle"]
  /\ work = [w \in Workers |-> 0]
  /\ base = [w \in Workers |-> 0]
  /\ got = [w \in Workers |-> {}]
  /\ observed = [w \in Workers |-> 0] /\ next = [w \in Workers |-> 0]
  /\ view = 0

-----------------------------------------------------------------------------
\* The customer or the support team adds a message to the thread.
MessageArrives ==
  /\ mailbox < MaxMessages
  /\ mailbox' = mailbox + 1
  /\ UNCHANGED <<local, cursor, jobRow, reprocessed, raced, drains, view>>

-----------------------------------------------------------------------------
(* Importing a selected thread *)

\* has_message, then record_message: a message known already is left alone.
Recorded(m) == IF copies[m] = 0 THEN 1 ELSE copies[m]

\* append_message for each message, under the thread's advisory lock.
Append(ms) == copies' = [m \in Messages |-> IF m \in ms THEN Recorded(m) ELSE copies[m]]

\* The thread gets its case and its external conversation.
CreateCase == since' = mailbox

\* The thread is fetched before the transaction that locks it.  Bound: a
\* thread that has a conversation is not imported again.
ImportFetches ==
  /\ view = 0 /\ ~Conversation
  /\ view' = mailbox
  /\ UNCHANGED <<mailbox, local, cursor, jobRow, reprocessed, raced, drains>>

ImportStores ==
  /\ view # 0
  /\ CreateCase
  /\ Append(1 .. view)
  /\ view' = 0
  /\ UNCHANGED <<mailbox, cursor, jobRow, reprocessed, raced, drains>>

\* The request ends before its transaction commits.
ImportDies ==
  /\ view # 0
  /\ view' = 0
  /\ UNCHANGED <<mailbox, local, cursor, jobRow, reprocessed, raced, drains>>

-----------------------------------------------------------------------------
(* Jobs *)

Live(j) == status[j] = "running" /\ ~expired[j]
Active(j) == status[j] \in {"pending", "running", "failed"} /\ attempts[j] < MaxAttempts

NewJob(j) == status[j] = "no_job" /\ \A k \in 1 .. j - 1 : status[k] # "no_job"

\* request_manual and request_scheduled return a job that is still active.
Enqueue ==
  /\ \A j \in Jobs : ~Active(j)
  /\ \E j \in Jobs :
       /\ NewJob(j)
       /\ status' = [status EXCEPT ![j] = "pending"]
  /\ UNCHANGED <<mailbox, local, cursor, attempts, owner, expired, waiting,
                 requested, page, reprocessed, raced, drains, view>>

\* A dead job is put back whether or not another one is active.
Reprocess(j) ==
  /\ status[j] = "dead" /\ reprocessed < MaxReprocess
  /\ status' = [status EXCEPT ![j] = "pending"]
  /\ attempts' = [attempts EXCEPT ![j] = 0]
  /\ waiting' = [waiting EXCEPT ![j] = FALSE]
  /\ reprocessed' = reprocessed + 1
  /\ UNCHANGED <<mailbox, local, cursor, owner, expired, requested, page,
                 raced, drains, view>>

LeaseExpires(j) ==
  /\ Live(j)
  /\ expired' = [expired EXCEPT ![j] = TRUE]
  /\ UNCHANGED <<mailbox, local, cursor, status, attempts, owner, waiting,
                 requested, page, reprocessed, raced, drains, view>>

BackoffEnds(j) ==
  /\ waiting[j]
  /\ waiting' = [waiting EXCEPT ![j] = FALSE]
  /\ UNCHANGED <<mailbox, local, cursor, status, attempts, owner, expired,
                 requested, page, reprocessed, raced, drains, view>>

-----------------------------------------------------------------------------
(* Claiming *)

\* Mutant of Exhausted: a job lost on its last attempt is left alone.
ExhaustedNever(j) == status[j] = "running" /\ expired[j] /\ attempts[j] > MaxAttempts + 9

\* exhausted_lease_statement
Exhausted(j) == status[j] = "running" /\ expired[j] /\ attempts[j] >= MaxAttempts

\* The filters of claim_statement.  Which of the claimable jobs of the
\* connection ranks first depends on clock readings: any of them may.
Claimable(j) ==
  /\ status[j] \in {"pending", "failed"} \/ (status[j] = "running" /\ expired[j])
  /\ ~waiting[j] /\ attempts[j] < MaxAttempts
  /\ \A k \in Jobs : ~Live(k)

\* The first half of claim: lost jobs become dead and the snapshot ranks a job.
Select(w) ==
  /\ step[w] = "idle"
  /\ \E j \in Jobs : Exhausted(j) \/ Claimable(j)
  /\ status' = [j \in Jobs |-> IF Exhausted(j) THEN "dead" ELSE status[j]]
  /\ owner' = [j \in Jobs |-> IF Exhausted(j) THEN NoWorker ELSE owner[j]]
  /\ expired' = [j \in Jobs |-> ~Exhausted(j) /\ expired[j]]
  /\ IF \E j \in Jobs : Claimable(j)
     THEN /\ \E j \in Jobs : Claimable(j) /\ work' = [work EXCEPT ![w] = j]
          /\ step' = [step EXCEPT ![w] = "selected"]
     ELSE UNCHANGED <<work, step>>
  /\ UNCHANGED <<mailbox, local, cursor, attempts, waiting, requested, page,
                 reprocessed, raced, base, got, observed, next, view>>

\* The second half: the row is locked, leased and read with the checkpoint.
\* Bound: one claim of a behaviour comes late.
LockJob(w) ==
  /\ step[w] = "selected"
  /\ raced => Claimable(work[w])
  /\ LET j == work[w] IN
       /\ raced' = (raced \/ ~Claimable(j))
       /\ status' = [status EXCEPT ![j] = "running"]
       /\ attempts' = [attempts EXCEPT ![j] = @ + 1]
       /\ owner' = [owner EXCEPT ![j] = w]
       /\ expired' = [expired EXCEPT ![j] = FALSE]
  /\ base' = [base EXCEPT ![w] = cursor]
  /\ step' = [step EXCEPT ![w] = "fetching"]
  /\ UNCHANGED <<mailbox, local, cursor, waiting, requested, page,
                 reprocessed, work, got, observed, next, view>>

\* SKIP LOCKED: another claim holds the row, and the drain claims nothing.
SkipLocked(w) ==
  /\ step[w] = "selected" /\ ~Claimable(work[w])
  /\ step' = [step EXCEPT ![w] = "idle"]
  /\ work' = [work EXCEPT ![w] = 0]
  /\ UNCHANGED <<mailbox, local, cursor, jobRow, reprocessed, raced, base, got, observed, next,
                 view>>

-----------------------------------------------------------------------------
(* Draining *)

Forget(w) ==
  /\ step' = [step EXCEPT ![w] = "idle"]
  /\ work' = [work EXCEPT ![w] = 0]
  /\ base' = [base EXCEPT ![w] = 0]
  /\ got' = [got EXCEPT ![w] = {}]
  /\ observed' = [observed EXCEPT ![w] = 0]
  /\ next' = [next EXCEPT ![w] = 0]

\* start_history_id and page_token: where the next page of the job begins.
StartOf(w) ==
  LET j == work[w] IN
  IF page[j] # 0 THEN page[j] ELSE IF requested[j] # NoHistory THEN requested[j] ELSE base[w]

\* list_changes: where the pages read may end.  One that is not the last has
\* at least one message (and, a bound, a job left for its continuation).
PageEnds(w) ==
  {upto \in StartOf(w) .. mailbox :
     upto = mailbox \/ (upto > StartOf(w) /\ \E j \in Jobs : NewJob(j))}

\* _fetch reads pages until the history ends or the job's budgets do; a page
\* reports the mailbox's present history id.
Fetch(w) ==
  /\ step[w] = "fetching"
  /\ \E upto \in PageEnds(w) :
       /\ got' = [got EXCEPT ![w] = StartOf(w) + 1 .. upto]
       /\ observed' = [observed EXCEPT ![w] = mailbox]
       /\ next' = [next EXCEPT ![w] = IF upto = mailbox THEN 0 ELSE upto]
  /\ step' = [step EXCEPT ![w] = "persisting"]
  /\ base' = [base EXCEPT ![w] = 0]
  /\ UNCHANGED <<mailbox, local, cursor, jobRow, reprocessed, raced, work,
                 view>>

\* Mutant of HoldsLease: only the status is checked.
HoldsAnyLease(w) == status[work[w]] = "running"

\* _running_job
HoldsLease(w) ==
  /\ status[work[w]] = "running" /\ owner[work[w]] = w /\ ~expired[work[w]]

\* complete: the last page ends the job; another one also leaves a
\* continuation job with the same start.
CompleteJob(w) ==
  /\ LET j == work[w] IN
       IF next[w] = 0
       THEN /\ status' = [status EXCEPT ![j] = "completed"]
            /\ UNCHANGED <<requested, page>>
       ELSE \E k \in Jobs :
              /\ NewJob(k)
              /\ status' = [status EXCEPT ![j] = "completed", ![k] = "pending"]
              /\ requested' = [requested EXCEPT ![k] =
                                 IF requested[j] # NoHistory THEN requested[j] ELSE cursor]
              /\ page' = [page EXCEPT ![k] = next[w]]
  /\ owner' = [owner EXCEPT ![work[w]] = NoWorker]

\* Mutant of Persist: the cursor moves with every page.
PersistEveryCursor(w) ==
  /\ step[w] = "persisting" /\ HoldsLease(w)
  /\ IF Conversation THEN Append(got[w]) ELSE UNCHANGED copies
  /\ cursor' = observed[w]
  /\ CompleteJob(w)
  /\ Forget(w)
  /\ UNCHANGED <<mailbox, since, attempts, expired, waiting,
                 reprocessed, raced, view>>

\* _persist: messages of an imported thread are stored and the job completed
\* in one transaction.  Only the last page commits the cursor.
Persist(w) ==
  /\ step[w] = "persisting" /\ HoldsLease(w)
  /\ IF Conversation THEN Append(got[w]) ELSE UNCHANGED copies
  /\ cursor' = IF next[w] = 0 THEN observed[w] ELSE cursor
  /\ CompleteJob(w)
  /\ Forget(w)
  /\ UNCHANGED <<mailbox, since, attempts, expired, waiting,
                 reprocessed, raced, view>>

\* _fail, after _fetch or _persist raised: a missing or refused credential,
\* or the last attempt, makes the job dead; any other error delays it.
Fail(w) ==
  /\ step[w] \in {"fetching", "persisting"} /\ HoldsLease(w)
  /\ \E reauthorize \in BOOLEAN :
       /\ reauthorize => step[w] = "fetching"
       /\ LET j == work[w]
              dead == attempts[j] >= MaxAttempts \/ reauthorize IN
            /\ status' = [status EXCEPT ![j] = IF dead THEN "dead" ELSE "failed"]
            /\ waiting' = [waiting EXCEPT ![j] = ~dead]
            /\ owner' = [owner EXCEPT ![j] = NoWorker]
  /\ Forget(w)
  /\ UNCHANGED <<mailbox, local, cursor, attempts, expired, requested, page,
                 reprocessed, raced, view>>

\* The lease is no longer active: complete raises, or the fetch has failed,
\* then fail raises, and the drain ends with nothing written.
LeaseLost(w) ==
  /\ step[w] \in {"fetching", "persisting"} /\ ~HoldsLease(w)
  /\ Forget(w)
  /\ UNCHANGED <<mailbox, local, cursor, jobRow, reprocessed, raced, view>>

\* The process ends between two transactions; inside the claim nothing is
\* written and the drain is as good as not begun.
WorkerDies(w) ==
  /\ step[w] \notin {"idle", "selected"}
  /\ Forget(w)
  /\ UNCHANGED <<mailbox, local, cursor, jobRow, reprocessed, raced, view>>

-----------------------------------------------------------------------------
Drain(w) ==
  \/ Select(w) \/ LockJob(w) \/ SkipLocked(w) \/ Fetch(w) \/ Persist(w) \/ Fail(w) \/ LeaseLost(w)

Next ==
  \/ MessageArrives
  \/ ImportFetches \/ ImportStores \/ ImportDies
  \/ Enqueue
  \/ \E j \in Jobs : Reprocess(j) \/ LeaseExpires(j) \/ BackoffEnds(j)
  \/ \E w \in Workers : Drain(w) \/ WorkerDies(w)

Spec == Init /\ [][Next]_vars

\* The scheduled runner drains again and again, leases and delays run out.
FairSpec ==
  /\ Spec
  /\ WF_vars(\E w \in Workers : Drain(w))
  /\ WF_vars(\E j \in Jobs : LeaseExpires(j) \/ BackoffEnds(j))

-----------------------------------------------------------------------------
(* Properties *)

\* Once a conversation exists, no message that arrived later is passed over:
\* whatever the committed cursor covers has been stored, through takeovers,
\* pages, reprocessed jobs, reconnects and claims that raced.
NothingSkippedSince ==
  Conversation => \A m \in Messages : m > since /\ m <= cursor => copies[m] = 1

\* A provider message becomes one local message, however often sync and
\* import meet it.
StoredOnce == \A m \in Messages : copies[m] <= 1

\* Unless a claim raced, the connection has one live lease at a time, and
\* the active jobs of the connection wait for it.
OneLiveLease ==
  raced \/ \A j, k \in Jobs : Live(j) /\ Live(k) => j = k

\* Nothing is lost and nothing doubled by however many workers.
SyncIsSound == TypeOK /\ NothingSkippedSince /\ StoredOnce /\ OneLiveLease

\* Unless a claim raced, the committed cursor never moves back: a drain that
\* lost its lease cannot commit what it fetched earlier.
CursorAdvances == [][raced' \/ cursor' >= cursor]_vars

\* The queue is worked off: again and again every job that was asked for is
\* completed or dead, also one whose worker died on the last attempt.
QueueDrains == []<>(\A j \in Jobs : status[j] \in {"no_job", "completed", "dead"})

\* The committed cursor covers only messages of the conversation that are
\* stored (CONNECTED_INBOX_ARCHITECTURE.md, inbox_sync_checkpoints).
NothingSkipped ==
  Conversation => \A m \in Messages : m <= cursor => copies[m] = 1

=============================================================================
