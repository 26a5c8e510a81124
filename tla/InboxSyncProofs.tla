--------------------------- MODULE InboxSyncProofs ---------------------------
(***************************************************************************)
(* Proofs about InboxSync for any number of drains, jobs, messages and     *)
(* attempts.                                                               *)
(***************************************************************************)
EXTENDS InboxSync, TLAPS

\* Nothing in the system is ahead of the mailbox.
BehindMailbox ==
  /\ cursor <= mailbox /\ since <= mailbox /\ view <= mailbox
  /\ \A j \in Jobs : page[j] <= mailbox /\ (requested[j] = NoHistory \/ requested[j] <= mailbox)
  /\ \A w \in Workers : base[w] <= mailbox /\ observed[w] <= mailbox /\ next[w] <= mailbox

\* A drain that is not idle has a job, and only a raced claim spends more
\* attempts than there are.
Placed ==
  /\ \A w \in Workers : step[w] # "idle" => work[w] \in Jobs
  /\ \A j \in Jobs : raced \/ attempts[j] <= MaxAttempts

\* Message m need not be fetched any more: it is stored, or the thread was
\* imported after it or not yet.
Safe(m) == Conversation /\ m > since => copies[m] = 1

\* Where the pages a drain has fetched end.
EndOf(w) == IF next[w] = 0 THEN observed[w] ELSE next[w]

\* Every position a drain may start from has only safe messages behind it,
\* and so has the end of what a drain holds, but for what it holds.
StartsAreSafe ==
  /\ \A m \in Messages : m <= cursor => Safe(m)
  /\ \A w \in Workers, m \in Messages : m <= base[w] => Safe(m)
  /\ \A j \in Jobs, m \in Messages :
       m <= page[j] \/ (requested[j] # NoHistory /\ m <= requested[j]) => Safe(m)
  /\ \A w \in Workers, m \in Messages :
       step[w] = "persisting" /\ m <= EndOf(w) /\ m \notin got[w] => Safe(m)

\* Unless a claim raced, what a drain under a live lease fetched is not older
\* than the committed cursor.
HolderIsCurrent ==
  \A w \in Workers : step[w] = "persisting" /\ HoldsLease(w) => raced \/ cursor <= observed[w]

\* The inductive invariant.
Inv ==
  /\ TypeOK
  /\ BehindMailbox
  /\ Placed
  /\ StartsAreSafe
  /\ StoredOnce
  /\ OneLiveLease
  /\ HolderIsCurrent

-----------------------------------------------------------------------------
(* Types *)

\* Positions are natural numbers and NoHistory is none of them.
LEMMA Positions ==
  /\ 0 \in History /\ 1 \in Messages /\ NoHistory \notin History
  /\ Messages \subseteq History
  /\ \A h \in History : h \in Nat /\ (h # 0 => h \in Messages)
  /\ \A j \in Jobs : j \in 0 .. MaxJobs
  /\ 0 \in 0 .. MaxJobs /\ 0 \in 0 .. MaxAttempts + 1
BY MaxMessagesAssumption, MaxJobsAssumption, MaxSyncAttemptsAssumption
   DEF History, Messages, NoHistory, Jobs

\* Where the next page of a drain's job begins.
LEMMA StartType ==
  ASSUME Inv, NEW w \in Workers, step[w] # "idle"
  PROVE  StartOf(w) \in History /\ StartOf(w) <= mailbox /\ work[w] \in Jobs
<1>1. work[w] \in Jobs
  BY DEF Inv, Placed
<1>. QED
  BY <1>1, Positions DEF Inv, TypeOK, BehindMailbox, StartOf

\* An ended drain holds nothing.
LEMMA ForgetTypes ==
  ASSUME TypeOK, NEW w \in Workers, Forget(w)
  PROVE  /\ step' \in [Workers -> {"idle", "selected", "fetching", "persisting"}]
         /\ work' \in [Workers -> 0 .. MaxJobs]
         /\ base' \in [Workers -> History]
         /\ got' \in [Workers -> SUBSET Messages]
         /\ observed' \in [Workers -> History] /\ next' \in [Workers -> History]
<1>. USE Positions DEF TypeOK, Forget
<1>1. step' \in [Workers -> {"idle", "selected", "fetching", "persisting"}]
  OBVIOUS
<1>2. work' \in [Workers -> 0 .. MaxJobs]
  OBVIOUS
<1>3. base' \in [Workers -> History]
  OBVIOUS
<1>4. got' \in [Workers -> SUBSET Messages]
  OBVIOUS
<1>5. observed' \in [Workers -> History] /\ next' \in [Workers -> History]
  OBVIOUS
<1>. QED
  BY <1>1, <1>2, <1>3, <1>4, <1>5

\* Storing messages keeps at most one copy of each, and one of those stored.
LEMMA AppendStores ==
  ASSUME TypeOK, StoredOnce, NEW ms, Append(ms)
  PROVE  /\ copies' \in [Messages -> Nat]
         /\ \A m \in Messages : copies'[m] <= 1
         /\ \A m \in Messages : m \in ms \/ copies[m] = 1 => copies'[m] = 1
BY DEF TypeOK, StoredOnce, Append, Recorded

\* The mailbox and the import.
LEMMA ImportType ==
  ASSUME Inv, MessageArrives \/ ImportFetches \/ ImportStores \/ ImportDies
  PROVE  TypeOK'
<1>. UNCHANGED <<cursor, jobRow, reprocessed, raced, drains>>
  BY DEF MessageArrives, ImportFetches, ImportStores, ImportDies
<1>1. mailbox' \in Messages
  BY MaxMessagesAssumption
     DEF Inv, TypeOK, MessageArrives, ImportFetches, ImportStores, ImportDies, Messages
<1>2. since' \in History /\ view' \in History
  BY Positions DEF Inv, TypeOK, MessageArrives, ImportFetches, ImportStores, ImportDies, CreateCase,
                   local
<1>3. copies' \in [Messages -> Nat]
  BY AppendStores DEF Inv, TypeOK, MessageArrives, ImportFetches, ImportStores, ImportDies, local
<1>. QED
  BY <1>1, <1>2, <1>3 DEF Inv, TypeOK, jobRow, drains

\* Jobs outside the drains.
LEMMA JobType ==
  ASSUME Inv, Enqueue \/ \E j \in Jobs : Reprocess(j) \/ LeaseExpires(j) \/ BackoffEnds(j)
  PROVE  TypeOK'
<1>. UNCHANGED <<mailbox, local, cursor, owner, requested, page, raced, drains, view>>
  BY DEF Enqueue, Reprocess, LeaseExpires, BackoffEnds
<1>1. status' \in [Jobs -> SyncJobStatus]
  BY DEF Inv, TypeOK, SyncJobStatus, Enqueue, Reprocess, LeaseExpires, BackoffEnds
<1>2. attempts' \in [Jobs -> 0 .. MaxAttempts + 1]
  BY Positions DEF Inv, TypeOK, Enqueue, Reprocess, LeaseExpires, BackoffEnds
<1>3. expired' \in [Jobs -> BOOLEAN] /\ waiting' \in [Jobs -> BOOLEAN]
  BY DEF Inv, TypeOK, Enqueue, Reprocess, LeaseExpires, BackoffEnds
<1>4. reprocessed' \in 0 .. MaxReprocess
  BY MaxReprocessAssumption DEF Inv, TypeOK, Enqueue, Reprocess, LeaseExpires, BackoffEnds
<1>. QED
  BY <1>1, <1>2, <1>3, <1>4 DEF Inv, TypeOK, local, drains

\* Claims.
LEMMA ClaimType ==
  ASSUME Inv, NEW w \in Workers, Select(w) \/ LockJob(w) \/ SkipLocked(w)
  PROVE  TypeOK'
<1>. UNCHANGED <<mailbox, local, cursor, waiting, requested, page, reprocessed, got, observed, next,
                 view>>
  BY DEF Select, LockJob, SkipLocked, jobRow
<1>1. CASE Select(w)
  <2>1. status' \in [Jobs -> SyncJobStatus]
    BY <1>1 DEF Inv, TypeOK, SyncJobStatus, Select
  <2>2. owner' \in [Jobs -> Workers \union {NoWorker}]
    BY <1>1 DEF Inv, TypeOK, Select
  <2>3. expired' \in [Jobs -> BOOLEAN]
    BY <1>1 DEF Inv, TypeOK, Select
  <2>4. work' \in [Workers -> 0 .. MaxJobs]
    BY <1>1, Positions DEF Inv, TypeOK, Select
  <2>5. step' \in [Workers -> {"idle", "selected", "fetching", "persisting"}]
    BY <1>1 DEF Inv, TypeOK, Select
  <2>6. UNCHANGED <<attempts, raced, base>>
    BY <1>1 DEF Select
  <2>. QED
    BY <2>1, <2>2, <2>3, <2>4, <2>5, <2>6 DEF Inv, TypeOK, local
<1>2. CASE LockJob(w)
  <2>. DEFINE j == work[w]
  <2>0. j \in Jobs
    BY <1>2 DEF Inv, Placed, LockJob
  <2>a. /\ status' = [status EXCEPT ![j] = "running"]
        /\ attempts' = [attempts EXCEPT ![j] = attempts[j] + 1]
        /\ owner' = [owner EXCEPT ![j] = w]
        /\ expired' = [expired EXCEPT ![j] = FALSE]
        /\ base' = [base EXCEPT ![w] = cursor]
        /\ step' = [step EXCEPT ![w] = "fetching"]
        /\ raced' = (raced \/ ~Claimable(j))
        /\ work' = work
    BY <1>2 DEF LockJob
  <2>b. attempts[j] + 1 \in 0 .. MaxAttempts + 1
    <3>1. attempts[j] <= MaxAttempts
      BY <1>2, <2>0, MaxSyncAttemptsAssumption DEF LockJob, Claimable, Inv, TypeOK, Placed
    <3>. QED
      BY <2>0, <3>1, MaxSyncAttemptsAssumption DEF Inv, TypeOK
  <2>. HIDE DEF j
  <2>1. status' \in [Jobs -> SyncJobStatus]
    BY <2>a DEF Inv, TypeOK, SyncJobStatus
  <2>2. attempts' \in [Jobs -> 0 .. MaxAttempts + 1]
    BY <2>a, <2>b DEF Inv, TypeOK
  <2>3. owner' \in [Jobs -> Workers \union {NoWorker}] /\ expired' \in [Jobs -> BOOLEAN]
    BY <2>a DEF Inv, TypeOK
  <2>4. base' \in [Workers -> History]
    BY <2>a DEF Inv, TypeOK
  <2>5. step' \in [Workers -> {"idle", "selected", "fetching", "persisting"}]
    BY <2>a DEF Inv, TypeOK
  <2>6. raced' \in BOOLEAN
    BY <2>a, Zenon
  <2>. QED
    BY <2>a, <2>1, <2>2, <2>3, <2>4, <2>5, <2>6 DEF Inv, TypeOK, local
<1>3. CASE SkipLocked(w)
  <2>1. work' \in [Workers -> 0 .. MaxJobs]
    BY <1>3, Positions DEF Inv, TypeOK, SkipLocked
  <2>2. step' \in [Workers -> {"idle", "selected", "fetching", "persisting"}]
    BY <1>3 DEF Inv, TypeOK, SkipLocked
  <2>3. UNCHANGED <<jobRow, raced, base>>
    BY <1>3 DEF SkipLocked
  <2>. QED
    BY <2>1, <2>2, <2>3 DEF Inv, TypeOK, local, jobRow
<1>. QED
  BY <1>1, <1>2, <1>3

\* Drains after the claim.
LEMMA DrainType ==
  ASSUME Inv, NEW w \in Workers,
         Fetch(w) \/ Persist(w) \/ Fail(w) \/ LeaseLost(w) \/ WorkerDies(w)
  PROVE  TypeOK'
<1>. UNCHANGED <<mailbox, since, attempts, expired, reprocessed, raced, view>>
  BY DEF Fetch, Persist, Fail, LeaseLost, WorkerDies, local, jobRow
<1>1. CASE Fetch(w)
  <2>0. StartOf(w) \in History /\ mailbox \in Messages
    BY <1>1, StartType DEF Fetch, Inv, TypeOK
  <2>1. PICK upto \in PageEnds(w) :
          /\ got' = [got EXCEPT ![w] = StartOf(w) + 1 .. upto]
          /\ observed' = [observed EXCEPT ![w] = mailbox]
          /\ next' = [next EXCEPT ![w] = IF upto = mailbox THEN 0 ELSE upto]
    BY <1>1 DEF Fetch
  <2>2. upto \in History /\ StartOf(w) + 1 .. upto \subseteq Messages
    BY <2>0, MaxMessagesAssumption DEF PageEnds, History, Messages
  <2>3. got' \in [Workers -> SUBSET Messages]
    BY <2>1, <2>2 DEF Inv, TypeOK
  <2>4. observed' \in [Workers -> History] /\ next' \in [Workers -> History]
    BY <2>0, <2>1, <2>2, Positions DEF Inv, TypeOK
  <2>5. base' \in [Workers -> History]
    BY <1>1, Positions DEF Inv, TypeOK, Fetch
  <2>6. step' \in [Workers -> {"idle", "selected", "fetching", "persisting"}]
    BY <1>1 DEF Inv, TypeOK, Fetch
  <2>7. UNCHANGED <<local, cursor, jobRow, work>>
    BY <1>1 DEF Fetch
  <2>. QED
    BY <2>3, <2>4, <2>5, <2>6, <2>7 DEF Inv, TypeOK, local, jobRow
<1>2. CASE Persist(w)
  <2>0. work[w] \in Jobs
    BY <1>2 DEF Inv, Placed, Persist
  <2>1. copies' \in [Messages -> Nat]
    BY <1>2, AppendStores DEF Persist, Inv, TypeOK
  <2>2. cursor' \in History
    BY <1>2 DEF Persist, Inv, TypeOK
  <2>3. status' \in [Jobs -> SyncJobStatus]
    BY <1>2 DEF Persist, CompleteJob, Inv, TypeOK, SyncJobStatus
  <2>4. requested' \in [Jobs -> History \union {NoHistory}]
    <3>1. CASE requested' = requested
      BY <3>1 DEF Inv, TypeOK
    <3>2. CASE requested' # requested
      <4>1. PICK k \in Jobs : requested' = [requested EXCEPT ![k] =
                IF requested[work[w]] # NoHistory THEN requested[work[w]] ELSE cursor]
        BY <1>2, <3>2 DEF Persist, CompleteJob
      <4>. QED
        BY <2>0, <4>1 DEF Inv, TypeOK
    <3>. QED
      BY <3>1, <3>2
  <2>5. page' \in [Jobs -> History]
    <3>1. page' = page \/ \E k \in Jobs : page' = [page EXCEPT ![k] = next[w]]
      BY <1>2 DEF Persist, CompleteJob
    <3>. QED
      BY <3>1 DEF Inv, TypeOK
  <2>6. owner' \in [Jobs -> Workers \union {NoWorker}]
    BY <1>2 DEF Persist, CompleteJob, Inv, TypeOK
  <2>7. waiting' = waiting /\ Forget(w)
    BY <1>2 DEF Persist
  <2>. QED
    BY <2>1, <2>2, <2>3, <2>4, <2>5, <2>6, <2>7, ForgetTypes DEF Inv, TypeOK
<1>3. CASE Fail(w)
  <2>1. status' \in [Jobs -> SyncJobStatus]
    BY <1>3 DEF Fail, Inv, TypeOK, SyncJobStatus
  <2>2. waiting' \in [Jobs -> BOOLEAN]
    BY <1>3 DEF Fail, Inv, TypeOK
  <2>3. owner' \in [Jobs -> Workers \union {NoWorker}]
    BY <1>3 DEF Fail, Inv, TypeOK
  <2>4. UNCHANGED <<local, cursor, requested, page>> /\ Forget(w)
    BY <1>3 DEF Fail
  <2>. QED
    BY <2>1, <2>2, <2>3, <2>4, ForgetTypes DEF Inv, TypeOK, local
<1>4. CASE LeaseLost(w) \/ WorkerDies(w)
  <2>1. UNCHANGED <<local, cursor, jobRow>> /\ Forget(w)
    BY <1>4 DEF LeaseLost, WorkerDies
  <2>. QED
    BY <2>1, ForgetTypes DEF Inv, TypeOK, local, jobRow
<1>. QED
  BY <1>1, <1>2, <1>3, <1>4

\* Every step keeps the types.
LEMMA NextType == ASSUME Inv, [Next]_vars PROVE TypeOK'
<1>1. CASE UNCHANGED vars
  BY <1>1 DEF Inv, TypeOK, vars, local, jobRow, drains
<1>. QED
  BY <1>1, ImportType, JobType, ClaimType, DrainType DEF Next, Drain

-----------------------------------------------------------------------------
(* What a step does to the messages *)

\* The mailbox only grows, nothing stored is lost or doubled, and a thread
\* gets its conversation with everything the mailbox then has behind it.
LEMMA StepStores ==
  ASSUME Inv, [Next]_vars
  PROVE  /\ mailbox' \in Nat /\ mailbox \in Nat /\ mailbox' >= mailbox
         /\ \A m \in Messages : copies'[m] <= 1
         /\ \A m \in Messages : copies[m] = 1 => copies'[m] = 1
         /\ since' = since \/ since' = mailbox
<1>1. mailbox' \in Nat /\ mailbox \in Nat
  BY NextType, Positions DEF Inv, TypeOK
<1>2. CASE MessageArrives
  BY <1>1, <1>2 DEF MessageArrives, local, Inv, StoredOnce
<1>3. CASE ImportStores
  BY <1>1, <1>3, AppendStores DEF ImportStores, CreateCase, Inv
<1>4. ASSUME NEW w \in Workers, Persist(w)
      PROVE  /\ mailbox' = mailbox /\ since' = since
             /\ \A m \in Messages : copies'[m] <= 1
             /\ \A m \in Messages : copies[m] = 1 => copies'[m] = 1
  BY <1>4, AppendStores DEF Persist, Inv, StoredOnce
<1>5. CASE UNCHANGED <<mailbox, local>>
  BY <1>1, <1>5 DEF local, Inv, StoredOnce
<1>6. \/ MessageArrives \/ ImportStores \/ \E w \in Workers : Persist(w)
      \/ UNCHANGED <<mailbox, local>>
  BY DEF Next, vars, Drain, ImportFetches, ImportDies, Enqueue, Reprocess, LeaseExpires, BackoffEnds,
         Select, LockJob, SkipLocked, Fetch, Fail, LeaseLost, WorkerDies
<1>. QED
  BY <1>1, <1>2, <1>3, <1>4, <1>5, <1>6

\* A safe message that has arrived stays safe.
LEMMA SafeLasts ==
  ASSUME Inv, [Next]_vars, NEW m \in Messages, m <= mailbox, Safe(m)
  PROVE  Safe(m)'
<1>1. m \in Nat /\ mailbox \in Nat
  BY Positions, StepStores
<1>2. CASE since' = since
  BY <1>2, StepStores DEF Safe, Conversation
<1>3. CASE since' = mailbox
  BY <1>1, <1>3 DEF Safe, Conversation
<1>. QED
  BY <1>2, <1>3, StepStores

\* What a drain has fetched is safe once it is persisted.
LEMMA PersistedIsSafe ==
  ASSUME Inv, [Next]_vars, NEW w \in Workers, Persist(w), NEW m \in Messages, m <= EndOf(w)
  PROVE  Safe(m)'
<1>1. CASE m \in got[w]
  <2>1. since' = since
    BY DEF Persist
  <2>2. Conversation => copies'[m] = 1
    BY <1>1, AppendStores DEF Persist, Inv
  <2>. QED
    BY <2>1, <2>2 DEF Safe, Conversation
<1>2. CASE m \notin got[w]
  <2>1. Safe(m)
    BY <1>2 DEF Persist, Inv, StartsAreSafe
  <2>2. m \in Nat /\ mailbox \in Nat /\ EndOf(w) \in Nat /\ EndOf(w) <= mailbox
    BY Positions DEF EndOf, Inv, TypeOK, BehindMailbox
  <2>. QED
    BY <2>1, <2>2, SafeLasts
<1>. QED
  BY <1>1, <1>2

-----------------------------------------------------------------------------
(* The positions of the rows and the drains *)

\* The cursor stays or becomes what a drain observed at its last page.
LEMMA CursorStep ==
  ASSUME Inv, [Next]_vars
  PROVE  \/ cursor' = cursor
         \/ \E w \in Workers : Persist(w) /\ cursor' = observed[w] /\ EndOf(w) = observed[w]
BY DEF Next, vars, jobRow, Drain, MessageArrives, ImportFetches, ImportStores, ImportDies, Enqueue,
       Reprocess, LeaseExpires, BackoffEnds, Select, LockJob, SkipLocked, Fetch, Persist, Fail,
       LeaseLost, WorkerDies, EndOf

\* A drain's base is forgotten or read from the cursor.
LEMMA BaseStep ==
  ASSUME Inv, [Next]_vars, NEW v \in Workers
  PROVE  base'[v] \in {base[v], 0, cursor}
<1>1. CASE UNCHANGED base
  BY <1>1
<1>2. ASSUME NEW w \in Workers, \E b \in {0, cursor} : base' = [base EXCEPT ![w] = b]
      PROVE  base'[v] \in {base[v], 0, cursor}
  BY <1>2 DEF Inv, TypeOK
<1>3. \/ UNCHANGED base
      \/ \E w \in Workers : \E b \in {0, cursor} : base' = [base EXCEPT ![w] = b]
  BY DEF Next, vars, drains, Drain, MessageArrives, ImportFetches, ImportStores, ImportDies, Enqueue,
       Reprocess, LeaseExpires, BackoffEnds, Select, LockJob, SkipLocked, Fetch, Persist, Fail,
       LeaseLost, WorkerDies, Forget
<1>. QED
  BY <1>1, <1>2, <1>3

\* Only a continuation job gets a page and a requested start.
LEMMA PageStep ==
  ASSUME Inv, [Next]_vars, NEW j \in Jobs
  PROVE  \/ page'[j] = page[j] /\ requested'[j] = requested[j]
         \/ \E w \in Workers :
              /\ Persist(w) /\ page'[j] = next[w] /\ EndOf(w) = next[w]
              /\ \/ requested'[j] = cursor
                 \/ /\ work[w] \in Jobs /\ requested[work[w]] # NoHistory
                    /\ requested'[j] = requested[work[w]]
<1>1. CASE UNCHANGED <<page, requested>>
  BY <1>1
<1>2. ASSUME NEW w \in Workers, Persist(w), ~UNCHANGED <<page, requested>>
      PROVE  \/ page'[j] = page[j] /\ requested'[j] = requested[j]
             \/ /\ page'[j] = next[w] /\ EndOf(w) = next[w]
                /\ \/ requested'[j] = cursor
                   \/ /\ work[w] \in Jobs /\ requested[work[w]] # NoHistory
                      /\ requested'[j] = requested[work[w]]
  <2>1. next[w] # 0
    BY <1>2 DEF Persist, CompleteJob
  <2>2. PICK k \in Jobs :
          /\ requested' = [requested EXCEPT ![k] =
               IF requested[work[w]] # NoHistory THEN requested[work[w]] ELSE cursor]
          /\ page' = [page EXCEPT ![k] = next[w]]
    BY <1>2, <2>1 DEF Persist, CompleteJob
  <2>3. work[w] \in Jobs
    BY <1>2 DEF Persist, Inv, Placed
  <2>. QED
    BY <2>1, <2>2, <2>3 DEF EndOf, Inv, TypeOK
<1>3. UNCHANGED <<page, requested>> \/ \E w \in Workers : Persist(w)
  BY DEF Next, vars, jobRow, Drain, MessageArrives, ImportFetches, ImportStores, ImportDies, Enqueue,
       Reprocess, LeaseExpires, BackoffEnds, Select, LockJob, SkipLocked, Fetch, Fail,
       LeaseLost, WorkerDies
<1>. QED
  BY <1>1, <1>2, <1>3

\* A drain's fetched pages stay, are dropped, or are those of this step.
LEMMA FetchStep ==
  ASSUME Inv, [Next]_vars, NEW v \in Workers
  PROVE  \/ observed'[v] = observed[v] /\ next'[v] = next[v] /\ got'[v] = got[v]
            /\ (step'[v] = "persisting" => step[v] = "persisting" /\ work'[v] = work[v])
         \/ observed'[v] = 0 /\ next'[v] = 0 /\ step'[v] = "idle"
         \/ /\ Fetch(v) /\ observed'[v] = mailbox /\ step'[v] = "persisting"
            /\ \E upto \in PageEnds(v) :
                 /\ got'[v] = StartOf(v) + 1 .. upto
                 /\ next'[v] = IF upto = mailbox THEN 0 ELSE upto
<1>1. CASE UNCHANGED drains
  BY <1>1 DEF drains
<1>2. ASSUME NEW w \in Workers, Forget(w)
      PROVE  \/ observed'[v] = observed[v] /\ next'[v] = next[v] /\ got'[v] = got[v]
                /\ (step'[v] = "persisting" => step[v] = "persisting" /\ work'[v] = work[v])
             \/ observed'[v] = 0 /\ next'[v] = 0 /\ step'[v] = "idle"
  BY <1>2 DEF Forget, Inv, TypeOK
<1>3. ASSUME NEW w \in Workers, Select(w) \/ LockJob(w) \/ SkipLocked(w)
      PROVE  /\ observed'[v] = observed[v] /\ next'[v] = next[v] /\ got'[v] = got[v]
             /\ (step'[v] = "persisting" => step[v] = "persisting" /\ work'[v] = work[v])
  BY <1>3 DEF Select, LockJob, SkipLocked, Inv, TypeOK
<1>4. ASSUME NEW w \in Workers, Fetch(w), w # v
      PROVE  /\ observed'[v] = observed[v] /\ next'[v] = next[v] /\ got'[v] = got[v]
             /\ (step'[v] = "persisting" => step[v] = "persisting" /\ work'[v] = work[v])
  BY <1>4 DEF Fetch, Inv, TypeOK
<1>5. CASE Fetch(v)
  <2>1. PICK upto \in PageEnds(v) :
          /\ got' = [got EXCEPT ![v] = StartOf(v) + 1 .. upto]
          /\ observed' = [observed EXCEPT ![v] = mailbox]
          /\ next' = [next EXCEPT ![v] = IF upto = mailbox THEN 0 ELSE upto]
    BY <1>5 DEF Fetch
  <2>2. step' = [step EXCEPT ![v] = "persisting"]
    BY <1>5 DEF Fetch
  <2>. QED
    BY <1>5, <2>1, <2>2 DEF Inv, TypeOK
<1>6. \/ UNCHANGED drains
      \/ \E w \in Workers : Forget(w) \/ Select(w) \/ LockJob(w) \/ SkipLocked(w) \/ Fetch(w)
  BY DEF Next, vars, Drain, MessageArrives, ImportFetches, ImportStores, ImportDies, Enqueue,
       Reprocess, LeaseExpires, BackoffEnds, Persist, Fail, LeaseLost, WorkerDies
<1>. QED
  BY <1>1, <1>2, <1>3, <1>4, <1>5, <1>6

\* Positions stay behind the mailbox.
LEMMA NextBehind == ASSUME Inv, [Next]_vars PROVE BehindMailbox'
<1>0. mailbox' \in Nat /\ mailbox \in Nat /\ mailbox' >= mailbox
  BY StepStores
<1>1. cursor' <= mailbox'
  <2>1. cursor' \in Nat /\ cursor' <= mailbox
    BY CursorStep, Positions DEF Inv, TypeOK, BehindMailbox
  <2>. QED
    BY <1>0, <2>1
<1>2. since' <= mailbox'
  <2>1. since' \in Nat /\ since' <= mailbox
    BY <1>0, StepStores, Positions DEF Inv, TypeOK, BehindMailbox
  <2>. QED
    BY <1>0, <2>1
<1>3. view' <= mailbox'
  <2>1. view' \in {view, 0, mailbox}
    BY DEF Next, vars, Drain, MessageArrives, ImportFetches, ImportStores, ImportDies, Enqueue,
         Reprocess, LeaseExpires, BackoffEnds, Select, LockJob, SkipLocked, Fetch, Persist, Fail,
         LeaseLost, WorkerDies
  <2>2. view' \in Nat /\ view' <= mailbox
    BY <1>0, <2>1, Positions DEF Inv, TypeOK, BehindMailbox
  <2>. QED
    BY <1>0, <2>2
<1>4. ASSUME NEW j \in Jobs
      PROVE  page'[j] <= mailbox' /\ (requested'[j] = NoHistory \/ requested'[j] <= mailbox')
  <2>1. page'[j] \in Nat /\ page'[j] <= mailbox
    BY PageStep, Positions DEF Inv, TypeOK, BehindMailbox
  <2>2. requested'[j] = NoHistory \/ (requested'[j] \in Nat /\ requested'[j] <= mailbox)
    BY PageStep, Positions DEF Inv, TypeOK, BehindMailbox
  <2>. QED
    BY <1>0, <2>1, <2>2
<1>5. ASSUME NEW v \in Workers
      PROVE  base'[v] <= mailbox' /\ observed'[v] <= mailbox' /\ next'[v] <= mailbox'
  <2>0. /\ base[v] \in Nat /\ base[v] <= mailbox /\ cursor \in Nat /\ cursor <= mailbox
        /\ observed[v] \in Nat /\ observed[v] <= mailbox /\ next[v] \in Nat /\ next[v] <= mailbox
    BY Positions DEF Inv, TypeOK, BehindMailbox
  <2>1. base'[v] \in Nat /\ base'[v] <= mailbox
    BY <1>0, <2>0, BaseStep
  <2>2. observed'[v] \in Nat /\ observed'[v] <= mailbox
    BY <1>0, <2>0, FetchStep
  <2>3. next'[v] \in Nat /\ next'[v] <= mailbox
    <3>1. CASE Fetch(v)
      <4>1. StartOf(v) \in Nat
        BY <3>1, StartType, Positions DEF Fetch
      <4>2. \A upto \in PageEnds(v) : upto \in Nat /\ upto <= mailbox
        BY <1>0, <4>1 DEF PageEnds
      <4>. QED
        BY <1>0, <2>0, <4>2, FetchStep
    <3>2. CASE ~Fetch(v)
      BY <1>0, <2>0, <3>2, FetchStep
    <3>. QED
      BY <3>1, <3>2
  <2>. QED
    BY <1>0, <2>1, <2>2, <2>3
<1>. QED
  BY <1>1, <1>2, <1>3, <1>4, <1>5 DEF BehindMailbox

\* Drains keep their jobs, and attempts stay within their budget.
LEMMA NextPlaced == ASSUME Inv, [Next]_vars PROVE Placed'
<1>1. ASSUME NEW v \in Workers, step'[v] # "idle" PROVE work'[v] \in Jobs
  <2>1. CASE UNCHANGED <<step, work>>
    BY <1>1, <2>1 DEF Inv, Placed
  <2>2. ASSUME NEW w \in Workers, Forget(w) PROVE work'[v] \in Jobs
    BY <1>1, <2>2 DEF Forget, Inv, TypeOK, Placed
  <2>3. ASSUME NEW w \in Workers, Select(w) \/ LockJob(w) \/ SkipLocked(w) \/ Fetch(w)
        PROVE  work'[v] \in Jobs
    BY <1>1, <2>3 DEF Select, LockJob, SkipLocked, Fetch, Inv, TypeOK, Placed
  <2>. QED
    BY <2>1, <2>2, <2>3
       DEF Next, vars, drains, Drain, MessageArrives, ImportFetches, ImportStores, ImportDies, Enqueue,
           Reprocess, LeaseExpires, BackoffEnds, Persist, Fail, LeaseLost, WorkerDies
<1>2. ASSUME NEW j \in Jobs PROVE raced' \/ attempts'[j] <= MaxAttempts
  <2>1. CASE UNCHANGED <<attempts, raced>>
    BY <2>1 DEF Inv, Placed
  <2>2. ASSUME NEW w \in Workers, LockJob(w), ~raced' PROVE attempts'[j] <= MaxAttempts
    <3>1. Claimable(work[w]) /\ ~raced /\ work[w] \in Jobs
      BY <2>2 DEF LockJob, Inv, Placed
    <3>2. attempts' = [attempts EXCEPT ![work[w]] = attempts[work[w]] + 1]
      BY <2>2 DEF LockJob
    <3>3. attempts[work[w]] + 1 <= MaxAttempts
      BY <3>1, MaxSyncAttemptsAssumption DEF Claimable, Inv, TypeOK
    <3>. QED
      BY <3>1, <3>2, <3>3 DEF Inv, TypeOK, Placed
  <2>3. ASSUME NEW k \in Jobs, Reprocess(k) PROVE raced' \/ attempts'[j] <= MaxAttempts
    BY <2>3, MaxSyncAttemptsAssumption DEF Reprocess, Inv, TypeOK, Placed
  <2>. QED
    BY <2>1, <2>2, <2>3
       DEF Next, vars, jobRow, Drain, MessageArrives, ImportFetches, ImportStores, ImportDies, Enqueue,
           LeaseExpires, BackoffEnds, Select, SkipLocked, Fetch, Persist, Fail,
           LeaseLost, WorkerDies
<1>. QED
  BY <1>1, <1>2 DEF Placed

\* Every position a drain may start from keeps only safe messages behind it.
LEMMA NextSafe == ASSUME Inv, [Next]_vars PROVE StartsAreSafe'
<1>0. mailbox \in Nat
  BY StepStores
<1>a. ASSUME NEW m \in Messages, NEW h \in Nat, h <= mailbox, m <= h, Safe(m) PROVE Safe(m)'
  <2>1. m \in Nat
    BY Positions
  <2>2. m <= mailbox
    BY <1>0, <1>a, <2>1
  <2>. QED
    BY <1>a, <2>2, SafeLasts
<1>b. cursor \in Nat /\ cursor <= mailbox
  BY Positions DEF Inv, TypeOK, BehindMailbox
<1>1. ASSUME NEW m \in Messages, m <= cursor' PROVE Safe(m)'
  <2>1. CASE cursor' = cursor
    BY <1>1, <1>a, <1>b, <2>1 DEF Inv, StartsAreSafe
  <2>2. CASE cursor' # cursor
    BY <1>1, <2>2, CursorStep, PersistedIsSafe
  <2>. QED
    BY <2>1, <2>2
<1>2. ASSUME NEW v \in Workers, NEW m \in Messages, m <= base'[v] PROVE Safe(m)'
  <2>0. m \in Nat /\ m # 0
    BY DEF Messages
  <2>1. CASE base'[v] = base[v]
    <3>1. base[v] \in Nat /\ base[v] <= mailbox
      BY Positions DEF Inv, TypeOK, BehindMailbox
    <3>. QED
      BY <1>2, <1>a, <2>1, <3>1 DEF Inv, StartsAreSafe
  <2>2. CASE base'[v] = 0
    BY <1>2, <2>0, <2>2
  <2>3. CASE base'[v] = cursor
    BY <1>2, <1>a, <1>b, <2>3 DEF Inv, StartsAreSafe
  <2>. QED
    BY <2>1, <2>2, <2>3, BaseStep
<1>3. ASSUME NEW j \in Jobs, NEW m \in Messages,
             m <= page'[j] \/ (requested'[j] # NoHistory /\ m <= requested'[j])
      PROVE  Safe(m)'
  <2>1. ASSUME NEW k \in Jobs, m <= page[k] PROVE Safe(m)'
    <3>1. page[k] \in Nat /\ page[k] <= mailbox
      BY Positions DEF Inv, TypeOK, BehindMailbox
    <3>. QED
      BY <1>a, <2>1, <3>1 DEF Inv, StartsAreSafe
  <2>2. ASSUME NEW k \in Jobs, requested[k] # NoHistory, m <= requested[k] PROVE Safe(m)'
    <3>1. requested[k] \in Nat /\ requested[k] <= mailbox
      BY <2>2, Positions DEF Inv, TypeOK, BehindMailbox
    <3>. QED
      BY <1>a, <2>2, <3>1 DEF Inv, StartsAreSafe
  <2>3. m <= cursor => Safe(m)'
    BY <1>a, <1>b DEF Inv, StartsAreSafe
  <2>4. \A w \in Workers : Persist(w) /\ m <= EndOf(w) => Safe(m)'
    BY PersistedIsSafe
  <2>. QED
    BY <1>3, <2>1, <2>2, <2>3, <2>4, PageStep
<1>4. ASSUME NEW v \in Workers, NEW m \in Messages,
             step'[v] = "persisting", m <= EndOf(v)', m \notin got'[v]
      PROVE  Safe(m)'
  <2>1. CASE Fetch(v)
    <3>0. step[v] = "fetching" /\ m \in Nat /\ m # 0
      BY <2>1, Positions DEF Fetch, Messages
    <3>1. StartOf(v) \in Nat /\ StartOf(v) <= mailbox /\ work[v] \in Jobs
      BY <3>0, StartType, Positions
    <3>2. PICK upto \in PageEnds(v) :
            got'[v] = StartOf(v) + 1 .. upto /\ next'[v] = IF upto = mailbox THEN 0 ELSE upto
      BY <2>1, <3>0, <1>4, FetchStep
    <3>3. upto \in Nat /\ observed'[v] = mailbox
      BY <1>0, <2>1, <3>0, <3>1, <1>4, FetchStep DEF PageEnds
    <3>4. EndOf(v)' = upto
      BY <1>0, <3>1, <3>2, <3>3 DEF EndOf, PageEnds
    <3>5. m <= StartOf(v)
      BY <1>4, <3>0, <3>1, <3>2, <3>3, <3>4
    <3>6. Safe(m)
      BY <3>1, <3>5 DEF StartOf, Inv, StartsAreSafe
    <3>. QED
      BY <1>a, <3>1, <3>5, <3>6
  <2>2. CASE ~Fetch(v)
    <3>1. /\ observed'[v] = observed[v] /\ next'[v] = next[v] /\ got'[v] = got[v]
          /\ step[v] = "persisting"
      BY <1>4, <2>2, FetchStep
    <3>2. EndOf(v)' = EndOf(v) /\ EndOf(v) \in Nat /\ EndOf(v) <= mailbox
      BY <3>1, Positions DEF EndOf, Inv, TypeOK, BehindMailbox
    <3>3. Safe(m)
      BY <1>4, <3>1, <3>2 DEF Inv, StartsAreSafe
    <3>. QED
      BY <1>a, <1>4, <3>2, <3>3
  <2>. QED
    BY <2>1, <2>2
<1>. QED
  BY <1>1, <1>2, <1>3, <1>4 DEF StartsAreSafe

-----------------------------------------------------------------------------
(* Leases *)

\* A lease becomes live only by a claim, which locks one job.
LEMMA LeaseStep ==
  ASSUME Inv, [Next]_vars, NEW j \in Jobs, Live(j)'
  PROVE  \/ Live(j) /\ owner'[j] = owner[j]
         \/ \E w \in Workers : LockJob(w) /\ work[w] = j
<1>. USE DEF Live
<1>1. CASE UNCHANGED <<status, expired, owner>>
  BY <1>1
<1>2. CASE Enqueue \/ \E k \in Jobs : Reprocess(k) \/ LeaseExpires(k) \/ BackoffEnds(k)
  BY <1>2 DEF Enqueue, Reprocess, LeaseExpires, BackoffEnds, Inv, TypeOK
<1>3. ASSUME NEW w \in Workers, Select(w) PROVE Live(j) /\ owner'[j] = owner[j]
  BY <1>3 DEF Select, Exhausted, Inv, TypeOK
<1>4. ASSUME NEW w \in Workers, LockJob(w), work[w] # j PROVE Live(j) /\ owner'[j] = owner[j]
  BY <1>4 DEF LockJob, Inv, TypeOK
<1>5. ASSUME NEW w \in Workers, Persist(w) PROVE Live(j) /\ owner'[j] = owner[j]
  <2>1. work[w] \in Jobs
    BY <1>5 DEF Persist, Inv, Placed
  <2>2. expired' = expired /\ owner' = [owner EXCEPT ![work[w]] = NoWorker]
    BY <1>5 DEF Persist, CompleteJob
  <2>3. \/ status' = [status EXCEPT ![work[w]] = "completed"]
        \/ \E k \in Jobs : status' = [status EXCEPT ![work[w]] = "completed", ![k] = "pending"]
    BY <1>5 DEF Persist, CompleteJob
  <2>4. status'[j] = "running" => j # work[w] /\ status[j] = "running"
    BY <2>1, <2>3 DEF Inv, TypeOK
  <2>. QED
    BY <2>2, <2>4 DEF Inv, TypeOK
<1>6. ASSUME NEW w \in Workers, Fail(w) PROVE Live(j) /\ owner'[j] = owner[j]
  <2>1. PICK x \in {"dead", "failed"} : status' = [status EXCEPT ![work[w]] = x]
    BY <1>6 DEF Fail
  <2>2. expired' = expired /\ owner' = [owner EXCEPT ![work[w]] = NoWorker]
    BY <1>6 DEF Fail
  <2>3. status'[j] = "running" => j # work[w] /\ status[j] = "running"
    BY <2>1 DEF Inv, TypeOK
  <2>. QED
    BY <2>2, <2>3 DEF Inv, TypeOK
<1>. QED
  BY <1>1, <1>2, <1>3, <1>4, <1>5, <1>6
     DEF Next, vars, jobRow, Drain, MessageArrives, ImportFetches, ImportStores, ImportDies,
         SkipLocked, Fetch, LeaseLost, WorkerDies

\* Once a claim has raced it stays known.
LEMMA RacedStays == ASSUME Inv, [Next]_vars, raced PROVE raced'
BY DEF Next, vars, Drain, MessageArrives, ImportFetches, ImportStores, ImportDies, Enqueue,
       Reprocess, LeaseExpires, BackoffEnds, Select, LockJob, SkipLocked, Fetch, Persist, Fail,
       LeaseLost, WorkerDies

\* A claim that does not race finds no live lease.
LEMMA NextOneLease == ASSUME Inv, [Next]_vars PROVE OneLiveLease'
<1>. SUFFICES ASSUME ~raced', NEW j \in Jobs, NEW k \in Jobs, Live(j)', Live(k)' PROVE j = k
  BY DEF OneLiveLease
<1>0. ~raced
  BY RacedStays
<1>1. ASSUME NEW w \in Workers, LockJob(w) PROVE \A i \in Jobs : ~Live(i)
  BY <1>1 DEF LockJob, Claimable
<1>2. CASE \E w \in Workers : LockJob(w)
  <2>1. PICK w \in Workers : LockJob(w)
    BY <1>2
  <2>2. ASSUME NEW i \in Jobs, i # work[w] PROVE ~Live(i)'
    BY <1>1, <2>1, <2>2 DEF LockJob, Live, Inv, TypeOK
  <2>. QED
    BY <2>2
<1>3. CASE ~\E w \in Workers : LockJob(w)
  BY <1>0, <1>3, LeaseStep DEF Inv, OneLiveLease
<1>. QED
  BY <1>2, <1>3

\* While a drain holds the only live lease nobody else moves the cursor.
LEMMA NextCurrent == ASSUME Inv, [Next]_vars PROVE HolderIsCurrent'
<1>. SUFFICES ASSUME NEW v \in Workers, step'[v] = "persisting", HoldsLease(v)', ~raced'
              PROVE  cursor' <= observed'[v]
  BY DEF HolderIsCurrent
<1>0. ~raced /\ mailbox \in Nat /\ cursor \in Nat /\ cursor <= mailbox
  BY RacedStays, StepStores, Positions DEF Inv, TypeOK, BehindMailbox
<1>1. CASE Fetch(v)
  <2>1. observed'[v] = mailbox
    BY <1>1, FetchStep DEF Fetch
  <2>2. cursor' = cursor
    BY <1>1 DEF Fetch
  <2>. QED
    BY <1>0, <2>1, <2>2
<1>2. CASE ~Fetch(v)
  <2>1. observed'[v] = observed[v] /\ step[v] = "persisting" /\ work'[v] = work[v]
    BY <1>2, FetchStep
  <2>2. work[v] \in Jobs /\ Live(work[v])' /\ owner'[work[v]] = v
    BY <2>1 DEF HoldsLease, Live, Inv, Placed
  <2>3. ASSUME NEW w \in Workers, LockJob(w) PROVE work[w] # work[v]
    <3>1. w # v
      BY <2>1, <2>3 DEF LockJob
    <3>2. work[w] \in Jobs /\ owner'[work[w]] = w
      BY <2>3 DEF LockJob, Inv, TypeOK, Placed
    <3>. QED
      BY <2>2, <3>1, <3>2
  <2>4. Live(work[v]) /\ owner[work[v]] = v
    <3>1. PICK j \in Jobs : j = work[v]
      BY <2>2
    <3>2. Live(j)' /\ owner'[j] = v
      BY <2>1, <2>2, <3>1 DEF Live
    <3>3. Live(j) /\ owner'[j] = owner[j]
      BY <2>3, <3>1, <3>2, LeaseStep
    <3>. QED
      BY <3>1, <3>2, <3>3
  <2>5. cursor <= observed[v]
    BY <1>0, <2>1, <2>4 DEF Inv, HolderIsCurrent, HoldsLease, Live
  <2>6. ASSUME NEW w \in Workers, Persist(w) PROVE FALSE
    <3>1. work[w] \in Jobs /\ Live(work[w]) /\ owner[work[w]] = w
      BY <2>6 DEF Persist, HoldsLease, Live, Inv, Placed
    <3>2. work[w] = work[v]
      BY <1>0, <2>2, <2>4, <3>1 DEF Inv, OneLiveLease
    <3>3. w = v
      BY <2>4, <3>1, <3>2
    <3>. QED
      BY <2>6, <3>3 DEF Persist, Forget, Inv, TypeOK
  <2>. QED
    BY <2>1, <2>5, <2>6, CursorStep
<1>. QED
  BY <1>1, <1>2

-----------------------------------------------------------------------------
(* The theorems *)

\* The invariant holds in every reachable state, for any number of drains,
\* jobs and messages, with lost leases, pages, reprocessed jobs and late claims.
THEOREM SyncInvariance == Spec => []Inv
<1>1. Init => Inv
  <2>. SUFFICES ASSUME Init PROVE Inv
    OBVIOUS
  <2>. USE Positions DEF Init, NothingImported
  <2>1. TypeOK
    <3>1. 0 \in 0 .. MaxReprocess
      BY MaxReprocessAssumption
    <3>2. raced \in BOOLEAN
      BY Zenon
    <3>. QED
      BY <3>1, <3>2 DEF TypeOK, SyncJobStatus
  <2>2. BehindMailbox /\ Placed
    BY MaxSyncAttemptsAssumption DEF BehindMailbox, Placed
  <2>3. StartsAreSafe
    BY DEF StartsAreSafe, Safe, Conversation
  <2>4. StoredOnce /\ OneLiveLease /\ HolderIsCurrent
    BY DEF StoredOnce, OneLiveLease, HolderIsCurrent, Live
  <2>. QED
    BY <2>1, <2>2, <2>3, <2>4 DEF Inv
<1>2. Inv /\ [Next]_vars => Inv'
  <2>. SUFFICES ASSUME Inv, [Next]_vars PROVE Inv'
    OBVIOUS
  <2>1. TypeOK' /\ BehindMailbox' /\ Placed' /\ StartsAreSafe'
    BY NextType, NextBehind, NextPlaced, NextSafe
  <2>2. StoredOnce'
    BY StepStores DEF StoredOnce
  <2>. QED
    BY <2>1, <2>2, NextOneLease, NextCurrent DEF Inv
<1>. QED
  BY <1>1, <1>2, PTL DEF Spec

\* Whatever the committed cursor covers of a conversation is stored, each
\* message once, and without a raced claim one lease is live at a time.
THEOREM SyncIsSoundHolds == Spec => []SyncIsSound
<1>1. Inv => SyncIsSound
  BY DEF Inv, SyncIsSound, StartsAreSafe, Safe, NothingSkippedSince
<1>. QED
  BY <1>1, SyncInvariance, PTL

\* Unless a claim raced, the committed cursor never moves back.
THEOREM CursorAdvancesHolds == Spec => CursorAdvances
<1>1. Inv /\ [Next]_vars => [raced' \/ cursor' >= cursor]_vars
  <2>. SUFFICES ASSUME Inv, [Next]_vars, ~raced' PROVE cursor' >= cursor
    OBVIOUS
  <2>1. ~raced /\ cursor \in Nat
    BY RacedStays, Positions DEF Inv, TypeOK
  <2>2. ASSUME NEW w \in Workers, Persist(w) PROVE cursor <= observed[w] /\ observed[w] \in Nat
    BY <2>1, <2>2, Positions DEF Persist, Inv, TypeOK, HolderIsCurrent
  <2>. QED
    BY <2>1, <2>2, CursorStep
<1>. QED
  BY <1>1, SyncInvariance, PTL DEF Spec, CursorAdvances
=============================================================================
