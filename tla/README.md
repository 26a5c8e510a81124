# A TLA+ model of the Case Resolution Copilot

The program takes a customer case from intake to an executed resolution. A case
arrives by webhook or from a connected inbox; an analysis under *governed
policies* writes a *decision brief*; a human *reviews* it; an approval
*materializes controlled actions* and publishes a response draft; operators
*execute* the actions against external targets and *deliver* the draft to the
mail provider. This directory models those parts and the workspace around them,
checks them with TLC and, except for liveness and the paging of lists, proves what is
checked with TLAPS. Paths below are relative to `backend/app/`.

## 1. Inventory

| Component | State | Operations | Hard behaviour | What makes it correct |
|---|---|---|---|---|
| Controlled actions (`persistence/actions`, `services/action_service.py`) | action row (status, version, attempt count), attempt rows, reconciliation rows, receipt | execute, retry_safe, reconcile, record_manual_outcome, escalate, get, list (both sweep) | a lease is committed, an irreversible call is made outside any transaction, the outcome is stored later; crash, timeout, late answer, two operators | one attempt at a time, one change at the target, `failed_safe` only with proof, closed stays closed, nothing stays running |
| Action gateways (`integrations/*action_gateway.py`) | idempotency keys at the target | execute, reconcile | timeouts and lost answers | what the error says about the side effect is true |
| Case reviews (`persistence/reviews`, `services/review_service.py`) | review row, immutable snapshot, reservation (30 min), decision | submit, get, list, reserve, decide | competing reviewers, expiry, rows read before the lock, staleness from five directions | one hold, one decision, an approval only for what was analysed |
| Decision briefs and the generation lease (`services/decision_brief_service.py`, `persistence/decision_generation_repository.py`) | proposal versions; lease row: owner, fence, attempts, expiry | look up, acquire, analyse, persist, release | the analysis runs between two transactions; takeover, late completion, moving input, two retry budgets | one accepted brief per input, written for the case as it is |
| Analysis (`analysis`, `orchestrators/langgraph_orchestrator.py`, `security/review_authority.py`) | checkpoint chain | analyse, word, verify, assess the required role | a model may word the result anew, or fail | an approval is offered only for what the records prove |
| Cases (`persistence/case_persistence`, `services/case_service.py`, `services/case_workspace_query.py`) | version, status, messages, evidence, drafts | receive, assign, change status, add message or evidence, save draft; offer commands | compare-and-set commands against locking transactions | every change moves the version; what is offered is accepted |
| Inbox synchronisation and imports (`services/inbox/sync.py`, `imports.py`, `persistence/inbox`) | jobs, checkpoint, conversations, messages | enqueue, claim, fetch, persist, fail, reprocess; import a thread | worker leases, continuation pages, claims that rank on a snapshot, an import beside a sync | nothing skipped, nothing doubled, the cursor advances, the queue drains |
| Inbox draft delivery (`services/inbox/draft_delivery.py`, `persistence/inbox/drafts.py`) | delivery row with a 60 s lease | deliver, reconcile | provider timeout after the write | at most one draft, and what is said of it is true |
| Connections (`services/inbox/authorization.py`, `connection_controls.py`, `persistence/connection_repository.py`) | sign-in sessions, encrypted credentials, runtime connection with health | sign in, pause, resume, disconnect; synchronise, deactivate, test | provider calls between transactions | what a connection shows is what it is |
| Policy governance (`services/policy_service.py`, `persistence/policies`) | policies, versions, effective windows, citations | create, draft, retry, submit, publish, schedule, retire, search, bind | conflict check before the write, time | undivided authority, approved content immutable, citations were in force |
| Policy indexing and hybrid retrieval (`services/policy_indexing.py`, `persistence/policy_indexing`, `retrieval/v2`) | jobs, profile counts, embeddings | enqueue, claim, store page, fail, reprocess, search | leases, several pages per job, a search in two transactions | complete means complete |
| Members, invitations, settings (`persistence/identity_repository.py`, `settings_repository.py`) | memberships, invitations, versioned sections | update, invite, accept, revoke, configure | administrators against each other; the identity provider inside a transaction | an administrator remains, invitations settle, no unseen overwrite |
| Listings (`persistence/case_persistence/queries.py`) | none | open, next page, previous page | ties, rows that move | every row that stayed is shown |
| Notifications (`services/notification_projector.py`) | notifications, outbox | project, read | concurrent projections | told once |
| Background jobs (`async_jobs`) | none of their own | run the drains | duplicates and restarts | the drains bear it |
| Audit export, quality, data governance, evaluation, frontend, infrastructure | none, or read-only | | | |

The parts interact through rows only. A command is one or more SQL transactions
(`Database.session()`, READ COMMITTED, rolled back on any exception); rows are
guarded by `SELECT ... FOR UPDATE`, by compare-and-set on a version column, by a
unique key, or, in the places the model is most interested in, by nothing.

- A review binds a *case version*; every command on the case, including an
  imported message and the completion of an action, moves that version and
  makes the review stale.
- A decision writes the review, the proposal and the case, and an approval
  creates the actions and the ready draft, in one transaction.
- An action may start while its review's case version, proposal version and
  authorization still stand and its connection is eligible; a draft may be
  delivered while its approval still matches the case.
- Policies reach a case as cited evidence; a policy that changes makes the
  evidence, and with it brief and review, stale.

The hazards of the code, line by line, with the properties that cover them, are
in `PROJECT.json`.

## 2. Modules

| Module | What it is |
|---|---|
| `ControlledActions`, `MCControlledActions`, `ControlledActionsProofs` | the actions of one approved review, operators, gateway, target; symmetry; inductive invariant and theorems |
| `CaseReviews`, `MCCaseReviews`, `CaseReviewsProofs` | one case: briefs, reviews, holds, decisions, and all that moves underneath; symmetry; inductive invariant and theorems |
| `DraftPromise` | abstract: what draft delivery promises a specialist |
| `DraftDelivery`, `MCDraftDelivery`, `DraftDeliveryProofs` | the deliveries of one case's response draft; refines `DraftPromise`; invariant, theorems, step simulation |
| `DecisionGeneration`, `DecisionGenerationProofs` | the generation lease around the analysis of one case; its proofs |
| `InboxSync`, `InboxSyncProofs` | sync jobs, cursor and thread import of one connected inbox; its proofs |
| `PolicyGovernance`, `MCPolicies`, `PolicyGovernanceProofs` | policies, versions, activation, time, citation; instance of a run; its proofs |
| `PolicyIndexing`, `MCPolicyIndexing`, `PolicyIndexingProofs` | index jobs, pages, profile, hybrid search; instance of a run; its proofs |
| `Organizations` | members, invitations, settings |
| `Connections` | inbox sign-ins and credentials; the runtime connection |
| `CaseWork` | the commands on one case and the commands its workspace offers |
| `DecisionEngine` | the governed analysis, its wording, its verification, who may approve |
| `Listings` | keyset paging |
| `Notifications` | projection of alerts |
| `MCWorkspace`, `WorkspaceProofs` | composes the last six: parts that share no row with one another; an invariant per part |

### What counts as one step

A transaction that locks the rows it decides on before it reads them is one step:
its locks are held until the commit, so it is equivalent to its execution at one
instant. A command that is refused raises, the transaction rolls back and
nothing changes: it has no step, or only the step that ends its request. Where a
transaction reads a row *without* a lock and uses what it read after other
transactions may have committed, the read is a step of its own and what was read is
part of the state. A call to a provider, a target or a model is a step, or several,
between two transactions. A database deadlock aborts one of the two, which is again
no step.

SQLAlchemy's session returns an object it already holds *with its old
attributes* when the row is selected again, locked or not, unless
`populate_existing` is given; it holds objects weakly, so this matters exactly
where the code keeps a reference. `append_message` and the detail read with its
sweep do; the model follows both.

A lease is a pair of a status and a flag that it has expired; the expiry is a step
that may come at any moment. Version columns are numbers where two tables compare
them, and otherwise the set of those whose last read is still current. A payload is
a model value; a fingerprint is the value it is taken of.

### ControlledActions

Each variable is a column or the memory of a command (declared with its column
in the module). `call[o]` is an operator's command inside the server with
the lease it carries; `requests` are writes in the network; `changes[a]`
counts the real changes the target made. `current[a]` stands for the version
column: it holds the operators whose last read is still the stored version, which is
all that `expected_version` compares.

| Action | Code |
|---|---|
| `Get`, `List` | `queries.get/list` with `_reconcile_abandoned` |
| `Execute`, `RetrySafe` | `prepare_execution` |
| `GatewayUnreachable`, `GatewaySend`, `GatewayUnconfirmed` | the adapter: not attempted; sent; no usable confirmation |
| `TargetAccepts`, `TargetRefuses`, `RequestLost` | the target, by its contract: the idempotency key is looked up first |
| `FinishExecutionSuccess`, `FinishExecutionError`, `FinishTooLate` | `finish_execution_success/_error` |
| `PrepareReconciliation`, `GatewayReconcile`, `FinishReconciliation` | the check of the target |
| `RecordManualOutcome`, `Escalate` | the human's recovery commands |
| `AttemptAges` | five minutes pass (`ABANDONED_ACTION_MINUTES`) |
| `Crash` | the process dies or the last transaction fails, at any stage |
| `CaseCommand`, `ApprovalLapses`, `ConnectionChanges` | the rest of the system |

`LateWrites` is the one assumption about the target: whether a write that was sent
earlier may still arrive after the target answered "absent for good". The run
explores both kinds of target. The safety of the rows does not depend on it; the
meaning of `failed_safe` does, and `FailedSafeIsUnchanged` claims it for targets whose
terminal absence covers such writes.

### CaseReviews

`review`, `hold`, `decisions` and `brief` are indexed by the version of the one
proposal a case has: a review is unique per proposal version. `policy` is
a number that moves on whenever the applicable policies change; `reviewers` are
the members whose role satisfies the required one; `seen[m]` is the review
version the member's screen would send as `expected_version`.

| Action | Code |
|---|---|
| `PrepareGeneration`, `PersistChecks`, `PersistWrites` | `prepare_generation`; unlocked checks and writes of `persist_generation` / `create_or_get` |
| `BeginSubmit`, `Submit` | `ReviewService.submit`, then the repository under the case lock |
| `OpenReview`, `GetReview` | `get`: unlocked load of the review, then the sweep of its hold |
| `ListReviews` | `list` with the sweep of all expired holds |
| `BeginReserve`, `Reserve` | unlocked checks of `ReviewService.reserve`, then the repository under the review lock |
| `Decide` | `decide` with freshness, hold, role and rules under locks; publishes the draft and materializes the actions in the same transaction |
| `HoldExpires` | 30 minutes pass |
| `CaseCommand` | every command through `_update_case` |
| `ImportReadsCase`, `ImportAppends` | `append_message` of the inbox |
| `ChangeRules`, `ChangePolicy`, `DemoteReviewer` | settings, policies, roles |
| `GiveUp` | refusal, exception or crash between an unlocked read and its use |

Simplifications, all on the permissive side unless said otherwise: policy
evidence is compared as a whole; a brief that needs information is not compared
with the policies, although some of its evidence may be; the further reasons to
refuse an approval (blocking risks, missing evidence) are in `DecisionEngine`
and only make `Decide` rarer. A member has one transaction open at a time.
`HoldExpires` makes one timing assumption: a transaction that loaded a review
before a hold was placed is over when that hold, 30 minutes later, runs out.
`HoldsAreSound` would fail without it.

### DraftDelivery and DraftPromise

One row per version of the response draft, keyed as `draft_delivery_key` does.
`deliver` is `Deliver` (authorization, row and lease), `CreateReplyDraft` (the call),
then what Gmail does with the request (`GmailCreates`, `GmailRefuses`, or `NoAnswer`
while the request is still on the wire) and `Report`. `reconcile` is `Reconcile`,
`FindDraft` and `SettleCheck`. `SaveDraft`, `ApproveReview` and `CaseChanges` move
the case underneath, `OwnerTakesDraft` removes the draft from the mailbox,
`LeaseExpires`, `CommandDies` and `ReconcileDies` are the faults. The deterministic
provider returns the same draft for the same key; Gmail does not.

`DraftPromise` knows nothing of rows, leases or commands: it tells the specialist
*nothing*, *uncertain*, *failed safe* or *completed* about each version, and allows one
draft. `DraftDelivery` maps its statuses onto these four (`Told`) and implements it
(`KeepsPromise`).

### DecisionGeneration

An input is a snapshot of the case and its policies together with a retry number.
A request is `Lookup`, `Acquire` (insert or take over: fence and attempt count up),
`Analyze`, `Persist` (brief and completed lease in one transaction, if snapshot and
lease still stand) and after an error `Release`; `Crash` at any point leaves the
lease to expire. `InputsChange` moves the case on. `complete` and `fail` compare
owner and fence but not the expiry, and so does the model.

### InboxSync

A message is its position in the mailbox; a history id is how many messages there
were. A claim is two steps (`Select`, `LockJob`): `claim_statement` ranks in a
subquery on its snapshot and the lock rechecks only the outer condition, so a job
that stopped being eligible may still be leased; the model marks this (`raced`), and
two properties are claimed up to it. `Fetch` reads pages within the budget, `Persist`
stores messages of imported threads, completes the job, leaves a continuation and
commits the cursor on the last page, all in one transaction. `ImportFetches` and
`ImportStores` are the two halves of an import.

### PolicyGovernance

A command is read (`Begin...`) and written (`SubmitReview`, `ActivateVersion`, ...) in
two steps; the compare-and-set on the policy's counters is modelled by ending every
command that read the policy before (`Ends`). `BeginActivate` looks for conflicts
with *other* policies, whose counters it does not compare: `skewed` remembers that an
activation was written after another one it had not seen. `Search` and
`BindEvidence` are the two transactions of a citation. Windows are intervals of a small
clock that `Tick` moves; all versions compete for the same decision, the case in
which authority can be divided.

### PolicyIndexing

One job per version. A drain enqueues what is missing, claims, embeds a page outside any
transaction and stores it under owner, attempt and expiry (`LeasedJob`); a page that is
not the last puts the job back to pending. `RefreshProfileCounts` is part of each
operation that calls it. A search inspects its scope (`InspectScope`) and ranks in a
second transaction (`RankCandidates`) that checks completeness again.

### The workspace modules

`Organizations`: a request authenticates in one transaction and acts in a later one;
what serialises commands is the lock on the organization row, shared by inserts that
reference it (`shares`). An invitation is inserted, sent by the identity provider while
its transaction is open, then committed or compensated. `Connections`: each inbox
command calls the provider between two transactions; `synchronize_runtime` reads
without a lock. `CaseWork`: a client sends the version it read, the service checks on
an unlocked read, a conditional `UPDATE` decides; `AvailableCommands` is the
projection the workspace shows. `DecisionEngine`: every input that tells the checks of
the four categories apart goes through the analysis, one of the wordings a model
may return, the verification of the checkpoint chain and the approval rules.
`Listings`: positions are tuples compared entry by entry, for the three orders of the
case queue and the two of the other lists. `Notifications`: two projections insert under
a unique key while recipients read.

## 3. Runs

Every bound is a constant (`Max...`, `Authors`, `Demotable`, ...) that appears in guards
only.

| Run | Instance | Distinct states | Shows |
|---|---|---|---|
| `controlled_actions` | 1 action, 2 operators, 2 attempts, both kinds of target | 439,983 | leases are exclusive; the target changes at most once and completions have evidence; `failed_safe` means unchanged where the target keeps its promise; no attempt starts after a closure; every change moves the version |
| `sibling_actions` | 2 actions of a review, 1 operator, 1 attempt, fair | 193,164 | one completion blocks all actions of the review; nothing stays running |
| `case_reviews` | 2 members, 2 proposals, case commands to version 3, 1 reservation per review, 2 policy states, 2 versions of the rules | 2,779,958 | the proposal shows its review; one live review and the case waits for it; an approval sees nothing new |
| `review_holds` | 3 members: an author, 2 competing reviewers of whom one may lose the role; 2 holds per review, 1 imported message, fair | 613,926 | one hold, one decision, final stays final; no review stays reserved |
| `draft_delivery` | 2 deliverers, 1 reconciler, 2 versions, 2 texts, 2 attempts, both gateways | 471,504 | at most one provider draft per version; what a delivery says is true; `DraftDelivery` implements `DraftPromise` |
| `decision_generation` | 2 requests, 2 snapshots, 1 retry, 2 attempts, fair | 185,248 | one accepted brief per input, by the lease's owner; written for the present case; every generation settles or is exhausted |
| `inbox_sync` | 2 workers, 2 jobs, 2 messages, 2 attempts, 1 reprocessing, 1 import, fair | 408,208 | leases and jobs agree, nothing stored twice or skipped after the import; the cursor advances; the queue drains |
| `policies` | 2 policies with 3 and 1 versions, 2 editors, 2 clock ticks | 768,375 | undivided authority up to the skew described below; approved content immutable; citations had authority |
| `policy_indexing` | 2 drains, 2 versions with 2 and 1 clauses, pages of 1, 2 attempts, fair | 68,392 | complete means complete; only a lease's holder writes; a search misses nothing; a version is indexed or out of attempts |
| `workspace` | the parts of `MCWorkspace`, one per behaviour | 615,089 | an administrator remains; invitations settle; settings build on what was seen; connections show the truth; offered commands are accepted and fit; approvals are earned; lists are walked whole; told once |
| `message_unseen` | 2 members, 1 import | violation | see below |
| `nothing_skipped` | 1 import beside a sync | violation | see below |

Why the bounds suffice. Two operators, workers, drains or editors make every
overlap of two commands; a second attempt makes every late answer to a first
one; a third would only meet the same two leases. Two proposal versions make
an older review next to a newer brief, and two submissions of the same case
with commands before, between and after them. Two policy states and two versions of the
rules make every change before, between and after the checks; a reservation at
review version 3 is one made after an earlier hold expired. Two pages per job and one page
per lease make a job that comes back to the queue. Three versions of one policy are a
current, a scheduled and a draft one. Submissions and imports are bounded by the proposals
and the messages, not by the case version. The safety properties, but for
`ListIsWalkedWhole`, do not rest on these bounds: the theorems of section 4 hold for every
larger instance.

`MCWorkspace` puts parts into one run that share no row: `part` is chosen initially and
kept, so the states are the sum of the parts', not their product, and every part is
explored as it would be alone.

Deadlock is checked for the actions and for policy indexing. In the other modules the
program may really stop: a completed case at the last version without a review,
an exhausted generation or a list whose last page is shown offers nothing to do.

### Fairness

- `RunningEnds`: server threads make progress, time passes, and somebody opens the
  action queue again and again (weak fairness). No operator has to issue a command
  and the target owes no answer.
- `HoldEnds`: transactions end, time passes (weak), and somebody opens the review queue
  again and again (strong, because the model lets a member have one transaction at a
  time and all may be busy at times; a browser opening the queue is not held up by that).
- `SettledOrExhausted`: leases expire, a request that has the lease ends in some way
  (weak), and a refused user asks again (strong on `Acquire`, which another request's
  live lease disables at times).
- `QueueDrains`: the scheduled drain (`celery_app.py`) runs, and lease and back-off end
  (weak). Nothing is assumed of the users.
- `IndexedOrOutOfAttempts`: the drain enqueues and works its page off (weak), claims
  (strong, since the other drain holds jobs at times), and leases and back-offs end (weak).

The first two are real conditions of the code: the sweeps run inside reads and no background
job performs them.

### Where code and documents disagree

| Run | The document | The code |
|---|---|---|
| `message_unseen` | "stale reviews blocked after new messages" (`docs/backend/CONNECTED_INBOX_ARCHITECTURE.md:584`, `:487`) | the import counts the case version up from an unlocked read, so a submission in between leaves the review current |
| `nothing_skipped` | "The committed cursor advances only in the same transaction that persists all normalized messages from that bounded page." (`:253-254`) | an import fetches the thread before it takes its lock; a sync that commits in between skips the thread as unknown and advances the cursor past a message nobody stored |

Further observations made while modelling. They are in the model unless marked (n), and the
properties are worded so that they hold with them:

- Actions. Escalating a `failed_safe` action leaves `recovery_required` without the
  promised next step (`ACTIONS_AND_CONNECTIONS.md:70`): both commands need an unknown newest
  attempt. A check that died blocks all later checks (`:69`), because only attempts are
  abandoned. A check that ends late writes its status over a manual `completed`
  (`:101`); no attempt can follow, since the case version moved.
- Reviews. Freshness is checked before the lock and not again, so a stale snapshot can be
  reserved (`REVIEWS.md:104`); the decision checks it again.
- Drafts. A reconciliation may take another delivery's draft of the same text for its
  own (`_matching_receipt`).
- Inbox. Two claims that ranked on the same snapshot may hold two live leases of a connection
  and let the cursor step back (`sync_claim.py`).
- Policies. The conflict check reads other policies whose counters it does not compare,
  so two activations may divide authority (`POLICY_GOVERNANCE.md:46-49`); publishing while a
  later version is scheduled fails on a CHECK constraint (`:30-33`); after a scheduled
  replacement's date both versions are in force; a scheduled version that is not the current
  one cannot be cancelled.
- Indexing. A page that is not the last puts the job back to pending and each claim counts
  an attempt; a job that has used them up stays pending and is never claimed
  (`job_results.py:147`, against `GOVERNED_RAG_V2.md:234`).
- Members. Two pending invitations for one address are possible; a lost provider answer leaves
  a sign-in invitation behind; two overlapping `create_invitation` may deadlock, and one is
  compensated; a reactivated member who joined another organization in between is ambiguous (n).
- Connections. A disconnect racing a reconnect deletes a grant it did not revoke and still
  reports revocation; two first sign-ins create two inbox connections; `synchronize_runtime`
  may give a version out twice; a credential that could not be stored is not revoked
  (`CONNECTED_INBOX_ARCHITECTURE.md:343-344`); resuming does not check the credential again.
- Cases. A redelivered intake event is refused once evidence was added (n); no transition
  leaves `completed` although messages advise to reopen; an escalated decision leaves the case
  in `needs_review` with nothing offered.
- Lists. Going back to a page whose rows all moved shows an empty page without cursors.
- Notifications. An SLA alert's key contains the case version, so each change alerts again (n);
  a key inserted by a concurrent projection rolls back the whole projection.

## 4. Proofs

The theorems hold for every value of the constants that satisfies the named assumptions,
which TLC evaluates on the runs. The assumptions say what kind of thing a constant is: a
bound is a number, positive where nothing could happen otherwise; `NoAction`, `NoMember`,
`Nobody`, `None` are none of the things they stand in for; an organization has a
founder among its people; the set of policies is finite; an effective window ends after it
begins; a version has a number of clauses. None limits the number of actors, except that
`LiveReviewIsSole` assumes that no inbox import happens. Each inductive invariant was
checked by TLC on the run's instance before it was proved.

`ControlledActionsProofs`. The inductive invariant `Inv` is `TypeOK`, `Exclusion` (one
running attempt, which is the newest; a check excludes attempts; leases agree with rows),
`ChangeIsAccounted` (one change, receipts final, completion evidenced) and two parts no run
needs by name: no check is running once there is a receipt (otherwise its end could
overwrite a completed action that has one), and the case has left the snapshot's version
once any action was completed. `ChangeIsAccounted` is not inductive without `Exclusion`:
`finish_reconciliation` does not look at the action, so what protects the receipt is that no
attempt can have run while the check did. `ClosedNeverReattempted` and
`CompletionBlocksSiblings` follow from the part about the case: a completion moves the
version that `Blocked` compares. `FailedSafeIsUnchanged` and `AttemptsStartClean` need a
second invariant, `CleanInv`, about writes the rows know nothing of: an action that may be
attempted has had no effect, and neither has one whose call is *about to* store a safe
failure or a terminal absence (`SafeIsQuiet`); while an attempt runs every outstanding write is
its own (`OnlyTheLatestWrites`). One lemma carries it over all steps but the start of
an attempt: such a step makes no new writer and lets no status become safe unless the action is
quiet (`MovesOn`, `QuietLasts`). `ChangeMovesVersion` is proved action by action.

`CaseReviewsProofs`. The inductive invariant is `TypeOK`, `HoldsAreSound` (hold and status
agree, decided once, a loaded row stands), `ProposalShowsReview` and `ChecksStand` (what the
unlocked checks before a reservation or submission saw that can never become untrue). The
part about loaded rows carries the others across `GetReview`, which writes a row it
loaded earlier: if the hold it sweeps has expired, the loaded row is the stored one. On top of
it: `FinalStaysFinal` (with: a row that does not exist has version 0),
`ApprovalSeesNothingNew` (with: a snapshot binds the case version right after its brief's),
and `LiveReviewIsSole` under the assumption that no inbox import happens
(`MaxMessages = 0`); with imports the case version may go back, which is the finding of
`message_unseen`.

`DraftDeliveryProofs`. `AtMostOneDraft` bounds a number; what is inductive is that a version
has at most one command and one request in flight at Gmail, none of either once it may be
started again, and no draft then (`OneRequest`, `NoneWhenStartable`). `failed_safe` is
startable, so `OutcomeIsTrue` is the same fact read from the row. That a completed delivery
names a real draft needs `LookupsStand`: what a reconciliation found was made, with the same
text. `KeepsPromise` is proved by step simulation: each action maps to the step of
`DraftPromise` that tells the specialist something new or makes a draft, or to a stutter when
`Told` and `made` stay; `OneRequest` gives the promise's guards for making a draft
and for denying one.

`DecisionGenerationProofs`. A fence token is given out once and every takeover counts as an
attempt (`FencesStand`), hence at most one request holds the present token of an input,
although `complete` compares no expiry. `SkippedFellBack`: the retries a request skipped had
fallen back and still have, since briefs are written once; it makes `OneAcceptedBrief`
inductive across the time the analysis takes.

`InboxSyncProofs`. `NothingSkippedSince` speaks of the cursor; inductive is that *every* position
a drain may start from (cursor, base, page and requested position of any job, racing ones
included) has only safe messages behind it, and so has the end of what a drain fetched, but for
what it holds (`StartsAreSafe`), and that nothing is ahead of the mailbox. `CursorAdvances`
needs that a drain under a live lease fetched no less than the committed cursor unless a claim
raced (`HolderIsCurrent`), which rests on `OneLiveLease`.

`PolicyIndexingProofs`. Embeddings only grow and never exceed the clauses, so what a completed
job, a counted version and a version inside a search's scope say stays true.
`OnlyHolderReleases` follows from the check of owner, attempt and expiry.

`PolicyGovernanceProofs`. What a command read still holds when it writes, because whoever writes a
policy ends the commands that read it (`CommandsStand`); this includes, for an activation that
no other one overtook (`alone`), that its window has no conflict *now*, which gives
`AuthorityIsSole` up to `skewed`. Versions are numbered without gaps and one is published at
most, which is why publishing retires the right one. One lemma about a step that writes
one policy (`WriteInv`) is applied to each command: the step ends the commands that read the
policy and activates nothing, or activates a version whose conflicts were checked. A citation had
authority because `BindEvidence` checks again what `Search` found, and found versions belong to one
policy.

`WorkspaceProofs`. Each part has an invariant of its own, proved of its own next-state
relation; in the workspace a step of another part leaves its variables alone. Members: an
administrator loses its rights only to a command of another one whose rights were checked under
the organization's lock; updated members had joined; an uncommitted invitation is nobody
else's. Connections: a consumed sign-in is one command's until it is stored, so a credential is
stored once; a version stands for a configuration unless one was given out twice, so recorded
health is of the configuration. Cases: what a check found holds as long as the version it was made
for stands, and each command compares that version. Notices: one row per recipient and event,
committed or not. Analysis: what may be handed to the graph is the engine's analysis, a kept
wording or the retained original (`Outcomes`); each has the same policy, state, risks and impact,
the information gaps are exactly what the records do not prove, and the checkpoints form a chain.

Only model-checked: the five liveness properties (`RunningEnds`, `HoldEnds`,
`SettledOrExhausted`, `QueueDrains`, `IndexedOrOutOfAttempts`), because fairness and ENABLED
are beyond the prover; and `ListIsWalkedWhole`, which needs a theory of ranks in finite ordered
sets (that a page holds exactly the `PageSize` first rows, and that the page before it is found
again) that is not developed yet.

## 5. Plan

1. Prove `ListIsWalkedWhole`: that positions are totally ordered in each of the five orders;
   that a row left out of a page comes after the page's last row (its rank is higher); that each row
   that stayed is shown or lies after the next cursor; then the way back.
2. Prove `LiveReviewIsSole` with imports in the form that still holds: up to the
   case version an import set back.

## 6. Not modelled, and why

- Audit export, quality projections and data governance read rows or delete them by age;
  no command reads what they produce.
- The legacy imports of actions and reviews, and the migrations, run before the system is in
  use.
- Evaluation and benchmark code (about a fifth of the lines) runs offline over fixed data
  and shares no state with the program.
- The optional orchestrators and the simulators repeat the governed path with another engine,
  or stand in for a provider.
- Frontend and infrastructure hold no state of the system; a browser appears in the model as
  the version a command sends.
- Wording, prompts, embedding vectors, encryption and tokens: a text is a model value, a model's
  answer one of the answers the code tells apart, a ranking any order the filters allow, a
  credential present or absent.
- Organizations are isolated by every query's filter, so one stands for all.
