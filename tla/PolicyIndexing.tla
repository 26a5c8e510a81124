--------------------------- MODULE PolicyIndexing ---------------------------
(***************************************************************************)
(* Building the retrieval index of the active policy versions:             *)
(* services/policy_indexing.py over persistence/policy_indexing/.  One job *)
(* per version; a drain claims a job under a lease, embeds a page of its   *)
(* clauses outside any transaction and writes the page under the lease.    *)
(* Clauses are embedded in their order, so the index of a version is the   *)
(* number of its first clauses that have an embedding.                     *)
(***************************************************************************)
EXTENDS Integers, FiniteSetsExt

CONSTANTS
  Indexers,       \* drains that may run at once
  PolicyVersions, \* governed policy versions
  Clauses,        \* clauses of each
  PageBudget,     \* clauses a claim takes
  IndexAttempts,  \* POLICY_INDEX_MAX_ATTEMPTS
  MaxReprocess    \* bound: dead jobs put back

VARIABLES
  active,       \* versions that are published or scheduled
  job,          \* PolicyIndexJobModel.status, "no_job" before it is enqueued
  attempts,     \* .attempt_count
  holder,       \* .lease_owner, Nobody without one
  lapsed,       \* .lease_expires_at has passed
  backoff,      \* .available_at is in the future
  indexed,      \* clauses that have an embedding
  profile,      \* PolicyEmbeddingProfileModel.status
  uncounted,    \* history: versions activated since the profile was counted
  reprocessed,
  drain,        \* where each drain is
  item,         \* the version it works on
  attempt,      \* the attempt_count it claimed
  searching     \* versions in the scope of a search under way, {} when there is none

jobRows == <<job, attempts, holder, lapsed, backoff>>
drains == <<drain, item, attempt>>
indexing == <<jobRows, indexed, profile, uncounted, reprocessed, drains>>
vars == <<active, indexing, searching>>

Nobody == "nobody"

ASSUME PolicyVersionsAssumption == PolicyVersions # {}
ASSUME ClausesAssumption == Clauses \in [PolicyVersions -> Nat]
ASSUME PageBudgetAssumption == PageBudget \in Nat \ {0}
ASSUME IndexAttemptsAssumption == IndexAttempts \in Nat \ {0}
ASSUME IndexReprocessAssumption == MaxReprocess \in Nat
ASSUME NobodyAssumption == Nobody \notin Indexers

PolicyIndexJobStatus == {"no_job", "pending", "running", "completed", "failed", "dead"}

TypeOK ==
  /\ active \subseteq PolicyVersions
  /\ job \in [PolicyVersions -> PolicyIndexJobStatus]
  /\ attempts \in [PolicyVersions -> 0 .. IndexAttempts]
  /\ holder \in [PolicyVersions -> Indexers \union {Nobody}]
  /\ \A v \in PolicyVersions : (job[v] = "running") = (holder[v] # Nobody)
  /\ lapsed \in [PolicyVersions -> BOOLEAN] /\ backoff \in [PolicyVersions -> BOOLEAN]
  /\ indexed \in [PolicyVersions -> Nat]
  /\ \A v \in PolicyVersions : indexed[v] <= Clauses[v]
  /\ profile \in {"building", "ready"}
  /\ uncounted \subseteq PolicyVersions
  /\ reprocessed \in 0 .. MaxReprocess
  /\ drain \in [Indexers -> {"idle", "claiming", "embedding"}]
  /\ item \in [Indexers -> PolicyVersions]
  /\ attempt \in [Indexers -> 0 .. IndexAttempts]
  /\ searching \subseteq PolicyVersions

AnyVersion == CHOOSE v \in PolicyVersions : TRUE

Init ==
  /\ active = {}
  /\ job = [v \in PolicyVersions |-> "no_job"]
  /\ attempts = [v \in PolicyVersions |-> 0]
  /\ holder = [v \in PolicyVersions |-> Nobody]
  /\ lapsed = [v \in PolicyVersions |-> FALSE] /\ backoff = [v \in PolicyVersions |-> FALSE]
  /\ indexed = [v \in PolicyVersions |-> 0]
  /\ profile = "building"
  /\ uncounted = {}
  /\ reprocessed = 0
  /\ drain = [w \in Indexers |-> "idle"]
  /\ item = [w \in Indexers |-> AnyVersion]
  /\ attempt = [w \in Indexers |-> 0]
  /\ searching = {}

-----------------------------------------------------------------------------
(* Policy governance activates a version, later retires it *)

Activate(v) ==
  /\ v \notin active /\ job[v] = "no_job"
  /\ active' = active \union {v}
  /\ uncounted' = uncounted \union {v}
  /\ UNCHANGED <<jobRows, indexed, profile, reprocessed, drains, searching>>

Retire(v) ==
  /\ v \in active
  /\ active' = active \ {v}
  /\ uncounted' = uncounted \ {v}
  /\ UNCHANGED <<jobRows, indexed, profile, reprocessed, drains, searching>>

-----------------------------------------------------------------------------
(* Jobs *)

Remaining(v) == Clauses[v] - indexed[v]

\* Mutant of CountedStatus: the versions without a job are left out.
CountedWithJob ==
  IF active # {} /\ \A v \in active : job[v] # "no_job" => indexed'[v] = Clauses[v] THEN "ready" ELSE "building"

\* The clauses of every active version are counted again.
CountedStatus ==
  IF active # {} /\ \A v \in active : indexed'[v] = Clauses[v] THEN "ready" ELSE "building"

RefreshProfileCounts ==
  /\ profile' = CountedStatus
  /\ uncounted' = {}

\* A drain starts by giving every active version a job.
EnqueueMissing(w) ==
  /\ drain[w] = "idle"
  /\ drain' = [drain EXCEPT ![w] = "claiming"]
  /\ job' = [v \in PolicyVersions |-> IF v \in active /\ job[v] = "no_job" THEN "pending" ELSE job[v]]
  /\ UNCHANGED indexed
  /\ RefreshProfileCounts
  /\ UNCHANGED <<active, attempts, holder, lapsed, backoff, reprocessed, item, attempt, searching>>

\* Mutant of Exhausted: a lost worker's last attempt stays running.
ExhaustedNever(v) == FALSE /\ v \in active

\* A lease that ended on the last attempt: the worker is lost.
Exhausted(v) == job[v] = "running" /\ lapsed[v] /\ attempts[v] >= IndexAttempts

Free(v) ==
  \/ job[v] \in {"pending", "failed"}
  \/ job[v] = "running" /\ lapsed[v]

Claimable(v) == Free(v) /\ ~backoff[v] /\ attempts[v] < IndexAttempts

\* One exhausted job is given up, then one job is claimed, in a transaction.
Claim(w) ==
  /\ drain[w] = "claiming"
  /\ \E lost \in SUBSET {v \in PolicyVersions : Exhausted(v)}, got \in SUBSET {v \in PolicyVersions : Claimable(v)} :
       /\ lost = {} => \A v \in PolicyVersions : ~Exhausted(v)
       /\ \A u, v \in lost : u = v
       /\ got = {} => \A v \in PolicyVersions : ~Claimable(v)
       /\ \A u, v \in got : u = v
       /\ job' = [v \in PolicyVersions |-> IF v \in got THEN "running" ELSE IF v \in lost THEN "dead" ELSE job[v]]
       /\ attempts' = [v \in PolicyVersions |-> IF v \in got THEN attempts[v] + 1 ELSE attempts[v]]
       /\ holder' = [v \in PolicyVersions |-> IF v \in got THEN w ELSE IF v \in lost THEN Nobody ELSE holder[v]]
       /\ lapsed' = [v \in PolicyVersions |-> lapsed[v] /\ v \notin got \union lost]
       /\ IF got = {}
            THEN drain' = [drain EXCEPT ![w] = "idle"] /\ UNCHANGED <<item, attempt>>
            ELSE /\ drain' = [drain EXCEPT ![w] = "embedding"]
                 /\ \E v \in got : /\ item' = [item EXCEPT ![w] = v]
                                   /\ attempt' = [attempt EXCEPT ![w] = attempts[v] + 1]
       /\ UNCHANGED indexed
       /\ IF lost = {} THEN UNCHANGED <<profile, uncounted>> ELSE RefreshProfileCounts
  /\ UNCHANGED <<active, backoff, reprocessed, searching>>

\* Mutant of LeasedJob: the version's lease may be anybody's.
LeasedByAnyone(w) == job[item[w]] = "running" /\ ~lapsed[item[w]]

\* _leased_job: the claimed lease, by owner, attempt and expiry.
LeasedJob(w) ==
  /\ job[item[w]] = "running" /\ ~lapsed[item[w]]
  /\ holder[item[w]] = w /\ attempts[item[w]] = attempt[w]

Leave(w) ==
  /\ item' = [item EXCEPT ![w] = AnyVersion]
  /\ attempt' = [attempt EXCEPT ![w] = 0]

Released(w) ==
  /\ holder' = [holder EXCEPT ![item[w]] = Nobody]
  /\ UNCHANGED lapsed
  /\ drain' = [drain EXCEPT ![w] = "claiming"]
  /\ Leave(w)

\* _finish_page: pending again while clauses remain; the attempts stand.
PageStatus(v) == IF indexed'[v] = Clauses[v] THEN "completed" ELSE "pending"

\* _pending_clauses: the next clauses without an embedding, a page at most.
PageOf(v) == Min({PageBudget, Remaining(v)})

PersistPage(w) ==
  LET v == item[w] IN
  /\ drain[w] = "embedding" /\ LeasedJob(w)
  /\ indexed' = [indexed EXCEPT ![v] = @ + PageOf(v)]
  /\ job' = [job EXCEPT ![v] = PageStatus(v)]
  /\ RefreshProfileCounts
  /\ Released(w)
  /\ UNCHANGED <<active, attempts, backoff, reprocessed, searching>>

\* The provider refuses, or returns vectors that are not accepted.
Fail(w) ==
  LET v == item[w] IN
  /\ drain[w] = "embedding" /\ LeasedJob(w)
  /\ job' = [job EXCEPT ![v] = IF attempts[v] >= IndexAttempts THEN "dead" ELSE "failed"]
  /\ backoff' = [backoff EXCEPT ![v] = TRUE]
  /\ Released(w)
  /\ UNCHANGED <<active, attempts, indexed, profile, uncounted, reprocessed, searching>>

\* persist_page and then fail find another lease: the drain ends.
LeaseLost(w) ==
  /\ drain[w] = "embedding" /\ ~LeasedJob(w)
  /\ drain' = [drain EXCEPT ![w] = "idle"]
  /\ Leave(w)
  /\ UNCHANGED <<active, jobRows, indexed, profile, uncounted, reprocessed, searching>>

\* The process ends, or the drain has made its job_limit claims.
DrainEnds(w) ==
  /\ drain[w] # "idle"
  /\ drain' = [drain EXCEPT ![w] = "idle"]
  /\ Leave(w)
  /\ UNCHANGED <<active, jobRows, indexed, profile, uncounted, reprocessed, searching>>

LeaseExpires(v) ==
  /\ job[v] = "running" /\ ~lapsed[v]
  /\ lapsed' = [lapsed EXCEPT ![v] = TRUE]
  /\ UNCHANGED <<active, job, attempts, holder, backoff, indexed, profile, uncounted, reprocessed, drains, searching>>

BackoffEnds(v) ==
  /\ backoff[v]
  /\ backoff' = [backoff EXCEPT ![v] = FALSE]
  /\ UNCHANGED <<active, job, attempts, holder, lapsed, indexed, profile, uncounted, reprocessed, drains, searching>>

\* A dead job starts again; the clauses it indexed stand.
Reprocess(v) ==
  /\ job[v] = "dead" /\ reprocessed < MaxReprocess
  /\ job' = [job EXCEPT ![v] = "pending"]
  /\ attempts' = [attempts EXCEPT ![v] = 0]
  /\ backoff' = [backoff EXCEPT ![v] = FALSE]
  /\ reprocessed' = reprocessed + 1
  /\ UNCHANGED <<active, holder, lapsed, indexed, profile, uncounted, drains, searching>>

-----------------------------------------------------------------------------
(* Hybrid retrieval reads the index *)

\* The versions that apply to the case and are in force; all of them here.
Scope == active

\* Mutant of ActiveIndexIsComplete: the profile's last count decides.
ProfileIsReady == profile = "ready"

\* Counted from the clauses of the scope, not read from the profile.
ActiveIndexIsComplete == \A v \in Scope : indexed[v] = Clauses[v]

\* _guard_scope
ScopeStands == Scope # {} /\ ActiveIndexIsComplete

\* inspect_hybrid_scope, and again search_hybrid_candidates: a scope that is
\* empty or not indexed ends the search without candidates.
InspectScope ==
  /\ searching = {}
  /\ ScopeStands
  /\ searching' = Scope
  /\ UNCHANGED <<active, indexing>>

\* The ranked rows are read by later statements of the same search, among
\* the clauses that have an embedding then.
RankCandidates ==
  /\ searching # {}
  /\ searching' = {}
  /\ UNCHANGED <<active, indexing>>

-----------------------------------------------------------------------------
Next ==
  \/ InspectScope \/ RankCandidates
  \/ \E v \in PolicyVersions :
       Activate(v) \/ Retire(v) \/ LeaseExpires(v) \/ BackoffEnds(v) \/ Reprocess(v)
  \/ \E w \in Indexers :
       EnqueueMissing(w) \/ Claim(w) \/ PersistPage(w) \/ Fail(w) \/ LeaseLost(w) \/ DrainEnds(w)

\* The scheduled drain is started again and again and its claims go on, a
\* lease and a backoff end with time.  A page may fail or its drain may die
\* every time: neither is excluded.
Fairness ==
  /\ \A w \in Indexers : WF_vars(EnqueueMissing(w)) /\ SF_vars(Claim(w))
  /\ \A w \in Indexers : WF_vars(PersistPage(w) \/ Fail(w) \/ LeaseLost(w))
  /\ \A v \in PolicyVersions : WF_vars(LeaseExpires(v)) /\ WF_vars(BackoffEnds(v))

Spec == Init /\ [][Next]_vars /\ Fairness

-----------------------------------------------------------------------------
(* Properties *)

\* A completed job's version has an embedding for every clause, and a ready
\* profile misses no clause of a version that was active when it was counted.
IndexIsComplete ==
  /\ TypeOK
  /\ \A v \in PolicyVersions : job[v] = "completed" => indexed[v] = Clauses[v]
  /\ profile = "ready" => \A v \in active \ uncounted : indexed[v] = Clauses[v]

\* A lease that has not expired is ended only by the drain that claimed it:
\* a page computed under a lease that was taken over changes nothing.
OnlyHolderReleases ==
  [][\A v \in PolicyVersions :
       job[v] = "running" /\ ~lapsed[v] /\ job'[v] # "running" =>
         \E w \in Indexers : /\ holder[v] = w /\ drain[w] = "embedding" /\ item[w] = v
                             /\ drain'[w] # "embedding"]_vars

\* A search that passed its scope check misses no clause of a version that
\* was in its scope and still is when the rows are ranked, whatever was
\* activated, retired or indexed in between.
SearchMissesNothing ==
  [][searching # {} /\ searching' = {} =>
       \A v \in searching \intersect active : indexed[v] = Clauses[v]]_vars

\* Every active version is indexed in the end, or its job is dead, or its
\* last page left it pending with no attempt to go.
IndexedOrOutOfAttempts ==
  \A v \in PolicyVersions :
    v \in active ~>
      \/ v \notin active
      \/ indexed[v] = Clauses[v]
      \/ job[v] = "dead"
      \/ job[v] = "pending" /\ attempts[v] = IndexAttempts

=============================================================================
