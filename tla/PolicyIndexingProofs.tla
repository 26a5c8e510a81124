------------------------ MODULE PolicyIndexingProofs ------------------------
(***************************************************************************)
(* Proofs about PolicyIndexing for any set of drains and versions, any     *)
(* numbers of clauses and any budgets.                                     *)
(***************************************************************************)
EXTENDS PolicyIndexing, TLAPS

\* What a completed job and a ready profile say.
CompletedIsIndexed ==
  \A v \in PolicyVersions : job[v] = "completed" => indexed[v] = Clauses[v]

ReadyWasCounted ==
  profile = "ready" => \A v \in active \ uncounted : indexed[v] = Clauses[v]

\* The versions a search goes through stay indexed: embeddings only grow.
SearchedIsIndexed == \A v \in searching : indexed[v] = Clauses[v]

\* The inductive invariant.
Inv ==
  /\ TypeOK
  /\ CompletedIsIndexed
  /\ ReadyWasCounted
  /\ SearchedIsIndexed

-----------------------------------------------------------------------------

USE DEF PolicyIndexJobStatus

\* A page is what the budget and the remaining clauses allow.
LEMMA PageFits ==
  ASSUME TypeOK, NEW v \in PolicyVersions
  PROVE  /\ indexed[v] + PageOf(v) \in Nat
         /\ indexed[v] + PageOf(v) <= Clauses[v]
         /\ indexed[v] = Clauses[v] => indexed[v] + PageOf(v) = Clauses[v]
<1>1. /\ indexed[v] \in Nat /\ Clauses[v] \in Nat /\ indexed[v] <= Clauses[v]
      /\ PageBudget \in Nat
  BY ClausesAssumption, PageBudgetAssumption DEF TypeOK
<1>. DEFINE S == {PageBudget, Remaining(v)}
<1>2. Remaining(v) \in Nat /\ indexed[v] + Remaining(v) = Clauses[v]
  BY <1>1 DEF Remaining
<1>3. \E x \in S : \A y \in S : x <= y
  <2>1. CASE PageBudget <= Remaining(v)
    BY <1>1, <1>2, <2>1
  <2>2. CASE Remaining(v) <= PageBudget
    BY <1>1, <1>2, <2>2
  <2>. QED
    BY <1>1, <1>2, <2>1, <2>2
<1>4. PageOf(v) = CHOOSE x \in S : \A y \in S : x <= y
  BY DEF PageOf, Min
<1>5. PageOf(v) \in S /\ \A y \in S : PageOf(v) <= y
  BY <1>3, <1>4
<1>6. PageOf(v) \in Nat /\ PageOf(v) <= Remaining(v)
  BY <1>1, <1>2, <1>5
<1>. QED
  BY <1>1, <1>2, <1>6

\* There is a version to put into an idle drain's item.
LEMMA AnyVersionIsOne == AnyVersion \in PolicyVersions
BY PolicyVersionsAssumption DEF AnyVersion

\* A new count is right for every active version.
LEMMA RefreshIsRight ==
  ASSUME RefreshProfileCounts, active' = active
  PROVE  /\ ReadyWasCounted'
         /\ profile' \in {"building", "ready"} /\ uncounted' = {}
BY DEF RefreshProfileCounts, CountedStatus, ReadyWasCounted

\* Steps that leave the index, the profile and the searches alone.
LEMMA IndexStands ==
  ASSUME Inv, UNCHANGED <<active, indexed, profile, uncounted, searching>>
  PROVE  ReadyWasCounted' /\ SearchedIsIndexed'
BY DEF Inv, ReadyWasCounted, SearchedIsIndexed

\* The drain of w has ended or goes back to claiming.
LEMMA LeaveTypes ==
  ASSUME TypeOK, NEW w \in Indexers, Leave(w)
  PROVE  /\ item' \in [Indexers -> PolicyVersions]
         /\ attempt' \in [Indexers -> 0 .. IndexAttempts]
<1>1. item' \in [Indexers -> PolicyVersions]
  BY AnyVersionIsOne DEF TypeOK, Leave
<1>2. 0 \in 0 .. IndexAttempts
  BY IndexAttemptsAssumption
<1>3. attempt' \in [Indexers -> 0 .. IndexAttempts]
  BY <1>2 DEF TypeOK, Leave
<1>. QED
  BY <1>1, <1>3

\* A version is activated or retired.
LEMMA GovernanceInv ==
  ASSUME Inv, NEW v \in PolicyVersions, Activate(v) \/ Retire(v)
  PROVE  Inv'
<1>1. UNCHANGED <<jobRows, indexed, profile, reprocessed, drains, searching>>
  BY DEF Activate, Retire
<1>2. TypeOK'
  <2>1. active' \subseteq PolicyVersions /\ uncounted' \subseteq PolicyVersions
    BY DEF Activate, Retire, Inv, TypeOK
  <2>. QED
    BY <1>1, <2>1 DEF Inv, TypeOK, jobRows, drains
<1>3. active' \ uncounted' \subseteq active \ uncounted
  BY DEF Activate, Retire
<1>. QED
  BY <1>1, <1>2, <1>3 DEF Inv, CompletedIsIndexed, ReadyWasCounted, SearchedIsIndexed, jobRows

\* Time passes, or a dead job is put back.
LEMMA TimeInv ==
  ASSUME Inv, NEW v \in PolicyVersions, LeaseExpires(v) \/ BackoffEnds(v) \/ Reprocess(v)
  PROVE  Inv'
<1>1. UNCHANGED <<active, holder, indexed, profile, uncounted, drains, searching>>
  BY DEF LeaseExpires, BackoffEnds, Reprocess
<1>2. TypeOK'
  <2>1. job' \in [PolicyVersions -> PolicyIndexJobStatus]
    BY DEF LeaseExpires, BackoffEnds, Reprocess, Inv, TypeOK
  <2>2. attempts' \in [PolicyVersions -> 0 .. IndexAttempts]
    <3>1. 0 \in 0 .. IndexAttempts
      BY IndexAttemptsAssumption
    <3>. QED
      BY <3>1 DEF LeaseExpires, BackoffEnds, Reprocess, Inv, TypeOK
  <2>3. lapsed' \in [PolicyVersions -> BOOLEAN] /\ backoff' \in [PolicyVersions -> BOOLEAN]
    BY DEF LeaseExpires, BackoffEnds, Reprocess, Inv, TypeOK
  <2>4. \A u \in PolicyVersions : (job'[u] = "running") = (holder[u] # Nobody)
    BY DEF LeaseExpires, BackoffEnds, Reprocess, Inv, TypeOK
  <2>5. reprocessed' \in 0 .. MaxReprocess
    BY IndexReprocessAssumption DEF LeaseExpires, BackoffEnds, Reprocess, Inv, TypeOK
  <2>. QED
    BY <1>1, <2>1, <2>2, <2>3, <2>4, <2>5 DEF Inv, TypeOK, drains
<1>3. CompletedIsIndexed'
  BY <1>1 DEF LeaseExpires, BackoffEnds, Reprocess, Inv, TypeOK, CompletedIsIndexed
<1>. QED
  BY <1>1, <1>2, <1>3, IndexStands DEF Inv

\* A drain enqueues the versions without a job.
LEMMA EnqueueInv ==
  ASSUME Inv, NEW w \in Indexers, EnqueueMissing(w)
  PROVE  Inv'
<1>1. UNCHANGED <<active, attempts, holder, lapsed, backoff, indexed, reprocessed, item, attempt,
                  searching>>
  BY DEF EnqueueMissing
<1>2. \A v \in PolicyVersions : job'[v] = job[v] \/ (job[v] = "no_job" /\ job'[v] = "pending")
  BY DEF EnqueueMissing
<1>3. TypeOK'
  <2>1. job' \in [PolicyVersions -> PolicyIndexJobStatus]
    BY DEF EnqueueMissing, Inv, TypeOK
  <2>2. \A v \in PolicyVersions : (job'[v] = "running") = (holder[v] # Nobody)
    BY <1>2 DEF Inv, TypeOK
  <2>3. drain' \in [Indexers -> {"idle", "claiming", "embedding"}]
    BY DEF EnqueueMissing, Inv, TypeOK
  <2>4. profile' \in {"building", "ready"} /\ uncounted' = {}
    BY <1>1, RefreshIsRight DEF EnqueueMissing
  <2>. QED
    BY <1>1, <2>1, <2>2, <2>3, <2>4 DEF Inv, TypeOK
<1>4. CompletedIsIndexed' /\ SearchedIsIndexed'
  BY <1>1, <1>2 DEF Inv, CompletedIsIndexed, SearchedIsIndexed
<1>5. ReadyWasCounted'
  BY <1>1, RefreshIsRight DEF EnqueueMissing
<1>. QED
  BY <1>3, <1>4, <1>5 DEF Inv

\* A claim gives up a lost worker's job and leases another one.
LEMMA ClaimInv ==
  ASSUME Inv, NEW w \in Indexers, Claim(w)
  PROVE  Inv'
<1>1. PICK lost \in SUBSET {v \in PolicyVersions : Exhausted(v)},
           got \in SUBSET {v \in PolicyVersions : Claimable(v)} :
        /\ job' = [v \in PolicyVersions |->
             IF v \in got THEN "running" ELSE IF v \in lost THEN "dead" ELSE job[v]]
        /\ attempts' = [v \in PolicyVersions |->
             IF v \in got THEN attempts[v] + 1 ELSE attempts[v]]
        /\ holder' = [v \in PolicyVersions |->
             IF v \in got THEN w ELSE IF v \in lost THEN Nobody ELSE holder[v]]
        /\ lapsed' = [v \in PolicyVersions |-> lapsed[v] /\ v \notin got \union lost]
        /\ IF got = {}
             THEN drain' = [drain EXCEPT ![w] = "idle"] /\ UNCHANGED <<item, attempt>>
             ELSE /\ drain' = [drain EXCEPT ![w] = "embedding"]
                  /\ \E v \in got : /\ item' = [item EXCEPT ![w] = v]
                                    /\ attempt' = [attempt EXCEPT ![w] = attempts[v] + 1]
        /\ IF lost = {} THEN UNCHANGED <<profile, uncounted>> ELSE RefreshProfileCounts
  BY DEF Claim
<1>2. UNCHANGED <<active, backoff, indexed, reprocessed, searching>>
  BY DEF Claim
<1>3. \A v \in got : attempts[v] + 1 \in 0 .. IndexAttempts
  BY IndexAttemptsAssumption DEF Claimable, Inv, TypeOK
<1>4. TypeOK'
  <2>1. job' \in [PolicyVersions -> PolicyIndexJobStatus]
    BY <1>1 DEF Inv, TypeOK
  <2>2. attempts' \in [PolicyVersions -> 0 .. IndexAttempts]
    BY <1>1, <1>3 DEF Inv, TypeOK
  <2>3. holder' \in [PolicyVersions -> Indexers \union {Nobody}]
    BY <1>1 DEF Inv, TypeOK
  <2>4. ASSUME NEW v \in PolicyVersions PROVE (job'[v] = "running") = (holder'[v] # Nobody)
    BY <1>1, NobodyAssumption DEF Inv, TypeOK
  <2>5. lapsed' \in [PolicyVersions -> BOOLEAN]
    BY <1>1 DEF Inv, TypeOK
  <2>6. drain' \in [Indexers -> {"idle", "claiming", "embedding"}]
    BY <1>1 DEF Inv, TypeOK
  <2>7. item' \in [Indexers -> PolicyVersions] /\ attempt' \in [Indexers -> 0 .. IndexAttempts]
    <3>1. CASE got = {}
      BY <1>1, <3>1 DEF Inv, TypeOK
    <3>2. CASE got # {}
      <4>1. PICK v \in got : /\ item' = [item EXCEPT ![w] = v]
                             /\ attempt' = [attempt EXCEPT ![w] = attempts[v] + 1]
        BY <1>1, <3>2
      <4>2. v \in PolicyVersions
        OBVIOUS
      <4>. QED
        BY <1>3, <4>1, <4>2 DEF Inv, TypeOK
    <3>. QED
      BY <3>1, <3>2
  <2>8. profile' \in {"building", "ready"} /\ uncounted' \subseteq PolicyVersions
    BY <1>1, <1>2, RefreshIsRight DEF Inv, TypeOK
  <2>. QED
    BY <1>2, <2>1, <2>2, <2>3, <2>4, <2>5, <2>6, <2>7, <2>8 DEF Inv, TypeOK
<1>5. CompletedIsIndexed'
  BY <1>1, <1>2 DEF Inv, CompletedIsIndexed
<1>6. SearchedIsIndexed'
  BY <1>2 DEF Inv, SearchedIsIndexed
<1>7. ReadyWasCounted'
  <2>1. CASE lost = {}
    BY <1>1, <1>2, <2>1, IndexStands
  <2>2. CASE lost # {}
    BY <1>1, <1>2, <2>2, RefreshIsRight
  <2>. QED
    BY <2>1, <2>2
<1>. QED
  BY <1>4, <1>5, <1>6, <1>7 DEF Inv

\* The holder's page is written, or the embedding failed.
LEMMA PageInv ==
  ASSUME Inv, NEW w \in Indexers, PersistPage(w) \/ Fail(w)
  PROVE  Inv'
<1>. DEFINE v == item[w]
<1>0. v \in PolicyVersions
  BY DEF Inv, TypeOK
<1>1. /\ holder' = [holder EXCEPT ![v] = Nobody]
      /\ drain' = [drain EXCEPT ![w] = "claiming"]
      /\ Leave(w)
      /\ UNCHANGED <<active, attempts, lapsed, reprocessed, searching>>
  BY DEF PersistPage, Fail, Released
<1>2. /\ \E x \in {"completed", "pending", "dead", "failed"} :
           /\ job' = [job EXCEPT ![v] = x]
           /\ x = "completed" => indexed'[v] = Clauses[v]
      /\ backoff' \in [PolicyVersions -> BOOLEAN]
  <2>1. CASE PersistPage(w)
    BY <2>1 DEF PersistPage, PageStatus, Inv, TypeOK
  <2>2. CASE Fail(w)
    BY <2>2 DEF Fail, Inv, TypeOK
  <2>. QED
    BY <2>1, <2>2
<1>3. /\ indexed' \in [PolicyVersions -> Nat]
      /\ \A u \in PolicyVersions : /\ indexed'[u] <= Clauses[u]
                                   /\ indexed[u] = Clauses[u] => indexed'[u] = Clauses[u]
  <2>1. CASE PersistPage(w)
    <3>1. indexed' = [indexed EXCEPT ![v] = indexed[v] + PageOf(v)]
      BY <2>1 DEF PersistPage
    <3>2. /\ indexed[v] + PageOf(v) \in Nat
          /\ indexed[v] + PageOf(v) <= Clauses[v]
          /\ indexed[v] = Clauses[v] => indexed[v] + PageOf(v) = Clauses[v]
      BY <1>0, PageFits DEF Inv
    <3>. HIDE DEF v
    <3>. QED
      BY <1>0, <3>1, <3>2 DEF Inv, TypeOK
  <2>2. CASE Fail(w)
    BY <2>2 DEF Fail, Inv, TypeOK
  <2>. QED
    BY <2>1, <2>2
<1>4. /\ ReadyWasCounted'
      /\ profile' \in {"building", "ready"} /\ uncounted' \subseteq PolicyVersions
  <2>1. CASE PersistPage(w)
    BY <1>1, <2>1, RefreshIsRight DEF PersistPage
  <2>2. CASE Fail(w)
    BY <1>1, <2>2, IndexStands DEF Fail, Inv, TypeOK
  <2>. QED
    BY <2>1, <2>2
<1>. HIDE DEF v
<1>5. TypeOK'
  <2>1. job' \in [PolicyVersions -> PolicyIndexJobStatus]
    BY <1>2 DEF Inv, TypeOK
  <2>2. holder' \in [PolicyVersions -> Indexers \union {Nobody}]
    BY <1>1 DEF Inv, TypeOK
  <2>3. ASSUME NEW u \in PolicyVersions PROVE (job'[u] = "running") = (holder'[u] # Nobody)
    BY <1>0, <1>1, <1>2 DEF Inv, TypeOK
  <2>4. drain' \in [Indexers -> {"idle", "claiming", "embedding"}]
    BY <1>1 DEF Inv, TypeOK
  <2>5. item' \in [Indexers -> PolicyVersions] /\ attempt' \in [Indexers -> 0 .. IndexAttempts]
    BY <1>1, LeaveTypes DEF Inv
  <2>. QED
    BY <1>1, <1>2, <1>3, <1>4, <2>1, <2>2, <2>3, <2>4, <2>5 DEF Inv, TypeOK
<1>6. CompletedIsIndexed'
  BY <1>0, <1>2, <1>3 DEF Inv, TypeOK, CompletedIsIndexed
<1>7. SearchedIsIndexed'
  BY <1>1, <1>3 DEF Inv, TypeOK, SearchedIsIndexed
<1>. QED
  BY <1>4, <1>5, <1>6, <1>7 DEF Inv

\* A drain ends.
LEMMA EndInv ==
  ASSUME Inv, NEW w \in Indexers, LeaseLost(w) \/ DrainEnds(w)
  PROVE  Inv'
<1>1. /\ drain' = [drain EXCEPT ![w] = "idle"]
      /\ Leave(w)
      /\ UNCHANGED <<active, jobRows, indexed, profile, uncounted, reprocessed, searching>>
  BY DEF LeaseLost, DrainEnds
<1>2. drain' \in [Indexers -> {"idle", "claiming", "embedding"}]
  BY <1>1 DEF Inv, TypeOK
<1>3. item' \in [Indexers -> PolicyVersions] /\ attempt' \in [Indexers -> 0 .. IndexAttempts]
  BY <1>1, LeaveTypes DEF Inv
<1>4. TypeOK'
  BY <1>1, <1>2, <1>3 DEF Inv, TypeOK, jobRows
<1>5. CompletedIsIndexed'
  BY <1>1 DEF Inv, CompletedIsIndexed, jobRows
<1>. QED
  BY <1>1, <1>4, <1>5, IndexStands DEF Inv

\* A search begins only over indexed versions.
LEMMA SearchInv ==
  ASSUME Inv, InspectScope \/ RankCandidates
  PROVE  Inv'
<1>1. UNCHANGED <<active, job, attempts, holder, lapsed, backoff, indexed, profile, uncounted,
                  reprocessed, drain, item, attempt>>
  BY DEF InspectScope, RankCandidates, indexing, jobRows, drains
<1>2. searching' \subseteq PolicyVersions /\ SearchedIsIndexed'
  BY <1>1 DEF InspectScope, RankCandidates, ScopeStands, ActiveIndexIsComplete, Scope, Inv, TypeOK,
              SearchedIsIndexed
<1>3. TypeOK'
  BY <1>1, <1>2 DEF Inv, TypeOK
<1>. QED
  BY <1>1, <1>2, <1>3 DEF Inv, CompletedIsIndexed, ReadyWasCounted

-----------------------------------------------------------------------------
(* The theorems *)

\* The index, the jobs and the profile agree in every reachable state,
\* whatever drains are lost and whatever leases they outlive.
THEOREM IndexInvariance == Spec => []Inv
<1>1. Init => Inv
  <2>. SUFFICES ASSUME Init PROVE Inv
    OBVIOUS
  <2>1. TypeOK
    <3>1. 0 \in 0 .. IndexAttempts /\ 0 \in 0 .. MaxReprocess /\ 0 \in Nat
      BY IndexAttemptsAssumption, IndexReprocessAssumption
    <3>2. indexed \in [PolicyVersions -> Nat] /\ \A v \in PolicyVersions : indexed[v] <= Clauses[v]
      BY ClausesAssumption DEF Init
    <3>. QED
      BY <3>1, <3>2, AnyVersionIsOne DEF Init, TypeOK
  <2>. QED
    BY <2>1 DEF Init, Inv, CompletedIsIndexed, ReadyWasCounted, SearchedIsIndexed
<1>2. Inv /\ [Next]_vars => Inv'
  <2>. SUFFICES ASSUME Inv, [Next]_vars PROVE Inv'
    OBVIOUS
  <2>1. CASE UNCHANGED vars
    <3>. USE <2>1 DEF vars, indexing, jobRows, drains
    <3>1. TypeOK'
      BY DEF Inv, TypeOK
    <3>. QED
      BY <3>1 DEF Inv, CompletedIsIndexed, ReadyWasCounted, SearchedIsIndexed
  <2>. QED
    BY <2>1, GovernanceInv, TimeInv, EnqueueInv, ClaimInv, PageInv, EndInv, SearchInv DEF Next
<1>. QED
  BY <1>1, <1>2, PTL DEF Spec

\* A completed job's version is indexed, and a ready profile misses no clause
\* of a version that was active when it was counted.
THEOREM IndexIsCompleteHolds == Spec => []IndexIsComplete
<1>1. Inv => IndexIsComplete
  BY DEF Inv, CompletedIsIndexed, ReadyWasCounted, IndexIsComplete
<1>. QED
  BY <1>1, IndexInvariance, PTL

\* A lease that has not expired is ended by the drain that holds it, and by
\* nobody else.
THEOREM OnlyHolderReleasesHolds == Spec => OnlyHolderReleases
<1>. DEFINE Ended(v) == \E w \in Indexers : /\ holder[v] = w /\ drain[w] = "embedding"
                                             /\ item[w] = v /\ drain'[w] # "embedding"
            Releases == \A v \in PolicyVersions :
              job[v] = "running" /\ ~lapsed[v] /\ job'[v] # "running" =>
                \E w \in Indexers : /\ holder[v] = w /\ drain[w] = "embedding" /\ item[w] = v
                                    /\ drain'[w] # "embedding"
<1>1. Inv /\ [Next]_vars => [Releases]_vars
  <2>. SUFFICES ASSUME Inv, Next, NEW v \in PolicyVersions,
                       job[v] = "running", ~lapsed[v], job'[v] # "running"
                PROVE  Ended(v)
    OBVIOUS
  <2>1. ASSUME NEW w \in Indexers, PersistPage(w) \/ Fail(w) PROVE Ended(v)
    <3>1. /\ drain[w] = "embedding" /\ holder[item[w]] = w
          /\ \E x : job' = [job EXCEPT ![item[w]] = x]
          /\ drain' = [drain EXCEPT ![w] = "claiming"]
      BY <2>1 DEF PersistPage, Fail, LeasedJob, Released
    <3>2. item[w] = v
      BY <3>1 DEF Inv, TypeOK
    <3>. QED
      BY <3>1, <3>2 DEF Inv, TypeOK
  <2>2. ASSUME NEW w \in Indexers, Claim(w) PROVE FALSE
    <3>1. PICK lost \in SUBSET {u \in PolicyVersions : Exhausted(u)},
               got \in SUBSET {u \in PolicyVersions : Claimable(u)} :
            job' = [u \in PolicyVersions |->
                      IF u \in got THEN "running" ELSE IF u \in lost THEN "dead" ELSE job[u]]
      BY <2>2 DEF Claim
    <3>. QED
      BY <3>1 DEF Exhausted
  <2>3. ASSUME NEW w \in Indexers, EnqueueMissing(w) PROVE FALSE
    BY <2>3 DEF EnqueueMissing
  <2>4. ASSUME NEW u \in PolicyVersions, Reprocess(u) PROVE FALSE
    BY <2>4 DEF Reprocess, Inv, TypeOK
  <2>. QED
    BY <2>1, <2>2, <2>3, <2>4
       DEF Next, InspectScope, RankCandidates, Activate, Retire, LeaseExpires, BackoffEnds,
           LeaseLost, DrainEnds, indexing, jobRows
<1>2. Spec => [][Releases]_vars
  BY <1>1, IndexInvariance, PTL DEF Spec
<1>. QED
  BY <1>2 DEF OnlyHolderReleases

\* A search that passed its scope check ranks over every clause of the
\* versions it was checked for.
THEOREM SearchMissesNothingHolds == Spec => SearchMissesNothing
<1>. DEFINE Ranks == searching # {} /\ searching' = {} =>
              \A v \in searching \intersect active : indexed[v] = Clauses[v]
<1>1. Inv /\ [Next]_vars => [Ranks]_vars
  BY DEF Inv, SearchedIsIndexed
<1>2. Spec => [][Ranks]_vars
  BY <1>1, IndexInvariance, PTL DEF Spec
<1>. QED
  BY <1>2 DEF SearchMissesNothing
=============================================================================
