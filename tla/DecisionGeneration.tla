------------------------- MODULE DecisionGeneration -------------------------
(***************************************************************************)
(* Generating a decision brief once per input: the durable lease of        *)
(* persistence/decision_generation_repository.py around the slow analysis  *)
(* of services/decision_brief_service.py, as the route                     *)
(* api/routes/decision_briefs.py runs it: a transaction that reads and     *)
(* leases, the analysis outside any transaction, a transaction that writes *)
(* the brief and completes the lease, and a transaction that releases it   *)
(* after an error.                                                         *)
(*                                                                         *)
(* A snapshot is what decision_input_fingerprint hashes (case version,     *)
(* business context, policy evidence, engine versions); an input is a      *)
(* snapshot with a retry number, as _retry_input_fingerprint makes it.     *)
(***************************************************************************)
EXTENDS Naturals, FiniteSets

CONSTANTS
  Requests,       \* generation requests that may be inside the server at once
  MaxSnapshot,    \* bound: snapshots the case goes through
  MaxRetries,     \* MAX_INPUT_FINGERPRINT_RETRIES
  MaxAttempts     \* MAX_DECISION_GENERATION_ATTEMPTS

ASSUME MaxSnapshotAssumption == MaxSnapshot \in Nat \ {0}
ASSUME MaxRetriesAssumption == MaxRetries \in Nat
ASSUME MaxAttemptsAssumption == MaxAttempts \in Nat \ {0}

VARIABLES
  snapshot,   \* the case's and its policies' present state
  covered,    \* fixed: whether policy evidence is relevant in each snapshot
  status,     \* CaseAnalysisGenerationModel.status of each input
  fence,      \* .fence_token, 0 without a row
  attempts,   \* .attempt_count
  expired,    \* .expires_at has passed
  brief,      \* how the brief of each input came about, "none" without one
  step,       \* where each request is
  input,      \* the input it works on
  token,      \* the fence token of its lease
  analysis    \* the analysis it holds

row == <<status, fence, attempts, expired>>
plan == <<step, input, token, analysis>>
vars == <<snapshot, covered, row, brief, plan>>

Snapshots == 1 .. MaxSnapshot
Inputs == Snapshots \X (0 .. MaxRetries)

\* How an analysis ends: worded by the model, abstained without policy
\* authority, or in deterministic wording after the model failed or its
\* wording was rejected.
Analyses == {"worded", "abstained", "fallback"}

TypeOK ==
  /\ snapshot \in Snapshots
  /\ covered \in [Snapshots -> BOOLEAN]
  /\ status \in [Inputs -> {"no_row", "running", "completed", "failed"}]
  /\ fence \in [Inputs -> 0 .. MaxAttempts]
  /\ attempts \in [Inputs -> 0 .. MaxAttempts]
  /\ expired \in [Inputs -> BOOLEAN]
  /\ brief \in [Inputs -> Analyses \union {"none"}]
  /\ step \in [Requests -> {"idle", "acquiring", "analyzing", "persisting", "releasing"}]
  /\ input \in [Requests -> Inputs]
  /\ token \in [Requests -> 0 .. MaxAttempts]
  /\ analysis \in [Requests -> Analyses \union {"none"}]

Init ==
  /\ snapshot = 1
  /\ covered \in [Snapshots -> BOOLEAN]
  /\ status = [i \in Inputs |-> "no_row"]
  /\ fence = [i \in Inputs |-> 0]
  /\ attempts = [i \in Inputs |-> 0]
  /\ expired = [i \in Inputs |-> FALSE]
  /\ brief = [i \in Inputs |-> "none"]
  /\ step = [m \in Requests |-> "idle"]
  /\ input = [m \in Requests |-> <<1, 0>>]
  /\ token = [m \in Requests |-> 0]
  /\ analysis = [m \in Requests |-> "none"]

Leave(m) ==
  /\ step' = [step EXCEPT ![m] = "idle"]
  /\ input' = [input EXCEPT ![m] = <<1, 0>>]
  /\ token' = [token EXCEPT ![m] = 0]
  /\ analysis' = [analysis EXCEPT ![m] = "none"]

-----------------------------------------------------------------------------
(* prepare_generation *)

\* _can_reuse
CanReuse(i) == brief[i] \in {"worded", "abstained"}

\* The loop over the retry fingerprints stops at the first input of s with
\* no brief; it ends the request when a brief can be reused or none is left.
FirstOpen(s, n) ==
  /\ brief[<<s, n>>] = "none"
  /\ \A k \in 0 .. n - 1 : brief[<<s, k>>] # "none" /\ ~CanReuse(<<s, k>>)

Lookup(m) ==
  /\ step[m] = "idle"
  /\ \E n \in 0 .. MaxRetries :
       /\ FirstOpen(snapshot, n)
       /\ input' = [input EXCEPT ![m] = <<snapshot, n>>]
  /\ step' = [step EXCEPT ![m] = "acquiring"]
  /\ UNCHANGED <<snapshot, covered, row, brief, token, analysis>>

\* Mutant of InProgress: an expired lease still counts.
InProgressForEver(i) == status[i] = "running"

InProgress(i) == status[i] = "running" /\ ~expired[i]

Exhausted(i) == attempts[i] >= MaxAttempts

\* Mutant of TakeOver: the fence token stays.
TakeOverUnfenced(m, i) ==
  /\ status' = [status EXCEPT ![i] = "running"]
  /\ fence' = [fence EXCEPT ![i] = 1]
  /\ attempts' = [attempts EXCEPT ![i] = @ + 1]
  /\ expired' = [expired EXCEPT ![i] = FALSE]
  /\ token' = [token EXCEPT ![m] = 1]

\* acquire inserts the row with token 1 or takes an ended lease over.
TakeOver(m, i) ==
  /\ status' = [status EXCEPT ![i] = "running"]
  /\ fence' = [fence EXCEPT ![i] = @ + 1]
  /\ attempts' = [attempts EXCEPT ![i] = @ + 1]
  /\ expired' = [expired EXCEPT ![i] = FALSE]
  /\ token' = [token EXCEPT ![m] = fence[i] + 1]

Acquire(m) ==
  /\ step[m] = "acquiring"
  /\ LET i == input[m] IN
       /\ status[i] # "completed" /\ ~InProgress(i) /\ ~Exhausted(i)
       /\ TakeOver(m, i)
  /\ step' = [step EXCEPT ![m] = "analyzing"]
  /\ UNCHANGED <<snapshot, covered, brief, input, analysis>>

\* In progress, exhausted, or completed since the lookup: the request ends
\* with an error or with the completed brief.
AcquireRefused(m) ==
  /\ step[m] = "acquiring"
  /\ LET i == input[m] IN status[i] = "completed" \/ InProgress(i) \/ Exhausted(i)
  /\ Leave(m)
  /\ UNCHANGED <<snapshot, covered, row, brief>>

-----------------------------------------------------------------------------
(* The analysis and persist_generation *)

\* analyze of the assisted engine: it abstains exactly without relevant
\* policy, and otherwise the model's wording is used or replaced.
Analyze(m) ==
  /\ step[m] = "analyzing"
  /\ \E a \in IF covered[input[m][1]] THEN {"worded", "fallback"} ELSE {"abstained"} :
       analysis' = [analysis EXCEPT ![m] = a]
  /\ step' = [step EXCEPT ![m] = "persisting"]
  /\ UNCHANGED <<snapshot, covered, row, brief, input, token>>

\* An unexpected error of the engine or of the persisting transaction.
Fails(m) ==
  /\ step[m] \in {"analyzing", "persisting"}
  /\ step' = [step EXCEPT ![m] = "releasing"]
  /\ UNCHANGED <<snapshot, covered, row, brief, input, token, analysis>>

\* The WHERE clause of complete and fail: the owner token is unique per
\* acquire, and so is the fence token.  The expiry is not compared.
HoldsLease(m) == status[input[m]] = "running" /\ fence[input[m]] = token[m]

\* Mutant of SnapshotStands: persisted without looking at the case again.
SnapshotAssumed(m) == TRUE

\* is_current_for_case, and create_or_get's check of the case version.
SnapshotStands(m) == input[m][1] = snapshot

\* create_or_get: the brief of an input is written once.
WriteBrief(i, a) == brief' = [brief EXCEPT ![i] = IF @ = "none" THEN a ELSE @]

\* One transaction: the brief is written and the lease completed, or
\* neither.
Persist(m) ==
  /\ step[m] = "persisting"
  /\ SnapshotStands(m)
  /\ HoldsLease(m)
  /\ LET i == input[m] IN
       /\ WriteBrief(i, analysis[m])
       /\ status' = [status EXCEPT ![i] = "completed"]
       /\ expired' = [expired EXCEPT ![i] = TRUE]
  /\ Leave(m)
  /\ UNCHANGED <<snapshot, covered, fence, attempts>>

\* The case or its evidence moved, or the lease was lost: rolled back.
PersistRefused(m) ==
  /\ step[m] = "persisting"
  /\ ~SnapshotStands(m) \/ ~HoldsLease(m)
  /\ step' = [step EXCEPT ![m] = "releasing"]
  /\ UNCHANGED <<snapshot, covered, row, brief, input, token, analysis>>

\* release_generation: fail changes the row only for the lease's holder.
Release(m) ==
  /\ step[m] = "releasing"
  /\ IF HoldsLease(m)
       THEN /\ status' = [status EXCEPT ![input[m]] = "failed"]
            /\ expired' = [expired EXCEPT ![input[m]] = TRUE]
       ELSE UNCHANGED <<status, expired>>
  /\ Leave(m)
  /\ UNCHANGED <<snapshot, covered, fence, attempts, brief>>

\* The process dies, or the release itself fails and is only logged.
Crash(m) ==
  /\ step[m] # "idle"
  /\ Leave(m)
  /\ UNCHANGED <<snapshot, covered, row, brief>>

\* Sixty seconds pass.
LeaseExpires(i) ==
  /\ status[i] = "running"
  /\ ~expired[i]
  /\ expired' = [expired EXCEPT ![i] = TRUE]
  /\ UNCHANGED <<snapshot, covered, status, fence, attempts, brief, plan>>

\* The case, its business context or the applicable policy changes.
InputsChange ==
  /\ snapshot < MaxSnapshot
  /\ snapshot' = snapshot + 1
  /\ UNCHANGED <<covered, row, brief, plan>>

-----------------------------------------------------------------------------
RequestStep(m) ==
  \/ Lookup(m) \/ Acquire(m) \/ AcquireRefused(m) \/ Analyze(m) \/ Fails(m)
  \/ Persist(m) \/ PersistRefused(m) \/ Release(m) \/ Crash(m)

Next ==
  \/ \E m \in Requests : RequestStep(m)
  \/ \E i \in Inputs : LeaseExpires(i)
  \/ InputsChange

Spec == Init /\ [][Next]_vars

\* A request keeps working unless it crashes, time passes, and someone asks
\* for the brief again: a user who was refused retries until one is shown.
\* Strong fairness of the lease: not every request dies before it has one.
Fairness ==
  /\ \A m \in Requests :
       /\ SF_vars(Acquire(m))
       /\ WF_vars(AcquireRefused(m))
       /\ WF_vars(Analyze(m) \/ Fails(m))
       /\ WF_vars(Persist(m) \/ PersistRefused(m) \/ Fails(m))
       /\ WF_vars(Release(m))
       /\ WF_vars(Lookup(m))
  /\ \A i \in Inputs : WF_vars(LeaseExpires(i))

FairSpec == Spec /\ Fairness

-----------------------------------------------------------------------------
(* Properties *)

\* A request acts for its input when it could still write the input's brief.
Acts(m, i) ==
  /\ step[m] \in {"analyzing", "persisting"}
  /\ input[m] = i
  /\ HoldsLease(m)

\* However many leases of an input were taken over while their first holders
\* still computed, one request at most can still write its brief.
OneWriter ==
  \A i \in Inputs : Cardinality({m \in Requests : Acts(m, i)}) <= 1

\* A completed generation has its immutable brief and a brief belongs to a
\* completed generation, so "The completed generation is missing its
\* immutable decision brief" is never raised.
CompletedHasBrief ==
  \A i \in Inputs : status[i] = "completed" <=> brief[i] # "none"

\* A retry fingerprint is used only after the briefs before it fell back:
\* one snapshot never has two briefs that later requests would both reuse.
OneAcceptedBrief ==
  \A s \in Snapshots : \A n \in 1 .. MaxRetries :
    brief[<<s, n>>] # "none" => \A k \in 0 .. n - 1 : brief[<<s, k>>] = "fallback"

\* Generations stay consistent, however leases pass from request to request.
GenerationsAreSound == TypeOK /\ OneWriter /\ CompletedHasBrief /\ OneAcceptedBrief

\* A brief is written only while the case and its policies are as they were
\* when its input was read, and never by a request whose lease is gone.
WrittenForTheCurrentCase ==
  [][\A i \in Inputs : brief'[i] # brief[i]
       => /\ brief[i] = "none"
          /\ i[1] = snapshot
          /\ \E m \in Requests : Acts(m, i)]_vars

\* Nothing waits for ever on a dead request's lease: a snapshot that stays
\* gets a reusable brief, or uses one of its budgets up (the retry attempts
\* of an input or the retry fingerprints).
SettledOrExhausted ==
  \A s \in Snapshots :
    (snapshot = s) ~>
      \/ snapshot # s
      \/ \E n \in 0 .. MaxRetries : CanReuse(<<s, n>>) \/ Exhausted(<<s, n>>)
      \/ \A n \in 0 .. MaxRetries : brief[<<s, n>>] # "none"
=============================================================================
