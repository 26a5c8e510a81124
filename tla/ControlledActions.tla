-------------------------- MODULE ControlledActions --------------------------
(***************************************************************************)
(* The controlled actions of one approved review: what an operator's       *)
(* execute, retry, check-target, record-outcome and escalate commands do   *)
(* to the action rows, to the durable attempt and reconciliation leases,   *)
(* and to the external target (backend/app/persistence/actions,            *)
(* services/action_service.py, integrations/*action_gateway.py).           *)
(*                                                                         *)
(* A command runs in three phases: a transaction that validates the row    *)
(* and commits a lease, a gateway call outside any transaction, and a      *)
(* transaction that stores the outcome.  Each transaction is one step: it  *)
(* holds the row lock of its action from the first read to the commit, and *)
(* an exception rolls it back, so a refused command changes nothing and    *)
(* has no step here.                                                       *)
(***************************************************************************)
EXTENDS Naturals, FiniteSets

CONSTANTS
  Actions,        \* the actions one approved review created
  Operators,      \* the signed-in members; each has at most one command in the server
  MaxAttempts,    \* bound: execution attempts per action
  LateWrites,     \* bound: the kinds of target considered, see lateWrites
  Lapses,         \* bound: the ways the approval may stop authorizing
  Outages,        \* bound: the ways the connection may stop being eligible
  NoAction        \* the action of a call that holds no lease

ASSUME MaxAttemptsAssumption == MaxAttempts \in Nat \ {0}
ASSUME LateWritesAssumption == LateWrites \subseteq BOOLEAN
ASSUME LapsesAssumption == Lapses \subseteq {"expired", "superseded"}
ASSUME OutagesAssumption == Outages \subseteq {"ineligible", "unconfigured"}
ASSUME NoActionAssumption == NoAction \notin Actions

VARIABLES
  status,         \* CaseActionModel.status
  attempt,        \* outcome of each numbered CaseActionAttemptModel row
  attemptCount,   \* CaseActionModel.attempt_count
  aged,           \* the running attempt started five minutes ago or earlier
  receipt,        \* a CaseActionReceiptModel row exists
  checkRunning,   \* a CaseActionReconciliationModel row has outcome running
  lastCheck,      \* outcome of the reconciliation row with the latest checked_at
  humanConfirmed, \* a manual confirmed_completed reconciliation row exists
  current,        \* operators whose last-read action version is the stored one
  caseStatus,     \* CaseModel.status, as far as the actions read it
  caseMatches,    \* case.version = snapshot.case_version
  approval,       \* what became of the review's authority to execute
  connection,     \* the target connection as the eligibility check sees it
  lateWrites,     \* fixed: a write sent earlier may reach the target after the
                  \* target has answered "absent for good" for its key
  call,           \* the operator's command inside the server
  requests,       \* writes handed to the network and not yet handled
  changes         \* real changes the target made for the action's key

row == <<status, attempt, attemptCount, aged, receipt>>
checks == <<checkRunning, lastCheck, humanConfirmed>>
caseVars == <<caseStatus, caseMatches>>
authority == <<approval, connection, lateWrites>>
target == <<requests, changes>>
vars == <<row, checks, current, caseVars, authority, call, target>>

-----------------------------------------------------------------------------
(* Values *)

ActionStatus == {"ready", "running", "completed", "failed_safe",
                 "outcome_unknown", "recovery_required"}
RecoveryStatuses == {"outcome_unknown", "recovery_required"}
AttemptOutcome == {"absent", "running", "succeeded", "failed_before_change",
                   "unknown"}
ReconciliationOutcome == {"none", "running", "confirmed_completed",
                          "confirmed_absent", "still_unknown"}

\* What the gateway call returned: a receipt, an ActionGatewayError with its
\* side-effect state, or a lookup result.
\* Mutant of SafeErrors: an error that leaves a change possible counts as safe.
UnsafeErrorsToo == {"not_attempted", "no_change", "possible"}

SafeErrors == {"not_attempted", "no_change"}

ExecuteAnswers == {"receipt", "possible"} \union SafeErrors
LookupAnswers == {"found", "absent_for_good", "unclear"}
Answers == ExecuteAnswers \union LookupAnswers \union {"none"}

AttemptNumbers == 1 .. MaxAttempts
Stages == {"idle", "sending", "awaiting", "finishing", "checking", "closing"}
Calls == [stage  : Stages,
          action : Actions \union {NoAction},
          number : 0 .. MaxAttempts,
          answer : Answers]
Idle == [stage |-> "idle", action |-> NoAction, number |-> 0, answer |-> "none"]
Requests == [action : Actions, number : AttemptNumbers]

LatestAttempt(a) ==
  IF attemptCount[a] = 0 THEN "absent" ELSE attempt[a][attemptCount[a]]

\* The request an operator's execution lease stands for.
RequestOf(o) == [action |-> call[o].action, number |-> call[o].number]

\* Writes for a that may still reach the target: in the network, or leased
\* by a call that has not issued them yet.
Outstanding(a) ==
  {r \in requests : r.action = a}
    \union {RequestOf(o) : o \in {p \in Operators :
                              call[p].stage = "sending" /\ call[p].action = a}}

-----------------------------------------------------------------------------
(* Init: the review has just been approved and its actions materialized in *)
(* the same transaction.                                                   *)

Init ==
  /\ status = [a \in Actions |-> "ready"]
  /\ attempt = [a \in Actions |-> [n \in AttemptNumbers |-> "absent"]]
  /\ attemptCount = [a \in Actions |-> 0]
  /\ aged = [a \in Actions |-> FALSE]
  /\ receipt = [a \in Actions |-> FALSE]
  /\ checkRunning = [a \in Actions |-> FALSE]
  /\ lastCheck = [a \in Actions |-> "none"]
  /\ humanConfirmed = [a \in Actions |-> FALSE]
  /\ current = [a \in Actions |-> {}]
  /\ caseStatus = "needs_review"
  /\ caseMatches = TRUE
  /\ approval = "valid"
  /\ connection = "eligible"
  /\ lateWrites \in LateWrites
  /\ call = [o \in Operators |-> Idle]
  /\ requests = {}
  /\ changes = [a \in Actions |-> 0]

-----------------------------------------------------------------------------
(* Pieces shared by the handlers *)

\* Mutant of BumpVersion: a handler forgets the version.
VersionUnmoved(a) == UNCHANGED current

\* action.version += 1: whatever any operator has read before is stale.
BumpVersion(a) == current' = [current EXCEPT ![a] = {}]

\* _effective_blocker is not None.
Blocked(a) ==
  \/ status[a] = "completed" \/ receipt[a]
  \/ approval # "valid"
  \/ ~caseMatches
  \/ connection # "eligible"

\* _retry_is_safe
RetryIsSafe(a) ==
  \/ lastCheck[a] = "confirmed_absent"
  \/ LatestAttempt(a) = "failed_before_change"

\* Mutant of AdvanceCase: the case is closed instead of moved on.
CompletesTheCase == caseStatus' = "completed" /\ caseMatches' = FALSE

\* Mutant of AdvanceCase: the case version stays.
MovesStatusOnly == caseStatus' = "in_progress" /\ UNCHANGED caseMatches

\* _advance_case_after_completion
AdvanceCase ==
  IF caseStatus = "needs_review"
    THEN caseStatus' = "in_progress" /\ caseMatches' = FALSE
    ELSE UNCHANGED caseVars

\* Mutant of Abandoned: the age comparison is reversed.
CutoffReversed(a) == ~aged[a] /\ LatestAttempt(a) = "running"

\* The running attempts _reconcile_abandoned finds old enough.
Abandoned(a) == aged[a] /\ LatestAttempt(a) = "running"

\* _reconcile_abandoned over the actions in as: the attempt becomes unknown,
\* the action too if it is still running.
ReconcileAbandoned(as) ==
  LET lost == {a \in as : Abandoned(a)} IN
  /\ attempt' = [a \in Actions |->
       IF a \in lost THEN [attempt[a] EXCEPT ![attemptCount[a]] = "unknown"]
                     ELSE attempt[a]]
  /\ status' = [a \in Actions |->
       IF a \in lost /\ status[a] = "running" THEN "outcome_unknown"
                                              ELSE status[a]]

-----------------------------------------------------------------------------
(* Reads.  Both commit the abandonment they find. *)

\* ActionQueryRepository.get and list: the sweep covers the actions in as
\* (one action for get, the whole queue for list), and o now knows the
\* versions of the ones shown.
Read(o, as, shown) ==
  /\ ReconcileAbandoned(as)
  /\ current' = [a \in Actions |->
       (IF status'[a] # status[a] THEN {} ELSE current[a])
         \union (IF a \in shown THEN {o} ELSE {})]
  /\ UNCHANGED <<attemptCount, aged, receipt, checks, caseVars, authority,
                 call, target>>

Get(o, a) == Read(o, {a}, {a})

List(o) == Read(o, Actions, Actions)

-----------------------------------------------------------------------------
(* execute and retry_safe *)

MayStart(o, a) ==
  /\ call[o].stage = "idle"
  /\ o \in current[a]
  /\ ~Blocked(a)
  /\ attemptCount[a] < MaxAttempts

\* prepare_execution, after its checks.
StartAttempt(o, a) ==
  LET n == attemptCount[a] + 1 IN
  /\ attempt' = [attempt EXCEPT ![a][n] = "running"]
  /\ attemptCount' = [attemptCount EXCEPT ![a] = n]
  /\ aged' = [aged EXCEPT ![a] = FALSE]
  /\ status' = [status EXCEPT ![a] = "running"]
  /\ BumpVersion(a)
  /\ call' = [call EXCEPT ![o] =
       [stage |-> "sending", action |-> a, number |-> n, answer |-> "none"]]
  /\ UNCHANGED <<receipt, checks, caseVars, authority, target>>

Execute(o, a) ==
  /\ MayStart(o, a)
  /\ status[a] = "ready"
  /\ StartAttempt(o, a)

RetrySafe(o, a) ==
  /\ MayStart(o, a)
  /\ status[a] = "failed_safe"
  /\ RetryIsSafe(a)
  /\ StartAttempt(o, a)

-----------------------------------------------------------------------------
(* The gateway call *)

\* The call c goes on to a stage with the answer it got.
Advance(c, stage, answer) == [c EXCEPT !.stage = stage, !.answer = answer]

CallReturns(o, stage, answer) ==
  call' = [call EXCEPT ![o] = Advance(@, stage, answer)]

\* The target could not be reached, or no adapter is registered: the error
\* says the write was not attempted.
GatewayUnreachable(o) ==
  /\ call[o].stage = "sending"
  /\ CallReturns(o, "finishing", "not_attempted")
  /\ UNCHANGED <<row, checks, current, caseVars, authority, target>>

GatewaySend(o) ==
  /\ call[o].stage = "sending"
  /\ requests' = requests \union {RequestOf(o)}
  /\ CallReturns(o, "awaiting", "none")
  /\ UNCHANGED <<row, checks, current, caseVars, authority, changes>>

\* The answer of the target to request r, delivered to the call that still
\* waits for it; nobody waits after a timeout or a crash.
Deliver(r, answer) ==
  call' = [o \in Operators |->
    IF call[o].stage = "awaiting" /\ RequestOf(o) = r
      THEN Advance(call[o], "finishing", answer)
      ELSE call[o]]

\* The target looks the idempotency key up first: a key already bound to a
\* change makes no other one.
BindKey(n) == IF n = 0 THEN 1 ELSE n

\* The target makes the change unless the idempotency key is already bound
\* to one; either way it returns the receipt of that change.
TargetAccepts(r) ==
  /\ r \in requests
  /\ requests' = requests \ {r}
  /\ changes' = [changes EXCEPT ![r.action] = BindKey(@)]
  /\ Deliver(r, "receipt")
  /\ UNCHANGED <<row, checks, current, caseVars, authority>>

\* Refused before any change; the key lookup comes first, so never when the
\* change is already there.
TargetRefuses(r) ==
  /\ r \in requests
  /\ changes[r.action] = 0
  /\ requests' = requests \ {r}
  /\ Deliver(r, "no_change")
  /\ UNCHANGED <<row, checks, current, caseVars, authority, changes>>

\* The request is lost on the way, or fails inside the target: no change,
\* and the caller gets no usable confirmation.
RequestLost(r) ==
  /\ r \in requests
  /\ requests' = requests \ {r}
  /\ Deliver(r, "possible")
  /\ UNCHANGED <<row, checks, current, caseVars, authority, changes>>

\* Timeout, interrupted response, non-2xx status, invalid, mismatching or
\* oversized confirmation, or any other exception: a change is possible, and
\* the write may still be on its way.
GatewayUnconfirmed(o) ==
  /\ call[o].stage = "awaiting"
  /\ CallReturns(o, "finishing", "possible")
  /\ UNCHANGED <<row, checks, current, caseVars, authority, target>>

-----------------------------------------------------------------------------
(* Storing the outcome of an attempt *)

\* Mutant of HoldsRunningAttempt: a late outcome is stored too.
HoldsAnyAttempt(o, a) ==
  /\ call[o].stage = "finishing"
  /\ a = call[o].action

HoldsRunningAttempt(o, a) ==
  /\ call[o].stage = "finishing"
  /\ a = call[o].action
  /\ attempt[a][call[o].number] = "running"

\* The end of a command that stores outcome for the attempt and new for the
\* action.
CloseAttempt(o, a, outcome, new) ==
  /\ attempt' = [attempt EXCEPT ![a][call[o].number] = outcome]
  /\ status' = [status EXCEPT ![a] = new]
  /\ BumpVersion(a)
  /\ call' = [call EXCEPT ![o] = Idle]
  /\ UNCHANGED <<attemptCount, aged, checks, authority, target>>

FinishExecutionSuccess(o, a) ==
  /\ HoldsRunningAttempt(o, a)
  /\ call[o].answer = "receipt"
  /\ receipt' = [receipt EXCEPT ![a] = TRUE]
  /\ AdvanceCase
  /\ CloseAttempt(o, a, "succeeded", "completed")

FinishExecutionError(o, a) ==
  /\ HoldsRunningAttempt(o, a)
  /\ call[o].answer # "receipt"
  /\ \/ /\ call[o].answer \in SafeErrors
        /\ CloseAttempt(o, a, "failed_before_change", "failed_safe")
     \/ /\ call[o].answer \notin SafeErrors
        /\ CloseAttempt(o, a, "unknown", "outcome_unknown")
  /\ UNCHANGED <<receipt, caseVars>>

\* The attempt was marked abandoned meanwhile: the outcome, a receipt
\* included, is dropped (a conflict for a receipt, a plain read for an error).
FinishTooLate(o, a) ==
  /\ call[o].stage = "finishing"
  /\ a = call[o].action
  /\ attempt[a][call[o].number] # "running"
  /\ call' = [call EXCEPT ![o] = Idle]
  /\ UNCHANGED <<row, checks, current, caseVars, authority, target>>

-----------------------------------------------------------------------------
(* Recovery *)

\* The checks reconcile and record_manual_outcome share.
MayRecover(o, a) ==
  /\ call[o].stage = "idle"
  /\ o \in current[a]
  /\ status[a] \in RecoveryStatuses
  /\ LatestAttempt(a) = "unknown"

\* Mutant of CheckIsFree: no look for a running check.
ChecksMayOverlap(a) == TRUE

\* No reconciliation row of the action is running.
CheckIsFree(a) == ~checkRunning[a]

PrepareReconciliation(o, a) ==
  /\ MayRecover(o, a)
  /\ connection # "unconfigured"
  /\ CheckIsFree(a)
  /\ checkRunning' = [checkRunning EXCEPT ![a] = TRUE]
  /\ lastCheck' = [lastCheck EXCEPT ![a] = "running"]
  /\ BumpVersion(a)
  /\ call' = [call EXCEPT ![o] =
       [stage |-> "checking", action |-> a, number |-> 0, answer |-> "none"]]
  /\ UNCHANGED <<row, humanConfirmed, caseVars, authority, target>>

\* What a target that keeps its promises may answer to a lookup of the key.
LookupAnswer(a, answer) ==
  /\ answer = "found" => changes[a] > 0
  /\ answer = "absent_for_good" =>
       changes[a] = 0 /\ (lateWrites \/ Outstanding(a) = {})

GatewayReconcile(o) ==
  /\ call[o].stage = "checking"
  /\ \E answer \in LookupAnswers :
       /\ LookupAnswer(call[o].action, answer)
       /\ CallReturns(o, "closing", answer)
  /\ UNCHANGED <<row, checks, current, caseVars, authority, target>>

\* Mutant of OutcomeForLookup: any miss counts as absence.
MissProvesAbsence(answer) ==
  IF answer = "found" THEN "confirmed_completed" ELSE "confirmed_absent"

\* reconciliation_outcome_for_lookup: only terminal absence proves absence.
OutcomeForLookup(answer) ==
  IF answer = "found" THEN "confirmed_completed"
  ELSE IF answer = "absent_for_good" THEN "confirmed_absent"
  ELSE "still_unknown"

\* finish_reconciliation.  Its only guard is that the reconciliation row is
\* still running: the action's status and version are not looked at.
FinishReconciliation(o, a) ==
  LET outcome == OutcomeForLookup(call[o].answer) IN
  /\ call[o].stage = "closing"
  /\ a = call[o].action
  /\ checkRunning[a]
  /\ \/ /\ outcome = "confirmed_completed"
        /\ receipt' = [receipt EXCEPT ![a] = TRUE]
        /\ status' = [status EXCEPT ![a] = "completed"]
        /\ AdvanceCase
     \/ /\ outcome = "confirmed_absent"
        /\ status' = [status EXCEPT ![a] = "failed_safe"]
        /\ UNCHANGED <<receipt, caseVars>>
     \/ /\ outcome = "still_unknown"
        /\ status' = [status EXCEPT ![a] = "outcome_unknown"]
        /\ UNCHANGED <<receipt, caseVars>>
  /\ checkRunning' = [checkRunning EXCEPT ![a] = FALSE]
  /\ lastCheck' = [lastCheck EXCEPT ![a] = outcome]
  /\ BumpVersion(a)
  /\ call' = [call EXCEPT ![o] = Idle]
  /\ UNCHANGED <<attempt, attemptCount, aged, humanConfirmed, authority, target>>

\* record_manual_outcome: completed closes the action without a receipt,
\* not_completed leaves it unknown.  A running check does not stop it.
RecordManualOutcome(o, a) ==
  /\ MayRecover(o, a)
  /\ \/ /\ status' = [status EXCEPT ![a] = "completed"]
        /\ lastCheck' = [lastCheck EXCEPT ![a] = "confirmed_completed"]
        /\ humanConfirmed' = [humanConfirmed EXCEPT ![a] = TRUE]
        /\ AdvanceCase
     \/ /\ status' = [status EXCEPT ![a] = "outcome_unknown"]
        /\ lastCheck' = [lastCheck EXCEPT ![a] = "still_unknown"]
        /\ UNCHANGED <<humanConfirmed, caseVars>>
  /\ BumpVersion(a)
  /\ UNCHANGED <<attempt, attemptCount, aged, receipt, checkRunning, authority,
                 call, target>>

Escalate(o, a) ==
  /\ call[o].stage = "idle"
  /\ o \in current[a]
  /\ status[a] \in {"failed_safe"} \union RecoveryStatuses
  /\ status' = [status EXCEPT ![a] = "recovery_required"]
  /\ BumpVersion(a)
  /\ UNCHANGED <<attempt, attemptCount, aged, receipt, checks, caseVars,
                 authority, call, target>>

-----------------------------------------------------------------------------
(* Time, failures, and the rest of the system *)

\* Five minutes pass since the running attempt started.
AttemptAges(a) ==
  /\ LatestAttempt(a) = "running"
  /\ ~aged[a]
  /\ aged' = [aged EXCEPT ![a] = TRUE]
  /\ UNCHANGED <<status, attempt, attemptCount, receipt, checks, current,
                 caseVars, authority, call, target>>

\* The server process dies, or the final transaction fails: the command is
\* gone, its lease and any write it issued are not.
Crash(o) ==
  /\ call[o].stage # "idle"
  /\ call' = [call EXCEPT ![o] = Idle]
  /\ UNCHANGED <<row, checks, current, caseVars, authority, target>>

\* Any command on the case: the version moves on, perhaps the status too.
CaseCommand ==
  /\ caseMatches' = FALSE
  /\ \E s \in {"needs_review", "in_progress"} : caseStatus' = s
  /\ UNCHANGED <<row, checks, current, authority, call, target>>

\* The authorization runs out, or a new proposal version supersedes the
\* approved one.
ApprovalLapses ==
  /\ approval = "valid"
  /\ approval' \in Lapses
  /\ UNCHANGED <<row, checks, current, caseVars, connection, lateWrites,
                 call, target>>

\* A health check, its age, or the configuration changes what the connection
\* may be used for.
ConnectionChanges ==
  /\ connection' \in ({"eligible"} \union Outages) \ {connection}
  /\ UNCHANGED <<row, checks, current, caseVars, approval, lateWrites,
                 call, target>>

-----------------------------------------------------------------------------
GatewayStep(o) ==
  \/ GatewayUnreachable(o)
  \/ GatewaySend(o)
  \/ GatewayUnconfirmed(o)
  \/ GatewayReconcile(o)

FinishStep(o) ==
  \E a \in Actions :
    \/ FinishExecutionSuccess(o, a)
    \/ FinishExecutionError(o, a)
    \/ FinishTooLate(o, a)
    \/ FinishReconciliation(o, a)

Next ==
  \/ \E o \in Operators, a \in Actions :
       \/ Get(o, a)
       \/ Execute(o, a)
       \/ RetrySafe(o, a)
       \/ PrepareReconciliation(o, a)
       \/ RecordManualOutcome(o, a)
       \/ Escalate(o, a)
  \/ \E o \in Operators :
       List(o) \/ GatewayStep(o) \/ FinishStep(o) \/ Crash(o)
  \/ \E r \in requests : TargetAccepts(r) \/ TargetRefuses(r) \/ RequestLost(r)
  \/ \E a \in Actions : AttemptAges(a)
  \/ CaseCommand
  \/ ApprovalLapses
  \/ ConnectionChanges

Spec == Init /\ [][Next]_vars

\* The server's threads make progress, time passes, and somebody opens the
\* action queue again and again.  No operator is obliged to issue a command,
\* and the target owes no answer.
Fairness ==
  /\ \A o \in Operators : WF_vars(GatewayStep(o)) /\ WF_vars(FinishStep(o))
  /\ \A a \in Actions : WF_vars(AttemptAges(a))
  /\ WF_vars(\E o \in Operators : List(o))

FairSpec == Spec /\ Fairness

-----------------------------------------------------------------------------
(* Properties *)

\* The state is what the columns and the gateway's types allow; an attempt
\* row exists exactly for the numbers up to attempt_count.
TypeOK ==
  /\ status \in [Actions -> ActionStatus]
  /\ attempt \in [Actions -> [AttemptNumbers -> AttemptOutcome]]
  /\ attemptCount \in [Actions -> 0 .. MaxAttempts]
  /\ aged \in [Actions -> BOOLEAN]
  /\ receipt \in [Actions -> BOOLEAN]
  /\ checkRunning \in [Actions -> BOOLEAN]
  /\ lastCheck \in [Actions -> ReconciliationOutcome]
  /\ humanConfirmed \in [Actions -> BOOLEAN]
  /\ current \in [Actions -> SUBSET Operators]
  /\ caseStatus \in {"needs_review", "in_progress"}
  /\ caseMatches \in BOOLEAN
  /\ approval \in {"valid", "expired", "superseded"}
  /\ connection \in {"eligible", "ineligible", "unconfigured"}
  /\ lateWrites \in BOOLEAN
  /\ call \in [Operators -> Calls]
  /\ requests \subseteq Requests
  /\ changes \in [Actions -> Nat]
  /\ \A a \in Actions, n \in AttemptNumbers :
       attempt[a][n] = "absent" <=> n > attemptCount[a]

\* An action is running exactly while its newest attempt is, and no older
\* attempt is ever still running (uq_case_action_attempts_running would refuse
\* a second one), although attempts are closed from three places: the finishing
\* call, the sweep of the queue, and the sweep of a single read.
OneRunningAttempt ==
  \A a \in Actions :
    /\ status[a] = "running" <=> LatestAttempt(a) = "running"
    /\ \A n \in AttemptNumbers :
         attempt[a][n] = "running" => n = attemptCount[a]

\* While a check of the target is running no attempt is, and the attempt being
\* checked is still the newest one and still unknown.  This is what makes it
\* sound that finish_reconciliation applies its answer without looking at the
\* action again.
CheckExcludesAttempt ==
  \A a \in Actions :
    checkRunning[a] =>
      /\ LatestAttempt(a) = "unknown"
      /\ status[a] \in RecoveryStatuses \union {"completed"}

Writing(o) == call[o].stage \in {"sending", "awaiting", "finishing"}
Checking(o) == call[o].stage \in {"checking", "closing"}

LeaseMatchesRows(o) ==
  LET a == call[o].action IN
  /\ Writing(o) => a \in Actions /\ call[o].number \in 1 .. attemptCount[a]
  /\ Checking(o) => a \in Actions /\ checkRunning[a]
  /\ call[o].stage = "finishing" => call[o].answer \in ExecuteAnswers
  /\ call[o].stage = "closing" => call[o].answer \in LookupAnswers
  /\ (Writing(o) \/ Checking(o)) /\ call[o].answer \in {"receipt", "found"}
       => changes[a] = 1

\* The leases in memory agree with the rows: a call with a write has an attempt
\* row of its own number, a call that checks the target has its reconciliation
\* row still running and is the only one checking that action, and a receipt in
\* hand (from the write or from the lookup) is that of a change that was made.
\* So the early return of finish_reconciliation for a row that is no longer
\* running is never taken, and two checks never apply their answers in turn.
LeasesHold ==
  /\ \A o \in Operators : LeaseMatchesRows(o)
  /\ \A o, p \in Operators :
       Checking(o) /\ Checking(p) /\ call[o].action = call[p].action => o = p

\* Writes and checks of an action exclude each other, in the rows and between
\* the rows and the calls in memory.
Exclusion == OneRunningAttempt /\ CheckExcludesAttempt /\ LeasesHold

\* The target makes at most one change for an action, however many attempts,
\* late writes, timeouts and crashes there are: every attempt carries the same
\* server-owned idempotency key.
AtMostOneChange == \A a \in Actions : changes[a] <= 1

\* A receipt is only ever stored for a change that was made, and an action
\* with a receipt is completed and stays so: the late end of a check, the
\* sweep and a late error never take it back.
ReceiptIsFinal ==
  \A a \in Actions : receipt[a] => changes[a] = 1 /\ status[a] = "completed"

\* A completed action rests on evidence: a receipt or a human's confirmation.
CompletedHasEvidence ==
  \A a \in Actions : status[a] = "completed" => receipt[a] \/ humanConfirmed[a]

\* The target's one change is accounted for: never repeated, never recorded
\* without having happened, never taken back once recorded.
ChangeIsAccounted == AtMostOneChange /\ ReceiptIsFinal /\ CompletedHasEvidence

\* Once an action was completed, by a receipt or by a human, no further attempt
\* of it starts, whatever status a check that ends later writes over it.
ClosedNeverReattempted ==
  [][\A a \in Actions :
       receipt[a] \/ humanConfirmed[a] => attemptCount'[a] = attemptCount[a]]_vars

\* The completion of one action moves the case on, so none of the actions the
\* same review approved may start afterwards: a review that authorizes several
\* actions lets the others run only if they started before.
CompletionBlocksSiblings ==
  \A a, b \in Actions : receipt[a] \/ humanConfirmed[a] => Blocked(b)

\* Whatever a step changes in an action that an operator may act on, it also
\* moves the version: afterwards nobody but the one reader that triggered the
\* sweep holds a version that a command would accept.
ChangeMovesVersion ==
  [][\A a \in Actions :
       (\/ status'[a] # status[a]
        \/ attempt'[a] # attempt[a]
        \/ lastCheck'[a] # lastCheck[a])
         => \E o \in Operators : current'[a] \subseteq {o}]_vars

\* "Evidence proves the target was not changed": a failed_safe action has no
\* change at the target and no write on its way there, provided the target's
\* terminal absence covers outstanding writes.
FailedSafeIsUnchanged ==
  \A a \in Actions :
    status[a] = "failed_safe" /\ ~lateWrites => changes[a] = 0 /\ Outstanding(a) = {}

\* A new attempt starts from a clean slate: nothing is recorded, and under the
\* same promise nothing is changed and no older write is on its way.  The
\* idempotency key is a second line of defence, not the first.
AttemptsStartClean ==
  [][\A a \in Actions :
       attemptCount'[a] # attemptCount[a] =>
         /\ ~receipt[a] /\ ~humanConfirmed[a]
         /\ ~lateWrites => changes[a] = 0 /\ Outstanding(a) = {}]_vars

\* A running action does not stay running: its call ends or, after a crash,
\* the sweep of the queue marks it unknown.
RunningEnds ==
  \A a \in Actions : (status[a] = "running") ~> (status[a] # "running")

=============================================================================
