----------------------- MODULE ControlledActionsProofs -----------------------
(***************************************************************************)
(* Proofs about ControlledActions for any set of actions and operators and *)
(* any number of attempts.                                                 *)
(***************************************************************************)
EXTENDS ControlledActions, TLAPS

\* The case still matches the reviewed snapshot only while it is in review and
\* no action of the review was completed: completing one moves the case on.
CaseFollowsCompletion ==
  /\ caseMatches => caseStatus = "needs_review"
  /\ \A a \in Actions : receipt[a] \/ humanConfirmed[a] => ~caseMatches

\* A check never runs on an action that has a receipt, which is why a check
\* that ends late cannot overwrite one.
NoCheckAfterReceipt == \A a \in Actions : receipt[a] => ~checkRunning[a]

\* The inductive invariant.
Inv ==
  /\ TypeOK
  /\ OneRunningAttempt
  /\ CheckExcludesAttempt
  /\ LeasesHold
  /\ AtMostOneChange
  /\ ReceiptIsFinal
  /\ CompletedHasEvidence
  /\ NoCheckAfterReceipt
  /\ CaseFollowsCompletion

-----------------------------------------------------------------------------

USE DEF ActionStatus, RecoveryStatuses, AttemptOutcome, ReconciliationOutcome,
        SafeErrors, ExecuteAnswers, LookupAnswers, Answers, AttemptNumbers,
        Stages, Calls, Idle, Requests

\* The initial state, right after the approval, satisfies the invariant.
LEMMA InitInv == Init => Inv
<1>. SUFFICES ASSUME Init PROVE Inv
  OBVIOUS
<1>1. TypeOK
  BY MaxAttemptsAssumption, LateWritesAssumption DEF Init, TypeOK
<1>2. OneRunningAttempt /\ CheckExcludesAttempt
  BY DEF Init, OneRunningAttempt, CheckExcludesAttempt, LatestAttempt
<1>3. LeasesHold
  BY DEF Init, LeasesHold, LeaseMatchesRows, Writing, Checking
<1>4. AtMostOneChange /\ ReceiptIsFinal /\ CompletedHasEvidence /\ NoCheckAfterReceipt
  BY DEF Init, AtMostOneChange, ReceiptIsFinal, CompletedHasEvidence, NoCheckAfterReceipt
<1>5. CaseFollowsCompletion
  BY DEF Init, CaseFollowsCompletion
<1>. QED
  BY <1>1, <1>2, <1>3, <1>4, <1>5 DEF Inv

\* Starting an attempt (prepare_execution, for execute and retry_safe).
LEMMA StartInv ==
  ASSUME Inv, NEW o \in Operators, NEW a \in Actions,
         MayStart(o, a), status[a] \in {"ready", "failed_safe"}, StartAttempt(o, a)
  PROVE  Inv'
<1>. USE MaxAttemptsAssumption DEF Inv, MayStart, StartAttempt, BumpVersion, checks, caseVars, authority, target
<1>1. TypeOK'
  <2>. DEFINE n == attemptCount[a] + 1
  <2>1. n \in AttemptNumbers /\ n \in 0 .. MaxAttempts
    BY DEF TypeOK
  <2>2. attempt' \in [Actions -> [AttemptNumbers -> AttemptOutcome]]
    BY <2>1 DEF TypeOK
  <2>3. \A b \in Actions, m \in AttemptNumbers :
          attempt'[b][m] = "absent" <=> m > attemptCount'[b]
    BY <2>1 DEF TypeOK
  <2>4. call' \in [Operators -> Calls]
    BY <2>1 DEF TypeOK
  <2>. QED
    BY <2>1, <2>2, <2>3, <2>4 DEF TypeOK
<1>2. OneRunningAttempt'
  BY DEF TypeOK, OneRunningAttempt, LatestAttempt
<1>3. CheckExcludesAttempt'
  BY DEF TypeOK, CheckExcludesAttempt, LatestAttempt
<1>4. LeasesHold'
  BY DEF TypeOK, LeasesHold, LeaseMatchesRows, Writing, Checking
<1>5. (AtMostOneChange /\ ReceiptIsFinal /\ CompletedHasEvidence /\ NoCheckAfterReceipt)'
  BY DEF TypeOK, AtMostOneChange, ReceiptIsFinal, CompletedHasEvidence, NoCheckAfterReceipt, Blocked
<1>6. CaseFollowsCompletion'
  BY DEF CaseFollowsCompletion
<1>. QED
  BY <1>1, <1>2, <1>3, <1>4, <1>5, <1>6

\* Moving a call on keeps its lease.
LEMMA AdvanceKeepsLease ==
  ASSUME NEW c \in Calls, NEW stage \in Stages, NEW answer \in Answers
  PROVE  /\ Advance(c, stage, answer) \in Calls
         /\ Advance(c, stage, answer).stage = stage
         /\ Advance(c, stage, answer).answer = answer
         /\ Advance(c, stage, answer).action = c.action
         /\ Advance(c, stage, answer).number = c.number
BY DEF Advance

\* Reading an action or the queue, with the sweep of abandoned attempts.
LEMMA ReadInv ==
  ASSUME Inv, NEW o \in Operators, NEW as \in SUBSET Actions,
         NEW shown \in SUBSET Actions, Read(o, as, shown)
  PROVE  Inv'
<1>. USE DEF Inv
<1>. DEFINE Swept(a) ==
              /\ status[a] = "running" /\ status'[a] = "outcome_unknown"
              /\ attemptCount[a] \in AttemptNumbers
              /\ attempt[a][attemptCount[a]] = "running"
              /\ attempt'[a][attemptCount[a]] = "unknown"
              /\ \A m \in AttemptNumbers \ {attemptCount[a]} :
                   attempt'[a][m] = attempt[a][m]
<1>1. \A a \in Actions :
        /\ attempt'[a] \in [AttemptNumbers -> AttemptOutcome]
        /\ (attempt'[a] = attempt[a] /\ status'[a] = status[a]) \/ Swept(a)
  <2>. SUFFICES ASSUME NEW a \in Actions
                PROVE  /\ attempt'[a] \in [AttemptNumbers -> AttemptOutcome]
                       /\ (attempt'[a] = attempt[a] /\ status'[a] = status[a]) \/ Swept(a)
    OBVIOUS
  <2>1. attempt[a] \in [AttemptNumbers -> AttemptOutcome]
    BY DEF TypeOK
  <2>2. CASE a \in as /\ Abandoned(a)
    <3>1. status[a] = "running" /\ attemptCount[a] \in AttemptNumbers
                                /\ attempt[a][attemptCount[a]] = "running"
      BY <2>2, MaxAttemptsAssumption DEF Abandoned, OneRunningAttempt, LatestAttempt, TypeOK
    <3>2. /\ status'[a] = "outcome_unknown"
          /\ attempt'[a] = [attempt[a] EXCEPT ![attemptCount[a]] = "unknown"]
      BY <2>2, <3>1 DEF Read, ReconcileAbandoned
    <3>. QED
      BY <2>1, <3>1, <3>2
  <2>3. CASE ~(a \in as /\ Abandoned(a))
    BY <2>1, <2>3 DEF Read, ReconcileAbandoned
  <2>. QED
    BY <2>2, <2>3
<1>2. /\ DOMAIN attempt' = Actions /\ attempt' = [a \in Actions |-> attempt'[a]]
      /\ status' = [a \in Actions |-> status'[a]]
      /\ current' \in [Actions -> SUBSET Operators]
      /\ UNCHANGED <<attemptCount, aged, receipt, checks, caseVars, authority, call, target>>
  BY DEF Read, ReconcileAbandoned, TypeOK
<1>. USE <1>1, <1>2 DEF checks, caseVars, authority, target
<1>3. TypeOK'
  <2>1. attempt' \in [Actions -> [AttemptNumbers -> AttemptOutcome]]
    BY DEF TypeOK
  <2>2. \A b \in Actions, m \in AttemptNumbers :
          attempt'[b][m] = "absent" <=> m > attemptCount'[b]
    <3>. SUFFICES ASSUME NEW b \in Actions, NEW m \in AttemptNumbers
                  PROVE  attempt'[b][m] = "absent" <=> m > attemptCount[b]
      OBVIOUS
    <3>1. attempt[b][m] = "absent" <=> m > attemptCount[b]
      BY DEF TypeOK
    <3>2. CASE attempt'[b] = attempt[b] /\ status'[b] = status[b]
      BY <3>1, <3>2
    <3>3. CASE Swept(b)
      BY <3>1, <3>3
    <3>. QED
      BY <3>2, <3>3
  <2>3. status' \in [Actions -> ActionStatus]
    BY DEF TypeOK
  <2>. QED
    BY <2>1, <2>2, <2>3 DEF TypeOK
<1>4. OneRunningAttempt'
  <2>. SUFFICES ASSUME NEW a \in Actions
                PROVE  /\ status'[a] = "running" <=> LatestAttempt(a)' = "running"
                       /\ \A n \in AttemptNumbers :
                            attempt'[a][n] = "running" => n = attemptCount'[a]
    BY DEF OneRunningAttempt
  <2>1. CASE attempt'[a] = attempt[a] /\ status'[a] = status[a]
    BY <2>1 DEF OneRunningAttempt, LatestAttempt
  <2>2. CASE ~(attempt'[a] = attempt[a] /\ status'[a] = status[a])
    BY <2>2 DEF OneRunningAttempt, LatestAttempt, TypeOK
  <2>. QED
    BY <2>1, <2>2
<1>5. CheckExcludesAttempt'
  BY DEF TypeOK, CheckExcludesAttempt, LatestAttempt
<1>6. LeasesHold'
  BY DEF LeasesHold, LeaseMatchesRows, Writing, Checking
<1>7. (AtMostOneChange /\ ReceiptIsFinal /\ CompletedHasEvidence /\ NoCheckAfterReceipt)'
  BY DEF TypeOK, AtMostOneChange, ReceiptIsFinal, CompletedHasEvidence, NoCheckAfterReceipt
<1>8. CaseFollowsCompletion'
  BY DEF CaseFollowsCompletion
<1>. QED
  BY <1>3, <1>4, <1>5, <1>6, <1>7, <1>8

\* Steps that move only a call and the requests in the network: the database
\* is untouched, so only the leases need an argument.
LEMMA CallStepInv ==
  ASSUME Inv, NEW o \in Operators,
         \/ GatewayStep(o)
         \/ Crash(o)
         \/ \E a \in Actions : FinishTooLate(o, a)
  PROVE  Inv'
<1>. USE DEF Inv
<1>1. UNCHANGED <<row, checks, current, caseVars, authority, changes>>
  BY DEF GatewayStep, GatewayUnreachable, GatewaySend, GatewayUnconfirmed,
         GatewayReconcile, Crash, FinishTooLate, target
<1>2. requests' \subseteq Requests
  BY DEF GatewayStep, GatewayUnreachable, GatewaySend, GatewayUnconfirmed,
         GatewayReconcile, Crash, FinishTooLate, target, TypeOK,
         LeasesHold, LeaseMatchesRows, Writing, RequestOf
<1>. DEFINE c == call'[o]
<1>3.   /\ c \in Calls
        /\ call' = [call EXCEPT ![o] = c]
        /\ \/ c = Idle
           \/ /\ c.stage \in {"awaiting", "finishing"}
              /\ call[o].stage \in {"sending", "awaiting"}
              /\ c.action = call[o].action /\ c.number = call[o].number
              /\ c.answer \in {"none", "not_attempted", "possible"}
              /\ c.stage = "finishing" => c.answer # "none"
           \/ /\ c.stage = "closing" /\ call[o].stage = "checking"
              /\ c.action = call[o].action /\ c.number = call[o].number
              /\ c.answer \in LookupAnswers
              /\ c.answer = "found" => changes[c.action] > 0
  <2>. call \in [Operators -> Calls] /\ call[o] \in Calls
    BY DEF TypeOK
  <2>1. CASE GatewayUnreachable(o)
    BY <2>1, AdvanceKeepsLease DEF GatewayUnreachable, CallReturns
  <2>2. CASE GatewaySend(o)
    BY <2>2, AdvanceKeepsLease DEF GatewaySend, CallReturns
  <2>3. CASE GatewayUnconfirmed(o)
    BY <2>3, AdvanceKeepsLease DEF GatewayUnconfirmed, CallReturns
  <2>4. CASE GatewayReconcile(o)
    <3>1. PICK answer \in LookupAnswers :
            LookupAnswer(call[o].action, answer) /\ CallReturns(o, "closing", answer)
      BY <2>4 DEF GatewayReconcile
    <3>2. call[o].stage = "checking"
      BY <2>4 DEF GatewayReconcile
    <3>. QED
      BY <3>1, <3>2, AdvanceKeepsLease DEF CallReturns, LookupAnswer
  <2>5. CASE Crash(o) \/ \E a \in Actions : FinishTooLate(o, a)
    <3>1. Idle \in Calls
      BY MaxAttemptsAssumption
    <3>. QED
      BY <2>5, <3>1 DEF Crash, FinishTooLate
  <2>. QED
    BY <2>1, <2>2, <2>3, <2>4, <2>5 DEF GatewayStep
<1>4. TypeOK'
  BY <1>1, <1>2, <1>3 DEF TypeOK, row, checks, caseVars, authority
<1>5. LeasesHold'
  <2>. USE DEF TypeOK, row, checks
  <2>1. \A p \in Operators \ {o} : call'[p] = call[p]
    BY <1>3
  <2>2. \A p \in Operators : Checking(p)' => Checking(p) /\ call'[p].action = call[p].action
    <3>1. Checking(o)' => Checking(o) /\ call'[o].action = call[o].action
      BY <1>3 DEF Checking
    <3>2. \A p \in Operators \ {o} : Checking(p)' <=> Checking(p)
      BY <2>1 DEF Checking
    <3>. QED
      BY <2>1, <3>1, <3>2
  <2>3. LeaseMatchesRows(o)'
    BY <1>1, <1>3 DEF LeasesHold, LeaseMatchesRows, Writing, Checking, AtMostOneChange
  <2>4. \A p \in Operators \ {o} : LeaseMatchesRows(p)'
    BY <1>1, <2>1 DEF LeasesHold, LeaseMatchesRows, Writing, Checking
  <2>. QED
    BY <2>2, <2>3, <2>4 DEF LeasesHold
<1>6. (OneRunningAttempt /\ CheckExcludesAttempt)'
  BY <1>1 DEF OneRunningAttempt, CheckExcludesAttempt, LatestAttempt, row, checks
<1>7. (AtMostOneChange /\ ReceiptIsFinal /\ CompletedHasEvidence /\ NoCheckAfterReceipt)'
  BY <1>1 DEF AtMostOneChange, ReceiptIsFinal, CompletedHasEvidence, NoCheckAfterReceipt, row, checks
<1>8. CaseFollowsCompletion'
  BY <1>1 DEF CaseFollowsCompletion, caseVars, row, checks
<1>. QED
  BY <1>4, <1>5, <1>6, <1>7, <1>8

\* Steps of the target.
LEMMA TargetInv ==
  ASSUME Inv, NEW r \in requests,
         TargetAccepts(r) \/ TargetRefuses(r) \/ RequestLost(r)
  PROVE  Inv'
<1>. USE DEF Inv
<1>1. r \in Requests /\ r.action \in Actions
  BY DEF TypeOK
<1>2. /\ requests' \subseteq requests
      /\ changes' \in [Actions -> Nat]
      /\ \A a \in Actions : changes'[a] = changes[a] \/ (changes[a] = 0 /\ changes'[a] = 1)
      /\ UNCHANGED <<row, checks, current, caseVars, authority>>
  <2>1. CASE TargetAccepts(r)
    BY <1>1, <2>1 DEF TargetAccepts, BindKey, TypeOK
  <2>2. CASE TargetRefuses(r) \/ RequestLost(r)
    BY <2>2 DEF TargetRefuses, RequestLost, TypeOK
  <2>. QED
    BY <2>1, <2>2
<1>3. PICK answer \in ExecuteAnswers :
        Deliver(r, answer) /\ (answer = "receipt" => changes'[r.action] = 1)
  <2>1. CASE TargetAccepts(r)
    <3>1. changes'[r.action] = 1
      BY <1>1, <2>1 DEF TargetAccepts, BindKey, TypeOK, AtMostOneChange
    <3>. QED
      BY <2>1, <3>1 DEF TargetAccepts
  <2>2. CASE TargetRefuses(r) \/ RequestLost(r)
    BY <2>2 DEF TargetRefuses, RequestLost
  <2>. QED
    BY <2>1, <2>2
<1>4. TypeOK'
  <2>1. call' \in [Operators -> Calls]
    BY <1>3, AdvanceKeepsLease DEF Deliver, TypeOK
  <2>. QED
    BY <1>2, <2>1 DEF TypeOK, row, checks, caseVars, authority
<1>5. LeasesHold'
  <2>1. \A o \in Operators :
          \/ call'[o] = call[o]
          \/ /\ call[o].stage = "awaiting" /\ call[o].action = r.action
             /\ call'[o].stage = "finishing" /\ call'[o].answer = answer
             /\ call'[o].action = call[o].action /\ call'[o].number = call[o].number
    BY <1>1, <1>3, AdvanceKeepsLease DEF Deliver, RequestOf, TypeOK
  <2>2. \A o \in Operators : Checking(o)' => Checking(o) /\ call'[o].action = call[o].action
    BY <2>1 DEF Checking
  <2>3. ASSUME NEW o \in Operators PROVE LeaseMatchesRows(o)'
    <3>1. CASE call'[o] = call[o]
      BY <1>2, <3>1 DEF LeasesHold, LeaseMatchesRows, Writing, Checking, TypeOK, row, checks
    <3>2. CASE call'[o] # call[o]
      BY <1>1, <1>2, <1>3, <2>1, <3>2
      DEF LeasesHold, LeaseMatchesRows, Writing, Checking, TypeOK, row, checks
    <3>. QED
      BY <3>1, <3>2
  <2>. QED
    BY <2>2, <2>3 DEF LeasesHold
<1>6. (OneRunningAttempt /\ CheckExcludesAttempt)'
  BY <1>2 DEF OneRunningAttempt, CheckExcludesAttempt, LatestAttempt, row, checks
<1>7. (AtMostOneChange /\ ReceiptIsFinal /\ CompletedHasEvidence /\ NoCheckAfterReceipt)'
  <2>1. AtMostOneChange'
    BY <1>2 DEF AtMostOneChange
  <2>2. ReceiptIsFinal'
    BY <1>2 DEF ReceiptIsFinal, row
  <2>. QED
    BY <1>2, <2>1, <2>2 DEF CompletedHasEvidence, NoCheckAfterReceipt, row, checks
<1>8. CaseFollowsCompletion'
  BY <1>2 DEF CaseFollowsCompletion, caseVars, row, checks
<1>. QED
  BY <1>4, <1>5, <1>6, <1>7, <1>8

\* Completing an action always leaves the case away from the reviewed snapshot.
LEMMA AdvanceCaseLeaves ==
  ASSUME TypeOK, CaseFollowsCompletion, AdvanceCase
  PROVE  caseMatches' = FALSE /\ caseStatus' \in {"needs_review", "in_progress"}
<1>1. CASE caseStatus = "needs_review"
  BY <1>1 DEF AdvanceCase
<1>2. CASE caseStatus # "needs_review"
  BY <1>2 DEF AdvanceCase, CaseFollowsCompletion, TypeOK, caseVars
<1>. QED
  BY <1>1, <1>2

\* finish_execution_success and finish_execution_error.
LEMMA FinishExecutionInv ==
  ASSUME Inv, NEW o \in Operators, NEW a \in Actions,
         FinishExecutionSuccess(o, a) \/ FinishExecutionError(o, a)
  PROVE  Inv'
<1>. USE DEF Inv
<1>1. /\ call[o].number = attemptCount[a]
      /\ attemptCount[a] \in AttemptNumbers
      /\ status[a] = "running"
  <2>1. HoldsRunningAttempt(o, a)
    BY DEF FinishExecutionSuccess, FinishExecutionError
  <2>. QED
    BY <2>1, MaxAttemptsAssumption
    DEF HoldsRunningAttempt, TypeOK, LeasesHold, LeaseMatchesRows, Writing,
        OneRunningAttempt, LatestAttempt
<1>2. PICK outcome \in {"succeeded", "failed_before_change", "unknown"},
           new \in {"completed", "failed_safe", "outcome_unknown"} :
        /\ CloseAttempt(o, a, outcome, new)
        /\ \/ /\ new = "completed"
              /\ receipt' = [receipt EXCEPT ![a] = TRUE]
              /\ changes[a] = 1
              /\ caseMatches' = FALSE
              /\ caseStatus' \in {"needs_review", "in_progress"}
           \/ new # "completed" /\ UNCHANGED <<receipt, caseStatus, caseMatches>>
  <2>1. CASE FinishExecutionSuccess(o, a)
    <3>1. AdvanceCase
      BY <2>1 DEF FinishExecutionSuccess
    <3>2. changes[a] = 1
      BY <2>1 DEF FinishExecutionSuccess, HoldsRunningAttempt, LeasesHold, LeaseMatchesRows, Writing
    <3>. QED
      BY <2>1, <3>1, <3>2, AdvanceCaseLeaves DEF FinishExecutionSuccess
  <2>2. CASE FinishExecutionError(o, a)
    BY <2>2 DEF FinishExecutionError, caseVars
  <2>. QED
    BY <2>1, <2>2
<1>. USE <1>1, <1>2 DEF CloseAttempt, BumpVersion, checks, authority, target
<1>3. TypeOK'
  <2>1. attempt' \in [Actions -> [AttemptNumbers -> AttemptOutcome]]
    BY DEF TypeOK
  <2>2. \A b \in Actions, m \in AttemptNumbers :
          attempt'[b][m] = "absent" <=> m > attemptCount'[b]
    BY DEF TypeOK
  <2>3. call' \in [Operators -> Calls]
    BY MaxAttemptsAssumption DEF TypeOK
  <2>4. status' \in [Actions -> ActionStatus] /\ receipt' \in [Actions -> BOOLEAN]
    BY DEF TypeOK
  <2>5. caseStatus' \in {"needs_review", "in_progress"} /\ caseMatches' \in BOOLEAN
    BY DEF TypeOK
  <2>6. current' \in [Actions -> SUBSET Operators]
    BY DEF TypeOK
  <2>. QED
    BY <2>1, <2>2, <2>3, <2>4, <2>5, <2>6 DEF TypeOK
<1>4. OneRunningAttempt'
  <2>. SUFFICES ASSUME NEW b \in Actions
                PROVE  /\ status'[b] = "running" <=> LatestAttempt(b)' = "running"
                       /\ \A n \in AttemptNumbers :
                            attempt'[b][n] = "running" => n = attemptCount'[b]
    BY DEF OneRunningAttempt
  <2>1. CASE b = a
    <3>1. /\ attempt[a] \in [AttemptNumbers -> AttemptOutcome]
          /\ attempt'[a] = [attempt[a] EXCEPT ![attemptCount[a]] = outcome]
          /\ status'[a] = new
      BY DEF TypeOK
    <3>2. attemptCount'[a] = attemptCount[a] /\ attemptCount[a] # 0
      BY MaxAttemptsAssumption
    <3>3. /\ attempt'[a][attemptCount[a]] = outcome
          /\ \A n \in AttemptNumbers : n # attemptCount[a] => attempt'[a][n] = attempt[a][n]
      BY <3>1
    <3>4. LatestAttempt(a)' = outcome
      BY <3>2, <3>3 DEF LatestAttempt
    <3>5. \A n \in AttemptNumbers : attempt'[a][n] # "running"
      BY <3>3 DEF OneRunningAttempt
    <3>. QED
      BY <2>1, <3>1, <3>4, <3>5
  <2>2. CASE b # a
    BY <2>2 DEF OneRunningAttempt, LatestAttempt, TypeOK
  <2>. QED
    BY <2>1, <2>2
<1>5. CheckExcludesAttempt'
  BY DEF TypeOK, CheckExcludesAttempt, OneRunningAttempt, LatestAttempt
<1>6. LeasesHold'
  BY DEF TypeOK, LeasesHold, LeaseMatchesRows, Writing, Checking
<1>7. (AtMostOneChange /\ ReceiptIsFinal /\ CompletedHasEvidence)'
  BY DEF TypeOK, AtMostOneChange, ReceiptIsFinal, CompletedHasEvidence
<1>8. NoCheckAfterReceipt'
  <2>1. ~checkRunning[a]
    BY DEF CheckExcludesAttempt
  <2>. QED
    BY <2>1 DEF TypeOK, NoCheckAfterReceipt
<1>9. CaseFollowsCompletion'
  BY DEF TypeOK, CaseFollowsCompletion
<1>. QED
  BY <1>3, <1>4, <1>5, <1>6, <1>7, <1>8, <1>9

\* Starting a check of the target.
LEMMA PrepareReconciliationInv ==
  ASSUME Inv, NEW o \in Operators, NEW a \in Actions, PrepareReconciliation(o, a)
  PROVE  Inv'
<1>. USE DEF Inv, PrepareReconciliation, MayRecover, CheckIsFree, BumpVersion, row, caseVars, authority, target
<1>1. TypeOK'
  <2>1. call' \in [Operators -> Calls]
    BY MaxAttemptsAssumption DEF TypeOK
  <2>2. /\ checkRunning' \in [Actions -> BOOLEAN]
        /\ lastCheck' \in [Actions -> ReconciliationOutcome]
        /\ current' \in [Actions -> SUBSET Operators]
    BY DEF TypeOK
  <2>. QED
    BY <2>1, <2>2 DEF TypeOK
<1>2. OneRunningAttempt'
  BY DEF OneRunningAttempt, LatestAttempt
<1>3. CheckExcludesAttempt'
  BY DEF TypeOK, CheckExcludesAttempt, LatestAttempt
<1>4. LeasesHold'
  <2>1. \A p \in Operators : Checking(p) => call[p].action # a
    BY DEF LeasesHold, LeaseMatchesRows
  <2>2. LeaseMatchesRows(o)'
    BY DEF TypeOK, LeaseMatchesRows, Writing, Checking
  <2>3. ASSUME NEW p \in Operators, p # o PROVE LeaseMatchesRows(p)'
    BY <2>3 DEF TypeOK, LeasesHold, LeaseMatchesRows, Writing, Checking
  <2>4. \A p \in Operators : p # o => (Checking(p)' <=> Checking(p)) /\ call'[p] = call[p]
    BY DEF TypeOK, Checking
  <2>5. call'[o].action = a
    BY DEF TypeOK
  <2>. QED
    BY <2>1, <2>2, <2>3, <2>4, <2>5 DEF LeasesHold
<1>5. (AtMostOneChange /\ ReceiptIsFinal /\ CompletedHasEvidence /\ NoCheckAfterReceipt)'
  BY DEF TypeOK, AtMostOneChange, ReceiptIsFinal, CompletedHasEvidence, NoCheckAfterReceipt
<1>6. CaseFollowsCompletion'
  BY DEF CaseFollowsCompletion
<1>. QED
  BY <1>1, <1>2, <1>3, <1>4, <1>5, <1>6

\* Applying the answer of a check.
LEMMA FinishReconciliationInv ==
  ASSUME Inv, NEW o \in Operators, NEW a \in Actions, FinishReconciliation(o, a)
  PROVE  Inv'
<1>. USE DEF Inv
<1>1. /\ call[o].action = a /\ checkRunning[a] /\ Checking(o)
      /\ LatestAttempt(a) = "unknown" /\ status[a] # "running" /\ ~receipt[a]
  BY DEF FinishReconciliation, Checking, CheckExcludesAttempt, NoCheckAfterReceipt
<1>2. PICK new \in {"completed", "failed_safe", "outcome_unknown"},
           outcome \in ReconciliationOutcome :
        /\ status' = [status EXCEPT ![a] = new]
        /\ lastCheck' = [lastCheck EXCEPT ![a] = outcome]
        /\ \/ /\ new = "completed"
              /\ receipt' = [receipt EXCEPT ![a] = TRUE]
              /\ changes[a] = 1
              /\ caseMatches' = FALSE
              /\ caseStatus' \in {"needs_review", "in_progress"}
           \/ new # "completed" /\ UNCHANGED <<receipt, caseStatus, caseMatches>>
  <2>1. CASE call[o].answer = "found"
    <3>1. AdvanceCase
      BY <2>1 DEF FinishReconciliation, OutcomeForLookup
    <3>2. changes[a] = 1
      BY <1>1, <2>1 DEF LeasesHold, LeaseMatchesRows
    <3>. QED
      BY <2>1, <3>1, <3>2, AdvanceCaseLeaves DEF FinishReconciliation, OutcomeForLookup
  <2>2. CASE call[o].answer # "found"
    BY <2>2 DEF FinishReconciliation, OutcomeForLookup, caseVars
  <2>. QED
    BY <2>1, <2>2
<1>3. /\ checkRunning' = [checkRunning EXCEPT ![a] = FALSE]
      /\ current' = [current EXCEPT ![a] = {}]
      /\ call' = [call EXCEPT ![o] = Idle]
      /\ UNCHANGED <<attempt, attemptCount, aged, humanConfirmed, approval, connection,
                     lateWrites, requests, changes>>
  BY DEF FinishReconciliation, BumpVersion, authority, target
<1>4. TypeOK'
  <2>1. call' \in [Operators -> Calls]
    BY <1>3, MaxAttemptsAssumption DEF TypeOK
  <2>2. /\ status' \in [Actions -> ActionStatus]
        /\ lastCheck' \in [Actions -> ReconciliationOutcome]
        /\ receipt' \in [Actions -> BOOLEAN]
        /\ caseStatus' \in {"needs_review", "in_progress"}
        /\ caseMatches' \in BOOLEAN
    BY <1>2 DEF TypeOK
  <2>3. /\ checkRunning' \in [Actions -> BOOLEAN]
        /\ current' \in [Actions -> SUBSET Operators]
    BY <1>3 DEF TypeOK
  <2>4. /\ UNCHANGED <<attempt, attemptCount, aged, humanConfirmed, requests, changes>>
        /\ approval' = approval /\ connection' = connection /\ lateWrites' = lateWrites
    BY <1>3
  <2>. QED
    BY <2>1, <2>2, <2>3, <2>4 DEF TypeOK
<1>5. OneRunningAttempt'
  BY <1>1, <1>2, <1>3 DEF TypeOK, OneRunningAttempt, LatestAttempt
<1>6. CheckExcludesAttempt'
  BY <1>2, <1>3 DEF TypeOK, CheckExcludesAttempt, LatestAttempt
<1>7. LeasesHold'
  <2>1. \A p \in Operators \ {o} : call'[p] = call[p]
    BY <1>3 DEF TypeOK
  <2>2. call'[o] = Idle /\ ~Checking(o)' /\ ~Writing(o)'
    BY <1>3 DEF TypeOK, Checking, Writing
  <2>3. \A p \in Operators : p # o /\ Checking(p) => call[p].action # a
    BY <1>1 DEF LeasesHold
  <2>4. ASSUME NEW p \in Operators PROVE LeaseMatchesRows(p)'
    <3>1. CASE p = o
      BY <2>2, <3>1 DEF LeaseMatchesRows
    <3>2. CASE p # o
      BY <1>3, <2>1, <2>3, <3>2 DEF LeasesHold, LeaseMatchesRows, Writing, Checking, TypeOK
    <3>. QED
      BY <3>1, <3>2
  <2>5. \A p \in Operators : Checking(p)' => Checking(p) /\ call'[p] = call[p]
    BY <2>1, <2>2 DEF Checking
  <2>. QED
    BY <2>4, <2>5 DEF LeasesHold
<1>8. (AtMostOneChange /\ ReceiptIsFinal)'
  BY <1>1, <1>2, <1>3 DEF TypeOK, AtMostOneChange, ReceiptIsFinal
<1>9. (CompletedHasEvidence /\ NoCheckAfterReceipt)'
  BY <1>1, <1>2, <1>3 DEF TypeOK, CompletedHasEvidence, NoCheckAfterReceipt
<1>10. CaseFollowsCompletion'
  BY <1>2, <1>3 DEF TypeOK, CaseFollowsCompletion
<1>. QED
  BY <1>4, <1>5, <1>6, <1>7, <1>8, <1>9, <1>10

\* Recording a manual outcome and escalating: only the status, the newest
\* reconciliation and the case can move.
LEMMA ManualInv ==
  ASSUME Inv, NEW o \in Operators, NEW a \in Actions,
         RecordManualOutcome(o, a) \/ Escalate(o, a)
  PROVE  Inv'
<1>. USE DEF Inv
<1>1. PICK new \in {"completed", "outcome_unknown", "recovery_required"} :
        /\ status' = [status EXCEPT ![a] = new]
        /\ \/ /\ new = "completed"
              /\ humanConfirmed' = [humanConfirmed EXCEPT ![a] = TRUE]
              /\ caseMatches' = FALSE
              /\ caseStatus' \in {"needs_review", "in_progress"}
           \/ new # "completed" /\ UNCHANGED <<humanConfirmed, caseStatus, caseMatches>>
  <2>1. CASE RecordManualOutcome(o, a)
    <3>1. AdvanceCase => caseMatches' = FALSE /\ caseStatus' \in {"needs_review", "in_progress"}
      BY AdvanceCaseLeaves
    <3>. QED
      BY <2>1, <3>1 DEF RecordManualOutcome, caseVars
  <2>2. CASE Escalate(o, a)
    BY <2>2 DEF Escalate, checks, caseVars
  <2>. QED
    BY <2>1, <2>2
<1>2. /\ status[a] # "running" /\ status[a] # "completed" /\ status[a] # "ready"
      /\ lastCheck' \in [Actions -> ReconciliationOutcome]
      /\ current' \in [Actions -> SUBSET Operators]
      /\ UNCHANGED <<attempt, attemptCount, aged, receipt, checkRunning, authority, call, target>>
  BY DEF RecordManualOutcome, Escalate, MayRecover, BumpVersion, TypeOK, checks
<1>3. TypeOK'
  <2>1. /\ status' \in [Actions -> ActionStatus]
        /\ humanConfirmed' \in [Actions -> BOOLEAN]
        /\ caseStatus' \in {"needs_review", "in_progress"}
        /\ caseMatches' \in BOOLEAN
    BY <1>1 DEF TypeOK
  <2>. QED
    BY <1>2, <2>1 DEF TypeOK, authority, target
<1>4. OneRunningAttempt'
  BY <1>1, <1>2 DEF TypeOK, OneRunningAttempt, LatestAttempt
<1>5. CheckExcludesAttempt'
  BY <1>1, <1>2 DEF TypeOK, CheckExcludesAttempt, LatestAttempt
<1>6. LeasesHold'
  BY <1>2 DEF LeasesHold, LeaseMatchesRows, Writing, Checking, target
<1>7. (AtMostOneChange /\ ReceiptIsFinal /\ CompletedHasEvidence /\ NoCheckAfterReceipt)'
  BY <1>1, <1>2 DEF TypeOK, AtMostOneChange, ReceiptIsFinal, CompletedHasEvidence,
                    NoCheckAfterReceipt, target
<1>8. CaseFollowsCompletion'
  BY <1>1, <1>2 DEF TypeOK, CaseFollowsCompletion
<1>. QED
  BY <1>3, <1>4, <1>5, <1>6, <1>7, <1>8

\* Time, the case, the approval and the connection: no row, call or request
\* moves.
LEMMA EnvironmentInv ==
  ASSUME Inv,
         \/ \E a \in Actions : AttemptAges(a)
         \/ CaseCommand
         \/ ApprovalLapses
         \/ ConnectionChanges
  PROVE  Inv'
<1>. USE DEF Inv
<1>1. /\ UNCHANGED <<status, attempt, attemptCount, receipt, checks, current, call, target>>
      /\ aged' \in [Actions -> BOOLEAN]
      /\ approval' \in {"valid", "expired", "superseded"}
      /\ connection' \in {"eligible", "ineligible", "unconfigured"}
      /\ lateWrites' \in BOOLEAN
      /\ caseStatus' \in {"needs_review", "in_progress"}
      /\ caseMatches' = FALSE \/ UNCHANGED caseVars
  <2>1. CASE \E a \in Actions : AttemptAges(a)
    BY <2>1 DEF AttemptAges, TypeOK, authority, caseVars
  <2>2. CASE CaseCommand
    BY <2>2 DEF CaseCommand, TypeOK, authority, row
  <2>3. CASE ApprovalLapses \/ ConnectionChanges
    BY <2>3, LapsesAssumption, OutagesAssumption
       DEF ApprovalLapses, ConnectionChanges, TypeOK, caseVars, row
  <2>. QED
    BY <2>1, <2>2, <2>3
<1>2. TypeOK'
  BY <1>1 DEF TypeOK, checks, caseVars, target
<1>3. (OneRunningAttempt /\ CheckExcludesAttempt)'
  BY <1>1 DEF OneRunningAttempt, CheckExcludesAttempt, LatestAttempt, checks
<1>4. LeasesHold'
  BY <1>1 DEF LeasesHold, LeaseMatchesRows, Writing, Checking, checks, target
<1>5. (AtMostOneChange /\ ReceiptIsFinal /\ CompletedHasEvidence /\ NoCheckAfterReceipt)'
  BY <1>1 DEF AtMostOneChange, ReceiptIsFinal, CompletedHasEvidence, NoCheckAfterReceipt,
              checks, target
<1>6. CaseFollowsCompletion'
  BY <1>1 DEF CaseFollowsCompletion, checks, caseVars
<1>. QED
  BY <1>2, <1>3, <1>4, <1>5, <1>6

\* Doing nothing keeps the invariant.
LEMMA StutterInv == Inv /\ UNCHANGED vars => Inv'
<1>. SUFFICES ASSUME Inv, UNCHANGED vars PROVE Inv'
  OBVIOUS
<1>. USE DEF Inv, vars, row, checks, caseVars, authority, target
<1>1. TypeOK'
  BY DEF TypeOK
<1>2. (OneRunningAttempt /\ CheckExcludesAttempt)'
  BY DEF OneRunningAttempt, CheckExcludesAttempt, LatestAttempt
<1>3. LeasesHold'
  BY DEF LeasesHold, LeaseMatchesRows, Writing, Checking
<1>4. (AtMostOneChange /\ ReceiptIsFinal /\ CompletedHasEvidence /\ NoCheckAfterReceipt)'
  BY DEF AtMostOneChange, ReceiptIsFinal, CompletedHasEvidence, NoCheckAfterReceipt
<1>5. CaseFollowsCompletion'
  BY DEF CaseFollowsCompletion
<1>. QED
  BY <1>1, <1>2, <1>3, <1>4, <1>5

\* Every step of the system keeps the invariant.
LEMMA NextInv == Inv /\ [Next]_vars => Inv'
<1>. SUFFICES ASSUME Inv, [Next]_vars PROVE Inv'
  OBVIOUS
<1>1. ASSUME NEW o \in Operators, NEW a \in Actions, Get(o, a) PROVE Inv'
  BY <1>1, ReadInv DEF Get
<1>2. ASSUME NEW o \in Operators, List(o) PROVE Inv'
  BY <1>2, ReadInv DEF List
<1>3. ASSUME NEW o \in Operators, NEW a \in Actions, Execute(o, a) PROVE Inv'
  BY <1>3, StartInv DEF Execute
<1>4. ASSUME NEW o \in Operators, NEW a \in Actions, RetrySafe(o, a) PROVE Inv'
  BY <1>4, StartInv DEF RetrySafe
<1>5. ASSUME NEW o \in Operators, NEW a \in Actions, PrepareReconciliation(o, a) PROVE Inv'
  BY <1>5, PrepareReconciliationInv
<1>6. ASSUME NEW o \in Operators, NEW a \in Actions,
             RecordManualOutcome(o, a) \/ Escalate(o, a)
      PROVE  Inv'
  BY <1>6, ManualInv
<1>7. ASSUME NEW o \in Operators, GatewayStep(o) \/ Crash(o) PROVE Inv'
  BY <1>7, CallStepInv
<1>8. ASSUME NEW o \in Operators, FinishStep(o) PROVE Inv'
  BY <1>8, FinishExecutionInv, CallStepInv, FinishReconciliationInv DEF FinishStep
<1>9. ASSUME NEW r \in requests, TargetAccepts(r) \/ TargetRefuses(r) \/ RequestLost(r)
      PROVE  Inv'
  BY <1>9, TargetInv
<1>10. CASE \/ \E a \in Actions : AttemptAges(a)
            \/ CaseCommand \/ ApprovalLapses \/ ConnectionChanges
  BY <1>10, EnvironmentInv
<1>11. CASE UNCHANGED vars
  BY <1>11, StutterInv
<1>. QED
  BY <1>1, <1>2, <1>3, <1>4, <1>5, <1>6, <1>7, <1>8, <1>9, <1>10, <1>11 DEF Next

-----------------------------------------------------------------------------

\* The inductive invariant holds in every reachable state of the controlled
\* actions, for any number of actions, operators and attempts.
THEOREM Invariance == Spec => []Inv
<1>1. Init => Inv
  BY InitInv
<1>2. Inv /\ [Next]_vars => Inv'
  BY NextInv
<1>. QED
  BY <1>1, <1>2, PTL DEF Spec

\* The rows, the calls and the requests always have the types of the columns
\* and of the gateway, and attempt rows are numbered without gaps.
THEOREM TypeCorrect == Spec => []TypeOK
<1>1. Inv => TypeOK
  BY DEF Inv
<1>. QED
  BY <1>1, Invariance, PTL

\* At most one attempt of an action is running; while its target is being
\* checked none is; and every call's lease agrees with the rows.
THEOREM ExclusionHolds == Spec => []Exclusion
<1>1. Inv => Exclusion
  BY DEF Inv, Exclusion
<1>. QED
  BY <1>1, Invariance, PTL

\* The target makes at most one change for an action, a stored receipt is that
\* of a real change, and its action stays completed.
THEOREM ChangeIsAccountedHolds == Spec => []ChangeIsAccounted
<1>1. Inv => ChangeIsAccounted
  BY DEF Inv, ChangeIsAccounted
<1>. QED
  BY <1>1, Invariance, PTL

\* After one action of a review was completed, none of the review's actions
\* can start.
THEOREM CompletionBlocksSiblingsHolds == Spec => []CompletionBlocksSiblings
<1>1. Inv => CompletionBlocksSiblings
  BY DEF Inv, CaseFollowsCompletion, CompletionBlocksSiblings, Blocked
<1>. QED
  BY <1>1, Invariance, PTL

\* A completed action is never attempted again, even after a check that ends
\* late has written another status over it.
THEOREM ClosedNeverReattemptedHolds == Spec => ClosedNeverReattempted
<1>. DEFINE Keeps == \A a \in Actions :
              receipt[a] \/ humanConfirmed[a] => attemptCount'[a] = attemptCount[a]
<1>1. Inv /\ [Next]_vars => [Keeps]_vars
  <2>. SUFFICES ASSUME Inv, Next, NEW b \in Actions, receipt[b] \/ humanConfirmed[b]
                PROVE  attemptCount'[b] = attemptCount[b]
    OBVIOUS
  <2>1. \A a \in Actions : Blocked(a)
    BY DEF Inv, CaseFollowsCompletion, Blocked
  <2>2. \A o \in Operators, a \in Actions : ~Execute(o, a) /\ ~RetrySafe(o, a)
    BY <2>1 DEF Execute, RetrySafe, MayStart
  <2>. USE DEF row
  <2>3. ASSUME NEW o \in Operators, NEW a \in Actions,
               Get(o, a) \/ PrepareReconciliation(o, a)
                 \/ RecordManualOutcome(o, a) \/ Escalate(o, a)
        PROVE  attemptCount' = attemptCount
    BY <2>3 DEF Get, Read, PrepareReconciliation, RecordManualOutcome, Escalate
  <2>4. ASSUME NEW o \in Operators, List(o) \/ GatewayStep(o) \/ FinishStep(o) \/ Crash(o)
        PROVE  attemptCount' = attemptCount
    BY <2>4 DEF List, Read, GatewayStep, GatewayUnreachable, GatewaySend, GatewayUnconfirmed,
           GatewayReconcile, FinishStep, FinishExecutionSuccess, FinishExecutionError,
           CloseAttempt, FinishTooLate, FinishReconciliation, Crash
  <2>5. ASSUME NEW r \in requests, TargetAccepts(r) \/ TargetRefuses(r) \/ RequestLost(r)
        PROVE  attemptCount' = attemptCount
    BY <2>5 DEF TargetAccepts, TargetRefuses, RequestLost
  <2>6. CASE \/ \E a \in Actions : AttemptAges(a)
             \/ CaseCommand \/ ApprovalLapses \/ ConnectionChanges
    BY <2>6 DEF AttemptAges, CaseCommand, ApprovalLapses, ConnectionChanges
  <2>. QED
    BY <2>2, <2>3, <2>4, <2>5, <2>6 DEF Next
<1>2. Spec => [][Keeps]_vars
  BY <1>1, Invariance, PTL DEF Spec
<1>. QED
  BY <1>2 DEF ClosedNeverReattempted

-----------------------------------------------------------------------------
(* Writes that may still reach the target *)

\* Nothing was changed for a and no write for it is outstanding.
Quiet(a) ==
  /\ changes[a] = 0
  /\ \A r \in requests : r.action # a
  /\ \A o \in Operators : ~(call[o].stage = "sending" /\ call[o].action = a)

\* The call's attempt has not been closed under it.
Live(o) == Writing(o) /\ attempt[call[o].action][call[o].number] = "running"

\* No two calls write for one attempt.
WritersDiffer ==
  \A o, p \in Operators :
    Writing(o) /\ Writing(p) /\ call[o].action = call[p].action
      /\ call[o].number = call[p].number => o = p

\* An action that may be attempted has had no effect, and neither has one
\* whose call is about to store a safe failure or a terminal absence.
SafeIsQuiet ==
  /\ \A a \in Actions : status[a] \in {"ready", "failed_safe"} => Quiet(a)
  /\ \A o \in Operators :
       /\ call[o].stage = "closing" /\ call[o].answer = "absent_for_good"
            => Quiet(call[o].action)
       /\ call[o].stage = "finishing" /\ call[o].answer \in SafeErrors /\ Live(o)
            => Quiet(call[o].action)

\* While an attempt is running every outstanding write is its own, and before
\* its call has sent it there is none.
OnlyTheLatestWrites ==
  /\ \A a \in Actions : LatestAttempt(a) = "running" =>
       /\ \A r \in requests : r.action = a => r.number = attemptCount[a]
       /\ \A o \in Operators :
            call[o].stage = "sending" /\ call[o].action = a => call[o].number = attemptCount[a]
  /\ \A o \in Operators : call[o].stage = "sending" /\ Live(o) =>
       /\ changes[call[o].action] = 0
       /\ \A r \in requests : r.action # call[o].action

\* The inductive invariant of the target's promise.
CleanInv == WritersDiffer /\ (~lateWrites => SafeIsQuiet /\ OnlyTheLatestWrites)

\* Quiet says of the network and the calls what Outstanding collects.
LEMMA QuietMeans ==
  ASSUME NEW a \in Actions
  PROVE  Quiet(a) <=> changes[a] = 0 /\ Outstanding(a) = {}
<1>1. Outstanding(a) = {} <=>
        /\ \A r \in requests : r.action # a
        /\ \A o \in Operators : ~(call[o].stage = "sending" /\ call[o].action = a)
  BY DEF Outstanding
<1>. QED
  BY <1>1 DEF Quiet

\* What every step but the start of an attempt does to writes and calls.
MovesOn ==
  /\ lateWrites' = lateWrites /\ attemptCount' = attemptCount
  /\ \A a \in Actions, n \in AttemptNumbers :
       attempt'[a][n] = "running" => attempt[a][n] = "running"
  /\ \A a \in Actions : status'[a] \in {"ready", "failed_safe"} =>
       status'[a] = status[a] \/ lateWrites \/ Quiet(a)
  /\ \A a \in Actions : changes'[a] = changes[a] \/ \E r \in requests : r.action = a
  /\ \A r \in requests' :
       r \in requests \/ \E o \in Operators : /\ call[o].stage = "sending"
                                             /\ call'[o].stage # "sending"
                                             /\ r = RequestOf(o)
  /\ \A o \in Operators :
       \/ call'[o] = call[o]
       \/ call'[o].stage \in {"idle", "checking"}
       \/ /\ call'[o].stage = "closing"
          /\ call'[o].answer = "absent_for_good" => lateWrites \/ Quiet(call'[o].action)
       \/ /\ call'[o].stage \in {"awaiting", "finishing"}
          /\ call[o].stage \in {"sending", "awaiting"}
          /\ call'[o].action = call[o].action /\ call'[o].number = call[o].number
          /\ call'[o].stage = "finishing" /\ call'[o].answer \in SafeErrors /\ Live(o)
               => lateWrites \/ Quiet(call[o].action)'

\* Quiet lasts until the next attempt.
LEMMA QuietLasts ==
  ASSUME MovesOn, NEW a \in Actions, Quiet(a)
  PROVE  Quiet(a)'
<1>1. changes'[a] = 0
  BY DEF MovesOn, Quiet
<1>2. ASSUME NEW r \in requests' PROVE r.action # a
  BY DEF MovesOn, Quiet, RequestOf
<1>3. ASSUME NEW o \in Operators PROVE ~(call'[o].stage = "sending" /\ call'[o].action = a)
  BY DEF MovesOn, Quiet
<1>. QED
  BY <1>1, <1>2, <1>3 DEF Quiet

\* A step that moves on keeps the promise.
LEMMA MovesOnClean ==
  ASSUME Inv, Inv', CleanInv, MovesOn
  PROVE  CleanInv'
<1>. USE DEF Live, Writing
<1>0. \A o \in Operators : Writing(o)' =>
        /\ Writing(o) /\ call'[o].action = call[o].action /\ call'[o].number = call[o].number
        /\ call[o].action \in Actions /\ call[o].number \in AttemptNumbers
        /\ Live(o)' => Live(o)
  <2>. SUFFICES ASSUME NEW o \in Operators, Writing(o)'
                PROVE  /\ Writing(o) /\ call'[o].action = call[o].action
                       /\ call'[o].number = call[o].number
                       /\ call[o].action \in Actions /\ call[o].number \in AttemptNumbers
                       /\ Live(o)' => Live(o)
    OBVIOUS
  <2>1. Writing(o) /\ call'[o].action = call[o].action /\ call'[o].number = call[o].number
    BY DEF MovesOn
  <2>2. call[o].action \in Actions /\ call[o].number \in AttemptNumbers
    BY <2>1, MaxAttemptsAssumption DEF Inv, TypeOK, LeasesHold, LeaseMatchesRows
  <2>. QED
    BY <2>1, <2>2 DEF MovesOn
<1>1. WritersDiffer'
  BY <1>0 DEF CleanInv, WritersDiffer
<1>. SUFFICES ASSUME ~lateWrites' PROVE SafeIsQuiet' /\ OnlyTheLatestWrites'
  BY <1>1 DEF CleanInv
<1>a. ~lateWrites /\ SafeIsQuiet /\ OnlyTheLatestWrites /\ WritersDiffer
  BY DEF CleanInv, MovesOn
<1>2. SafeIsQuiet'
  <2>1. ASSUME NEW a \in Actions, status'[a] \in {"ready", "failed_safe"} PROVE Quiet(a)'
    <3>1. Quiet(a)
      BY <2>1, <1>a DEF MovesOn, SafeIsQuiet
    <3>. QED
      BY <3>1, QuietLasts
  <2>2. ASSUME NEW o \in Operators, call'[o].stage = "closing", call'[o].answer = "absent_for_good"
        PROVE  Quiet(call[o].action)'
    <3>1. PICK a \in Actions : a = call'[o].action
      BY <2>2 DEF Inv, LeasesHold, LeaseMatchesRows, Checking
    <3>2. Quiet(a)
      BY <2>2, <3>1, <1>a DEF MovesOn, SafeIsQuiet
    <3>3. Quiet(a)'
      BY <3>2, QuietLasts
    <3>. QED
      BY <3>1, <3>3 DEF Quiet
  <2>3. ASSUME NEW o \in Operators, call'[o].stage = "finishing", call'[o].answer \in SafeErrors,
               Live(o)'
        PROVE  Quiet(call[o].action)'
    <3>1. Live(o) /\ call'[o].action = call[o].action
      BY <2>3, <1>0
    <3>2. PICK a \in Actions : a = call'[o].action
      BY <2>3, <1>0
    <3>3. CASE call'[o] = call[o]
      <4>1. Quiet(a)
        BY <2>3, <3>1, <3>2, <3>3, <1>a DEF SafeIsQuiet
      <4>2. Quiet(a)'
        BY <4>1, QuietLasts
      <4>. QED
        BY <3>2, <4>2 DEF Quiet
    <3>4. CASE call'[o] # call[o]
      BY <2>3, <3>1, <3>4, <1>a DEF MovesOn
    <3>. QED
      BY <3>3, <3>4
  <2>. QED
    BY <2>1, <2>2, <2>3 DEF SafeIsQuiet
<1>3. OnlyTheLatestWrites'
  <2>1. ASSUME NEW a \in Actions, LatestAttempt(a)' = "running"
        PROVE  LatestAttempt(a) = "running" /\ attemptCount'[a] = attemptCount[a]
    BY <2>1 DEF MovesOn, LatestAttempt, Inv, TypeOK
  <2>2. ASSUME NEW a \in Actions, LatestAttempt(a)' = "running", NEW r \in requests', r.action = a
        PROVE  r.number = attemptCount'[a]
    <3>1. CASE r \in requests
      BY <3>1, <2>1, <2>2, <1>a DEF OnlyTheLatestWrites
    <3>2. CASE r \notin requests
      <4>1. PICK o \in Operators : call[o].stage = "sending" /\ r = RequestOf(o)
        BY <3>2 DEF MovesOn
      <4>. QED
        BY <4>1, <2>1, <2>2, <1>a DEF OnlyTheLatestWrites, RequestOf
    <3>. QED
      BY <3>1, <3>2
  <2>3. ASSUME NEW a \in Actions, LatestAttempt(a)' = "running",
               NEW o \in Operators, call'[o].stage = "sending", call'[o].action = a
        PROVE  call'[o].number = attemptCount'[a]
    <3>1. call'[o] = call[o]
      BY <2>3 DEF MovesOn
    <3>. QED
      BY <3>1, <2>1, <2>3, <1>a DEF OnlyTheLatestWrites
  <2>4. ASSUME NEW o \in Operators, call'[o].stage = "sending", Live(o)'
        PROVE  /\ changes'[call'[o].action] = 0
               /\ \A r \in requests' : r.action # call'[o].action
    <3>1. call'[o] = call[o] /\ Live(o)
      BY <2>4, <1>0 DEF MovesOn
    <3>2. PICK a \in Actions : a = call[o].action
      BY <2>4, <1>0
    <3>3. changes[a] = 0 /\ \A r \in requests : r.action # a
      BY <2>4, <3>1, <3>2, <1>a DEF OnlyTheLatestWrites
    <3>4. changes'[a] = 0
      BY <3>3 DEF MovesOn
    <3>5. LatestAttempt(a) = "running" /\ call[o].number = attemptCount[a]
      <4>1. call[o].number \in AttemptNumbers /\ attempt[a][call[o].number] = "running"
        BY <3>1, <3>2, <2>4, <1>0
      <4>2. call[o].number = attemptCount[a]
        BY <4>1 DEF Inv, OneRunningAttempt
      <4>. QED
        BY <4>1, <4>2 DEF LatestAttempt
    <3>6. ASSUME NEW r \in requests', r.action = a PROVE FALSE
      <4>1. PICK p \in Operators : /\ call[p].stage = "sending" /\ call'[p].stage # "sending"
                                   /\ r = RequestOf(p)
        BY <3>3, <3>6 DEF MovesOn
      <4>2. call[p].action = a
        BY <4>1, <3>6 DEF RequestOf
      <4>3. call[p].number = attemptCount[a]
        BY <4>1, <4>2, <3>5, <1>a DEF OnlyTheLatestWrites
      <4>4. p = o
        BY <4>1, <4>2, <4>3, <3>1, <3>2, <3>5, <2>4, <1>a DEF WritersDiffer
      <4>. QED
        BY <4>1, <4>4, <2>4
    <3>. QED
      BY <3>1, <3>2, <3>4, <3>6
  <2>. QED
    BY <2>2, <2>3, <2>4 DEF OnlyTheLatestWrites
<1>. QED
  BY <1>2, <1>3

\* Starting an attempt: what was quiet has one write, its own, to come.
LEMMA StartClean ==
  ASSUME Inv, CleanInv, NEW o \in Operators, NEW a \in Actions,
         MayStart(o, a), status[a] \in {"ready", "failed_safe"}, StartAttempt(o, a)
  PROVE  CleanInv'
<1>. USE DEF Live, Writing
<1>. DEFINE n == attemptCount[a] + 1
<1>1. /\ call' = [call EXCEPT ![o] =
                   [stage |-> "sending", action |-> a, number |-> n, answer |-> "none"]]
      /\ attempt' = [attempt EXCEPT ![a] = [attempt[a] EXCEPT ![n] = "running"]]
      /\ attemptCount' = [attemptCount EXCEPT ![a] = n]
      /\ status' = [status EXCEPT ![a] = "running"]
      /\ UNCHANGED <<lateWrites, requests, changes>>
  BY DEF StartAttempt, authority, target
<1>2. n \in AttemptNumbers /\ n # 0 /\ n # attemptCount[a]
  BY MaxAttemptsAssumption DEF Inv, TypeOK, MayStart
<1>3. \A p \in Operators : Writing(p) =>
        /\ call[p].action \in Actions /\ call[p].number \in AttemptNumbers
        /\ call[p].action = a => call[p].number # n
  BY MaxAttemptsAssumption DEF Inv, TypeOK, LeasesHold, LeaseMatchesRows
<1>. HIDE DEF n
<1>4. /\ \A p \in Operators \ {o} : call'[p] = call[p]
      /\ call'[o].stage = "sending" /\ call'[o].action = a /\ call'[o].number = n
      /\ call'[o].answer = "none"
  BY <1>1 DEF Inv, TypeOK
<1>5. WritersDiffer'
  BY <1>3, <1>4 DEF CleanInv, WritersDiffer
<1>. SUFFICES ASSUME ~lateWrites' PROVE SafeIsQuiet' /\ OnlyTheLatestWrites'
  BY <1>5 DEF CleanInv
<1>a. ~lateWrites /\ SafeIsQuiet /\ OnlyTheLatestWrites /\ WritersDiffer
  BY <1>1 DEF CleanInv
<1>b. Quiet(a)
  BY <1>a DEF SafeIsQuiet
<1>6. ASSUME NEW b \in Actions, b # a
      PROVE  /\ Quiet(b) => Quiet(b)'
             /\ attempt'[b] = attempt[b] /\ status'[b] = status[b]
             /\ attemptCount'[b] = attemptCount[b]
  BY <1>1, <1>4, <1>6 DEF Quiet, Inv, TypeOK
<1>7. \A p \in Operators \ {o} : Live(p)' => Live(p)
  <2>. SUFFICES ASSUME NEW p \in Operators \ {o}, Live(p)' PROVE Live(p)
    OBVIOUS
  <2>1. call'[p] = call[p] /\ Writing(p)
    BY <1>4
  <2>2. CASE call[p].action # a
    BY <2>1, <2>2, <1>3, <1>6
  <2>3. CASE call[p].action = a
    <3>1. attempt'[a][call[p].number] = attempt[a][call[p].number]
      BY <2>1, <2>3, <1>1, <1>2, <1>3 DEF Inv, TypeOK
    <3>. QED
      BY <2>1, <2>3, <3>1
  <2>. QED
    BY <2>2, <2>3
<1>8. SafeIsQuiet'
  <2>1. ASSUME NEW b \in Actions, status'[b] \in {"ready", "failed_safe"} PROVE Quiet(b)'
    <3>1. b # a
      BY <2>1, <1>1 DEF Inv, TypeOK
    <3>. QED
      BY <2>1, <3>1, <1>6, <1>a DEF SafeIsQuiet
  <2>2. ASSUME NEW p \in Operators, call'[p].stage = "closing", call'[p].answer = "absent_for_good"
        PROVE  Quiet(call[p].action)'
    <3>1. p # o /\ call'[p] = call[p]
      BY <2>2, <1>4
    <3>2. PICK b \in Actions : b = call[p].action
      BY <2>2, <3>1 DEF Inv, LeasesHold, LeaseMatchesRows, Checking
    <3>3. b # a
      BY <2>2, <3>1, <3>2 DEF Inv, LeasesHold, LeaseMatchesRows, Checking, CheckExcludesAttempt
    <3>4. Quiet(b)'
      BY <2>2, <3>1, <3>2, <3>3, <1>6, <1>a DEF SafeIsQuiet
    <3>. QED
      BY <3>1, <3>2, <3>4 DEF Quiet
  <2>3. ASSUME NEW p \in Operators, call'[p].stage = "finishing", call'[p].answer \in SafeErrors,
               Live(p)'
        PROVE  Quiet(call[p].action)'
    <3>1. p # o /\ call'[p] = call[p] /\ Live(p)
      BY <2>3, <1>4, <1>7
    <3>2. PICK b \in Actions : b = call[p].action
      BY <3>1, <1>3
    <3>3. b # a
      <4>1. CASE b = a
        <5>1. LatestAttempt(a) = "running"
          BY <3>1, <3>2, <4>1, <1>3 DEF Inv, OneRunningAttempt, LatestAttempt, TypeOK
        <5>. QED
          BY <5>1 DEF Inv, OneRunningAttempt
      <4>. QED
        BY <4>1
    <3>4. Quiet(b)'
      BY <2>3, <3>1, <3>2, <3>3, <1>6, <1>a DEF SafeIsQuiet
    <3>. QED
      BY <3>1, <3>2, <3>4 DEF Quiet
  <2>. QED
    BY <2>1, <2>2, <2>3 DEF SafeIsQuiet
<1>9. OnlyTheLatestWrites'
  <2>1. ASSUME NEW b \in Actions, LatestAttempt(b)' = "running"
        PROVE  /\ \A r \in requests' : r.action = b => r.number = attemptCount'[b]
               /\ \A p \in Operators : call'[p].stage = "sending" /\ call'[p].action = b
                    => call'[p].number = attemptCount'[b]
    <3>1. CASE b = a
      <4>1. attemptCount'[a] = n
        BY <1>1 DEF Inv, TypeOK
      <4>. QED
        BY <3>1, <4>1, <1>1, <1>4, <1>b DEF Quiet
    <3>2. CASE b # a
      <4>1. LatestAttempt(b) = "running"
        BY <2>1, <3>2, <1>6 DEF LatestAttempt
      <4>2. /\ \A r \in requests : r.action = b => r.number = attemptCount[b]
            /\ \A p \in Operators : call[p].stage = "sending" /\ call[p].action = b
                 => call[p].number = attemptCount[b]
        BY <4>1, <1>a DEF OnlyTheLatestWrites
      <4>. QED
        BY <3>2, <4>2, <1>1, <1>4, <1>6
    <3>. QED
      BY <3>1, <3>2
  <2>2. ASSUME NEW p \in Operators, call'[p].stage = "sending", Live(p)'
        PROVE  /\ changes'[call'[p].action] = 0
               /\ \A r \in requests' : r.action # call'[p].action
    <3>1. CASE p = o
      BY <3>1, <1>1, <1>4, <1>b DEF Quiet
    <3>2. CASE p # o
      BY <2>2, <3>2, <1>1, <1>4, <1>7, <1>a DEF OnlyTheLatestWrites
    <3>. QED
      BY <3>1, <3>2
  <2>. QED
    BY <2>1, <2>2 DEF OnlyTheLatestWrites
<1>. QED
  BY <1>8, <1>9

\* A live call that has not got its answer has the newest attempt, and the
\* outstanding writes of its action are its own.
LEMMA LiveWrites ==
  ASSUME Inv, CleanInv, ~lateWrites, NEW o \in Operators, Live(o)
  PROVE  /\ call[o].action \in Actions /\ call[o].number \in AttemptNumbers
         /\ \A r \in requests : r.action = call[o].action => r = RequestOf(o)
         /\ \A p \in Operators : call[p].stage = "sending" /\ call[p].action = call[o].action => p = o
         /\ call[o].stage = "sending" =>
              changes[call[o].action] = 0 /\ \A r \in requests : r.action # call[o].action
<1>1. call[o].action \in Actions /\ call[o].number \in AttemptNumbers
  BY MaxAttemptsAssumption DEF Inv, TypeOK, LeasesHold, LeaseMatchesRows, Live
<1>2. call[o].number = attemptCount[call[o].action]
  BY <1>1 DEF Inv, OneRunningAttempt, Live
<1>3. LatestAttempt(call[o].action) = "running"
  BY <1>1, <1>2 DEF LatestAttempt, Live
<1>4. OnlyTheLatestWrites /\ WritersDiffer
  BY DEF CleanInv
<1>5. ASSUME NEW r \in requests, r.action = call[o].action PROVE r = RequestOf(o)
  <2>1. r.number = call[o].number
    BY <1>1, <1>2, <1>3, <1>4, <1>5 DEF OnlyTheLatestWrites
  <2>2. r \in [action : Actions, number : AttemptNumbers]
    BY DEF Inv, TypeOK
  <2>. QED
    BY <1>5, <2>1, <2>2 DEF RequestOf
<1>6. ASSUME NEW p \in Operators, call[p].stage = "sending", call[p].action = call[o].action
      PROVE  p = o
  <2>1. call[p].number = call[o].number
    BY <1>1, <1>2, <1>3, <1>4, <1>6 DEF OnlyTheLatestWrites
  <2>. QED
    BY <1>4, <1>6, <2>1 DEF WritersDiffer, Live, Writing
<1>7. call[o].stage = "sending" =>
        changes[call[o].action] = 0 /\ \A r \in requests : r.action # call[o].action
  BY <1>4 DEF OnlyTheLatestWrites
<1>. QED
  BY <1>1, <1>5, <1>6, <1>7

\* The gateway call and the end of a process.
LEMMA CallMovesOn ==
  ASSUME Inv, CleanInv, NEW o \in Operators,
         \/ GatewayStep(o)
         \/ Crash(o)
         \/ \E a \in Actions : FinishTooLate(o, a)
  PROVE  MovesOn
<1>1. UNCHANGED <<status, attempt, attemptCount, lateWrites, changes>>
  BY DEF GatewayStep, GatewayUnreachable, GatewaySend, GatewayUnconfirmed,
         GatewayReconcile, Crash, FinishTooLate, target, row, authority
<1>. call \in [Operators -> Calls] /\ call[o] \in Calls
  BY DEF Inv, TypeOK
<1>2. CASE GatewayUnreachable(o)
  <2>1. /\ call[o].stage = "sending" /\ requests' = requests
        /\ call' = [call EXCEPT ![o] = Advance(call[o], "finishing", "not_attempted")]
    BY <1>2 DEF GatewayUnreachable, CallReturns, target
  <2>2. /\ call'[o].stage = "finishing"
        /\ call'[o].action = call[o].action /\ call'[o].number = call[o].number
        /\ \A p \in Operators \ {o} : call'[p] = call[p]
    BY <2>1, AdvanceKeepsLease
  <2>3. ASSUME ~lateWrites, Live(o) PROVE Quiet(call[o].action)'
    BY <1>1, <2>1, <2>2, <2>3, LiveWrites DEF Quiet
  <2>. QED
    BY <1>1, <2>1, <2>2, <2>3 DEF MovesOn
<1>3. CASE GatewaySend(o)
  <2>1. /\ call[o].stage = "sending" /\ requests' = requests \union {RequestOf(o)}
        /\ call' = [call EXCEPT ![o] = Advance(call[o], "awaiting", "none")]
    BY <1>3 DEF GatewaySend, CallReturns
  <2>2. /\ call'[o].stage = "awaiting"
        /\ call'[o].action = call[o].action /\ call'[o].number = call[o].number
        /\ \A p \in Operators \ {o} : call'[p] = call[p]
    BY <2>1, AdvanceKeepsLease
  <2>. QED
    BY <1>1, <2>1, <2>2 DEF MovesOn
<1>4. CASE GatewayUnconfirmed(o)
  <2>1. /\ call[o].stage = "awaiting" /\ requests' = requests
        /\ call' = [call EXCEPT ![o] = Advance(call[o], "finishing", "possible")]
    BY <1>4 DEF GatewayUnconfirmed, CallReturns, target
  <2>2. /\ call'[o].stage = "finishing" /\ call'[o].answer = "possible"
        /\ call'[o].action = call[o].action /\ call'[o].number = call[o].number
        /\ \A p \in Operators \ {o} : call'[p] = call[p]
    BY <2>1, AdvanceKeepsLease
  <2>. QED
    BY <1>1, <2>1, <2>2 DEF MovesOn
<1>5. CASE GatewayReconcile(o)
  <2>1. PICK answer \in LookupAnswers :
          /\ LookupAnswer(call[o].action, answer)
          /\ call' = [call EXCEPT ![o] = Advance(call[o], "closing", answer)]
    BY <1>5 DEF GatewayReconcile, CallReturns
  <2>2. /\ call'[o].stage = "closing" /\ call'[o].answer = answer
        /\ call'[o].action = call[o].action
        /\ \A p \in Operators \ {o} : call'[p] = call[p]
        /\ requests' = requests
    BY <1>5, <2>1, AdvanceKeepsLease DEF GatewayReconcile, target
  <2>3. call[o].action \in Actions
    BY <1>5 DEF GatewayReconcile, Inv, LeasesHold, LeaseMatchesRows, Checking
  <2>4. ASSUME ~lateWrites, answer = "absent_for_good" PROVE Quiet(call[o].action)
    BY <2>1, <2>3, <2>4, QuietMeans DEF LookupAnswer
  <2>. QED
    BY <1>1, <2>2, <2>4 DEF MovesOn
<1>6. CASE Crash(o) \/ \E a \in Actions : FinishTooLate(o, a)
  <2>1. call' = [call EXCEPT ![o] = Idle] /\ requests' = requests
    BY <1>6 DEF Crash, FinishTooLate, target
  <2>. QED
    BY <1>1, <2>1 DEF MovesOn
<1>. QED
  BY <1>2, <1>3, <1>4, <1>5, <1>6 DEF GatewayStep

\* The target: a refusal reaches a live call only when it sent the one
\* outstanding write.
LEMMA TargetMovesOn ==
  ASSUME Inv, CleanInv, NEW r \in requests,
         TargetAccepts(r) \/ TargetRefuses(r) \/ RequestLost(r)
  PROVE  MovesOn
<1>1. r.action \in Actions /\ requests' = requests \ {r}
  BY DEF Inv, TypeOK, TargetAccepts, TargetRefuses, RequestLost
<1>2. UNCHANGED <<status, attempt, attemptCount, lateWrites>>
  BY DEF TargetAccepts, TargetRefuses, RequestLost, row, authority
<1>3. \A a \in Actions : changes'[a] = changes[a] \/ a = r.action
  BY <1>1 DEF Inv, TypeOK, TargetAccepts, TargetRefuses, RequestLost
<1>4. PICK answer \in {"receipt", "no_change", "possible"} :
        /\ Deliver(r, answer)
        /\ answer = "no_change" => changes[r.action] = 0 /\ changes' = changes
  BY DEF TargetAccepts, TargetRefuses, RequestLost
<1>5. \A o \in Operators :
        \/ call'[o] = call[o]
        \/ /\ call[o].stage = "awaiting" /\ RequestOf(o) = r
           /\ call'[o].stage = "finishing" /\ call'[o].answer = answer
           /\ call'[o].action = call[o].action /\ call'[o].number = call[o].number
  BY <1>4, AdvanceKeepsLease DEF Deliver, Inv, TypeOK
<1>6. ASSUME ~lateWrites, answer = "no_change",
             NEW o \in Operators, call'[o] # call[o], Live(o)
      PROVE  Quiet(call[o].action)'
  <2>1. /\ call[o].stage = "awaiting" /\ RequestOf(o) = r
        /\ call'[o].action = call[o].action
    BY <1>5, <1>6
  <2>2. call[o].action = r.action
    BY <2>1 DEF RequestOf
  <2>3. changes'[r.action] = 0
    BY <1>4, <1>6
  <2>4. \A q \in requests' : q.action # r.action
    BY <1>1, <1>6, <2>1, <2>2, LiveWrites
  <2>5. ASSUME NEW p \in Operators, call'[p].stage = "sending", call'[p].action = r.action
        PROVE  FALSE
    <3>1. call[p].stage = "sending" /\ call[p].action = call[o].action
      BY <1>5, <2>2, <2>5
    <3>2. p = o
      BY <3>1, <1>6, LiveWrites
    <3>. QED
      BY <3>1, <3>2, <2>1
  <2>. QED
    BY <2>1, <2>2, <2>3, <2>4, <2>5 DEF Quiet
<1>. QED
  BY <1>1, <1>2, <1>3, <1>4, <1>5, <1>6 DEF MovesOn

\* Storing an outcome: a safe failure and a terminal absence are stored for
\* actions without an effect.
LEMMA FinishMovesOn ==
  ASSUME Inv, CleanInv, NEW o \in Operators, NEW a \in Actions,
         \/ FinishExecutionSuccess(o, a) \/ FinishExecutionError(o, a) \/ FinishReconciliation(o, a)
  PROVE  MovesOn
<1>1. /\ call' = [call EXCEPT ![o] = Idle]
      /\ UNCHANGED <<attemptCount, lateWrites, requests, changes>>
  BY DEF FinishExecutionSuccess, FinishExecutionError, FinishReconciliation, CloseAttempt,
         authority, target
<1>2. \A p \in Operators : call'[p] = call[p] \/ call'[p].stage = "idle"
  BY <1>1 DEF Inv, TypeOK
<1>3. \A b \in Actions, n \in AttemptNumbers :
        attempt'[b][n] = "running" => attempt[b][n] = "running"
  <2>1. CASE FinishReconciliation(o, a)
    BY <2>1 DEF FinishReconciliation
  <2>2. CASE FinishExecutionSuccess(o, a) \/ FinishExecutionError(o, a)
    <3>1. PICK outcome \in {"succeeded", "failed_before_change", "unknown"} :
            attempt' = [attempt EXCEPT ![a][call[o].number] = outcome]
      BY <2>2 DEF FinishExecutionSuccess, FinishExecutionError, CloseAttempt
    <3>. QED
      BY <3>1 DEF Inv, TypeOK
  <2>. QED
    BY <2>1, <2>2
<1>4. \A b \in Actions : status'[b] = status[b] \/ b = a
  BY DEF FinishExecutionSuccess, FinishExecutionError, FinishReconciliation, CloseAttempt,
         Inv, TypeOK
<1>5. ASSUME status'[a] \in {"ready", "failed_safe"}, ~lateWrites PROVE Quiet(a)
  <2>. SafeIsQuiet
    BY <1>5 DEF CleanInv
  <2>1. CASE FinishReconciliation(o, a)
    BY <1>5, <2>1 DEF FinishReconciliation, OutcomeForLookup, SafeIsQuiet, Inv, TypeOK
  <2>2. CASE FinishExecutionError(o, a)
    BY <1>5, <2>2 DEF FinishExecutionError, HoldsRunningAttempt, CloseAttempt, SafeIsQuiet,
                      Live, Writing, Inv, TypeOK
  <2>3. CASE FinishExecutionSuccess(o, a)
    BY <1>5, <2>3 DEF FinishExecutionSuccess, CloseAttempt, Inv, TypeOK
  <2>. QED
    BY <2>1, <2>2, <2>3
<1>. QED
  BY <1>1, <1>2, <1>3, <1>4, <1>5 DEF MovesOn

\* The other steps send nothing and make no action attemptable.
LEMMA RestMovesOn ==
  ASSUME Inv,
         \/ \E o \in Operators : \E as, shown \in SUBSET Actions : Read(o, as, shown)
         \/ \E o \in Operators, a \in Actions :
              PrepareReconciliation(o, a) \/ RecordManualOutcome(o, a) \/ Escalate(o, a)
         \/ \E a \in Actions : AttemptAges(a)
         \/ CaseCommand \/ ApprovalLapses \/ ConnectionChanges
         \/ UNCHANGED vars
  PROVE  MovesOn
<1>1. /\ UNCHANGED <<lateWrites, attemptCount, requests, changes>>
      /\ \A p \in Operators : call'[p] = call[p] \/ call'[p].stage = "checking"
  <2>1. CASE \E o \in Operators, a \in Actions : PrepareReconciliation(o, a)
    BY <2>1 DEF PrepareReconciliation, authority, target, row, Inv, TypeOK
  <2>. QED
    BY <2>1 DEF Read, RecordManualOutcome, Escalate, AttemptAges, CaseCommand, ApprovalLapses,
         ConnectionChanges, authority, target, row, vars
<1>2. CASE \E o \in Operators : \E as, shown \in SUBSET Actions : Read(o, as, shown)
  <2>1. ASSUME NEW a \in Actions
        PROVE  /\ status'[a] = status[a] \/ status'[a] = "outcome_unknown"
               /\ \/ attempt'[a] = attempt[a]
                  \/ attempt'[a] = [attempt[a] EXCEPT ![attemptCount[a]] = "unknown"]
    BY <1>2 DEF Read, ReconcileAbandoned
  <2>2. \A a \in Actions, n \in AttemptNumbers :
          attempt'[a][n] = "running" => attempt[a][n] = "running"
    <3>. SUFFICES ASSUME NEW a \in Actions, NEW n \in AttemptNumbers, attempt'[a][n] = "running"
                  PROVE  attempt[a][n] = "running"
      OBVIOUS
    <3>1. attempt[a] \in [AttemptNumbers -> AttemptOutcome]
      BY DEF Inv, TypeOK
    <3>2. CASE attempt'[a] = attempt[a]
      BY <3>2
    <3>3. CASE attempt'[a] = [attempt[a] EXCEPT ![attemptCount[a]] = "unknown"]
      BY <3>1, <3>3
    <3>. QED
      BY <2>1, <3>2, <3>3
  <2>. QED
    BY <1>1, <2>1, <2>2 DEF MovesOn
<1>3. CASE \E o \in Operators, a \in Actions :
             PrepareReconciliation(o, a) \/ RecordManualOutcome(o, a) \/ Escalate(o, a)
  <2>1. attempt' = attempt
    BY <1>3 DEF PrepareReconciliation, RecordManualOutcome, Escalate, row
  <2>2. \A a \in Actions : status'[a] \in {"ready", "failed_safe"} => status'[a] = status[a]
    BY <1>3 DEF PrepareReconciliation, RecordManualOutcome, Escalate, row, Inv, TypeOK
  <2>. QED
    BY <1>1, <2>1, <2>2 DEF MovesOn
<1>4. CASE \/ \E a \in Actions : AttemptAges(a)
           \/ CaseCommand \/ ApprovalLapses \/ ConnectionChanges
           \/ UNCHANGED vars
  <2>1. UNCHANGED <<status, attempt>>
    BY <1>4 DEF AttemptAges, CaseCommand, ApprovalLapses, ConnectionChanges, row, vars
  <2>. QED
    BY <1>1, <2>1 DEF MovesOn
<1>. QED
  BY <1>2, <1>3, <1>4

\* Every step starts an attempt or moves on.
LEMMA StepMovesOn ==
  ASSUME Inv, CleanInv, [Next]_vars
  PROVE  MovesOn \/ \E o \in Operators, a \in Actions : Execute(o, a) \/ RetrySafe(o, a)
<1>1. ASSUME NEW o \in Operators, NEW a \in Actions, Get(o, a) PROVE MovesOn
  <2>1. {a} \in SUBSET Actions
    OBVIOUS
  <2>. QED
    BY <1>1, <2>1, RestMovesOn DEF Get
<1>2. ASSUME NEW o \in Operators, List(o) PROVE MovesOn
  <2>1. Actions \in SUBSET Actions
    OBVIOUS
  <2>. QED
    BY <1>2, <2>1, RestMovesOn DEF List
<1>3. ASSUME NEW o \in Operators, NEW a \in Actions,
             PrepareReconciliation(o, a) \/ RecordManualOutcome(o, a) \/ Escalate(o, a)
      PROVE  MovesOn
  BY <1>3, RestMovesOn
<1>4. ASSUME NEW o \in Operators, GatewayStep(o) \/ Crash(o) PROVE MovesOn
  BY <1>4, CallMovesOn
<1>5. ASSUME NEW o \in Operators, FinishStep(o) PROVE MovesOn
  BY <1>5, CallMovesOn, FinishMovesOn DEF FinishStep
<1>6. ASSUME NEW r \in requests, TargetAccepts(r) \/ TargetRefuses(r) \/ RequestLost(r)
      PROVE  MovesOn
  BY <1>6, TargetMovesOn
<1>7. CASE \/ \E a \in Actions : AttemptAges(a)
           \/ CaseCommand \/ ApprovalLapses \/ ConnectionChanges
           \/ UNCHANGED vars
  BY <1>7, RestMovesOn
<1>. QED
  BY <1>1, <1>2, <1>3, <1>4, <1>5, <1>6, <1>7 DEF Next

\* Every step keeps the promise.
LEMMA NextClean == Inv /\ CleanInv /\ [Next]_vars => CleanInv'
<1>. SUFFICES ASSUME Inv, CleanInv, [Next]_vars PROVE CleanInv'
  OBVIOUS
<1>1. CASE MovesOn
  BY <1>1, NextInv, MovesOnClean
<1>2. ASSUME NEW o \in Operators, NEW a \in Actions, Execute(o, a) \/ RetrySafe(o, a)
      PROVE  CleanInv'
  BY <1>2, StartClean DEF Execute, RetrySafe
<1>. QED
  BY <1>1, <1>2, StepMovesOn

\* Writers never share an attempt, and under the target's promise every safe
\* state is one without an effect, in every reachable state.
THEOREM CleanInvariance == Spec => []CleanInv
<1>1. Init => CleanInv
  BY DEF Init, CleanInv, WritersDiffer, SafeIsQuiet, OnlyTheLatestWrites, Quiet, Live, Writing,
         LatestAttempt
<1>2. Inv /\ CleanInv /\ [Next]_vars => CleanInv'
  BY NextClean
<1>. QED
  BY <1>1, <1>2, Invariance, PTL DEF Spec

\* When the target's terminal absence covers the writes on their way, an
\* action shown as failed safe has had no effect and never will.
THEOREM FailedSafeIsUnchangedHolds == Spec => []FailedSafeIsUnchanged
<1>1. CleanInv => FailedSafeIsUnchanged
  BY QuietMeans DEF CleanInv, SafeIsQuiet, FailedSafeIsUnchanged
<1>. QED
  BY <1>1, CleanInvariance, PTL

\* An attempt starts only when nothing is recorded, and under the same
\* promise nothing changed and nothing on its way.
THEOREM AttemptsStartCleanHolds == Spec => AttemptsStartClean
<1>. DEFINE Starts == \A a \in Actions :
              attemptCount'[a] # attemptCount[a] =>
                /\ ~receipt[a] /\ ~humanConfirmed[a]
                /\ ~lateWrites => changes[a] = 0 /\ Outstanding(a) = {}
<1>1. Inv /\ CleanInv /\ [Next]_vars => [Starts]_vars
  <2>. SUFFICES ASSUME Inv, CleanInv, Next, NEW a \in Actions, attemptCount'[a] # attemptCount[a]
                PROVE  /\ ~receipt[a] /\ ~humanConfirmed[a]
                       /\ ~lateWrites => changes[a] = 0 /\ Outstanding(a) = {}
    OBVIOUS
  <2>1. CASE MovesOn
    BY <2>1 DEF MovesOn
  <2>2. ASSUME NEW o \in Operators, NEW b \in Actions, Execute(o, b) \/ RetrySafe(o, b)
        PROVE  /\ ~receipt[a] /\ ~humanConfirmed[a]
               /\ ~lateWrites => changes[a] = 0 /\ Outstanding(a) = {}
    <3>1. b = a
      BY <2>2 DEF Execute, RetrySafe, StartAttempt, Inv, TypeOK
    <3>2. ~Blocked(a) /\ status[a] \in {"ready", "failed_safe"}
      BY <2>2, <3>1 DEF Execute, RetrySafe, MayStart
    <3>3. ~receipt[a] /\ ~humanConfirmed[a]
      BY <3>2 DEF Blocked, Inv, CaseFollowsCompletion
    <3>4. ~lateWrites => Quiet(a)
      BY <3>2 DEF CleanInv, SafeIsQuiet
    <3>. QED
      BY <3>3, <3>4, QuietMeans
  <2>3. ~MovesOn => \E o \in Operators, b \in Actions : Execute(o, b) \/ RetrySafe(o, b)
    BY StepMovesOn
  <2>. QED
    BY <2>1, <2>2, <2>3
<1>2. Spec => [][Starts]_vars
  BY <1>1, Invariance, CleanInvariance, PTL DEF Spec
<1>. QED
  BY <1>2 DEF AttemptsStartClean

\* A step that changes an action, its attempts or its check leaves at most
\* one operator, the reader that triggered it, with a version that a command
\* would accept.
THEOREM ChangeMovesVersionHolds == Spec => ChangeMovesVersion
<1>. DEFINE Stale(a) == \E o \in Operators : current'[a] \subseteq {o}
            Same(a) == status'[a] = status[a] /\ attempt'[a] = attempt[a] /\ lastCheck'[a] = lastCheck[a]
            Moves == \A a \in Actions :
              (\/ status'[a] # status[a]
               \/ attempt'[a] # attempt[a]
               \/ lastCheck'[a] # lastCheck[a]) => Stale(a)
<1>1. Inv /\ [Next]_vars => [Moves]_vars
  <2>. SUFFICES ASSUME Inv, Next, NEW a \in Actions PROVE Same(a) \/ Stale(a)
    OBVIOUS
  <2>1. ASSUME NEW o \in Operators, NEW b \in Actions,
               BumpVersion(b),
               \E x : status' = [status EXCEPT ![b] = x] \/ status' = status,
               \E x : attempt' = [attempt EXCEPT ![b] = x] \/ attempt' = attempt,
               \E x : lastCheck' = [lastCheck EXCEPT ![b] = x] \/ lastCheck' = lastCheck
        PROVE  Same(a) \/ Stale(a)
    <3>1. CASE b = a
      <4>1. current'[a] = {}
        BY <2>1, <3>1 DEF BumpVersion, Inv, TypeOK
      <4>. QED
        BY <4>1
    <3>2. CASE b # a
      BY <2>1, <3>2 DEF Inv, TypeOK
    <3>. QED
      BY <3>1, <3>2
  <2>2. ASSUME NEW o \in Operators, NEW b \in Actions, Execute(o, b) \/ RetrySafe(o, b)
        PROVE  Same(a) \/ Stale(a)
    <3>1. StartAttempt(o, b)
      BY <2>2 DEF Execute, RetrySafe
    <3>2. /\ BumpVersion(b) /\ status' = [status EXCEPT ![b] = "running"]
          /\ attempt' = [attempt EXCEPT ![b] = [attempt[b] EXCEPT ![attemptCount[b] + 1] = "running"]]
          /\ lastCheck' = lastCheck
      BY <3>1 DEF StartAttempt, checks
    <3>. QED
      BY <2>1, <3>2
  <2>3. ASSUME NEW o \in Operators, NEW b \in Actions,
               PrepareReconciliation(o, b) \/ RecordManualOutcome(o, b) \/ Escalate(o, b)
                 \/ FinishReconciliation(o, b)
        PROVE  Same(a) \/ Stale(a)
    <3>1. BumpVersion(b) /\ attempt' = attempt
      BY <2>3 DEF PrepareReconciliation, RecordManualOutcome, Escalate, FinishReconciliation, row
    <3>2. \E x : status' = [status EXCEPT ![b] = x] \/ status' = status
      BY <2>3 DEF PrepareReconciliation, RecordManualOutcome, Escalate, FinishReconciliation, row
    <3>3. \E x : lastCheck' = [lastCheck EXCEPT ![b] = x] \/ lastCheck' = lastCheck
      BY <2>3 DEF PrepareReconciliation, RecordManualOutcome, Escalate, FinishReconciliation, checks
    <3>. QED
      BY <2>1, <3>1, <3>2, <3>3
  <2>4. ASSUME NEW o \in Operators, NEW b \in Actions,
               FinishExecutionSuccess(o, b) \/ FinishExecutionError(o, b)
        PROVE  Same(a) \/ Stale(a)
    <3>1. PICK outcome, new : CloseAttempt(o, b, outcome, new)
      BY <2>4 DEF FinishExecutionSuccess, FinishExecutionError
    <3>2. /\ BumpVersion(b) /\ status' = [status EXCEPT ![b] = new]
          /\ attempt' = [attempt EXCEPT ![b] = [attempt[b] EXCEPT ![call[o].number] = outcome]]
          /\ lastCheck' = lastCheck
      BY <3>1 DEF CloseAttempt, checks
    <3>. QED
      BY <2>1, <3>2
  <2>5. ASSUME NEW o \in Operators, NEW as \in SUBSET Actions, NEW shown \in SUBSET Actions,
               Read(o, as, shown)
        PROVE  Same(a) \/ Stale(a)
    <3>1. lastCheck' = lastCheck
      BY <2>5 DEF Read, checks
    <3>2. CASE a \in as /\ Abandoned(a)
      <4>1. status[a] = "running"
        BY <3>2 DEF Abandoned, Inv, OneRunningAttempt
      <4>2. status'[a] # status[a]
        BY <2>5, <3>2, <4>1 DEF Read, ReconcileAbandoned
      <4>3. current'[a] \subseteq {o}
        BY <2>5, <4>2 DEF Read
      <4>. QED
        BY <4>3
    <3>3. CASE ~(a \in as /\ Abandoned(a))
      BY <2>5, <3>1, <3>3 DEF Read, ReconcileAbandoned
    <3>. QED
      BY <3>2, <3>3
  <2>6. ASSUME NEW o \in Operators, NEW b \in Actions, Get(o, b) PROVE Same(a) \/ Stale(a)
    <3>1. {b} \in SUBSET Actions
      OBVIOUS
    <3>. QED
      BY <2>5, <2>6, <3>1 DEF Get
  <2>7. ASSUME NEW o \in Operators, List(o) PROVE Same(a) \/ Stale(a)
    <3>1. Actions \in SUBSET Actions
      OBVIOUS
    <3>. QED
      BY <2>5, <2>7, <3>1 DEF List
  <2>8. ASSUME NEW o \in Operators,
               GatewayStep(o) \/ Crash(o) \/ \E b \in Actions : FinishTooLate(o, b)
        PROVE  Same(a)
    BY <2>8 DEF GatewayStep, GatewayUnreachable, GatewaySend, GatewayUnconfirmed,
         GatewayReconcile, Crash, FinishTooLate, row, checks
  <2>9. ASSUME NEW r \in requests, TargetAccepts(r) \/ TargetRefuses(r) \/ RequestLost(r)
        PROVE  Same(a)
    BY <2>9 DEF TargetAccepts, TargetRefuses, RequestLost, row, checks
  <2>10. CASE \/ \E b \in Actions : AttemptAges(b)
              \/ CaseCommand \/ ApprovalLapses \/ ConnectionChanges
    BY <2>10 DEF AttemptAges, CaseCommand, ApprovalLapses, ConnectionChanges, row, checks
  <2>11. ASSUME NEW o \in Operators, FinishStep(o) PROVE Same(a) \/ Stale(a)
    BY <2>3, <2>4, <2>8, <2>11 DEF FinishStep
  <2>. HIDE DEF Same, Stale
  <2>. QED
    BY <2>2, <2>3, <2>6, <2>7, <2>8, <2>9, <2>10, <2>11 DEF Next
<1>2. Spec => [][Moves]_vars
  BY <1>1, Invariance, PTL DEF Spec
<1>. QED
  BY <1>2 DEF ChangeMovesVersion
=============================================================================
