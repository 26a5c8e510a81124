------------------------- MODULE DraftDeliveryProofs -------------------------
(***************************************************************************)
(* Proofs about DraftDelivery for any number of commands, versions, texts  *)
(* and attempts: at most one draft, true outcomes, and the refinement of   *)
(* DraftPromise.                                                           *)
(***************************************************************************)
EXTENDS DraftDelivery, FiniteSetTheorems, TLAPS

\* A deliver command that has not asked the provider for its draft.
Unsent(w) == step[w] \in {"started", "denied"}

\* What a deliver command remembers agrees with where it is.
CommandsStand ==
  \A w \in Deliverers :
    /\ target[w] = 0 <=> step[w] = "idle"
    /\ Unsent(w) => wire[w] = 0
    /\ step[w] = "calling" => wire[w] \in {0, target[w]}
    /\ step[w] = "created" => made[target[w]] = 1
    /\ gateway = "deterministic" => wire[w] = 0

\* With Gmail a version has one command and one request in flight at most,
\* and none of either once it may be started again.
OneRequest ==
  gateway = "gmail" =>
    \A k \in Versions, w \in Deliverers :
      /\ \A v \in Deliverers : target[v] = k /\ target[w] = k => v = w
      /\ \A v \in Deliverers : wire[v] = k /\ wire[w] = k => v = w
      /\ wire[w] = k => made[k] = 0
      /\ Unsent(w) /\ target[w] = k => made[k] = 0 /\ \A v \in Deliverers : wire[v] # k
      /\ Startable(k) => target[w] # k /\ wire[w] # k

\* A version that may be started again has no draft at Gmail.
NoneWhenStartable ==
  gateway = "gmail" => \A k \in Versions : Startable(k) => made[k] = 0

\* What the mailbox shows was made, and only a version that exists is ready.
MailboxIsReal ==
  /\ ready => version # 0
  /\ \A k \in Versions : made[k] \in {0, 1} /\ (k \in present => made[k] = 1)

\* What a reconcile command found was there to be found.
LookupsStand ==
  \A r \in Reconcilers :
    /\ check[r] # "idle" => subject[r] # 0
    /\ check[r] = "found" => /\ seen[r] # 0 /\ made[seen[r]] = 1
                             /\ text[seen[r]] = text[subject[r]]
    /\ check[r] = "terminal_absence" => gateway = "deterministic"

\* The inductive invariant.
Inv ==
  /\ TypeOK
  /\ CommandsStand
  /\ OneRequest
  /\ NoneWhenStartable
  /\ MailboxIsReal
  /\ LookupsStand
  /\ CompletedNamesDraft

-----------------------------------------------------------------------------

\* Zero stands for no version.
LEMMA NoVersion == 0 \notin Versions
BY DEF Versions

USE NoVersion
    DEF DraftDeliveryStatus, RowStatus, Uncertain, Lookup, Unsent, Startable, Prepared

\* Before the first version of the draft nothing was delivered.
LEMMA InitInv == Init => Inv
<1>. SUFFICES ASSUME Init PROVE Inv
  OBVIOUS
<1>0. FlagsOK
  BY DEF Init, FlagsOK
<1>1. TypeOK
  BY <1>0, GatewaysAssumption, MaxAttemptsAssumption DEF Init, TypeOK
<1>2. CommandsStand /\ OneRequest /\ NoneWhenStartable
  BY DEF Init, CommandsStand, OneRequest, NoneWhenStartable
<1>3. MailboxIsReal /\ LookupsStand /\ CompletedNamesDraft
  BY DEF Init, MailboxIsReal, LookupsStand, CompletedNamesDraft
<1>. QED
  BY <1>1, <1>2, <1>3 DEF Inv

\* The case, the mailbox owner and the clock touch neither rows nor requests.
LEMMA OutsideInv ==
  ASSUME Inv,
         \/ SaveDraft \/ ApproveReview \/ CaseChanges
         \/ \E k \in Versions : OwnerTakesDraft(k) \/ LeaseExpires(k)
  PROVE  Inv'
<1>. USE DEF Inv, SaveDraft, ApproveReview, CaseChanges, OwnerTakesDraft, LeaseExpires,
            fixed, caseVars, row, deliverVars, reconcileVars, mailbox
<1>0. FlagsOK'
  BY DEF TypeOK, FlagsOK
<1>1. TypeOK'
  <2>1. version' \in Versions \union {0}
    BY MaxVersionAssumption DEF TypeOK, Versions
  <2>. QED
    BY <1>0, <2>1 DEF TypeOK
<1>2. (CommandsStand /\ OneRequest /\ NoneWhenStartable)'
  BY DEF CommandsStand, OneRequest, NoneWhenStartable
<1>3. MailboxIsReal'
  <2>1. version' # 0 \/ (version' = version /\ ready' = ready)
    BY MaxVersionAssumption DEF TypeOK, Versions
  <2>2. \A k \in Versions : made'[k] \in {0, 1} /\ (k \in present' => made'[k] = 1)
    BY DEF MailboxIsReal
  <2>. QED
    BY <2>1, <2>2 DEF MailboxIsReal
<1>4. LookupsStand' /\ CompletedNamesDraft'
  BY DEF LookupsStand, CompletedNamesDraft
<1>. QED
  BY <1>1, <1>2, <1>3, <1>4

\* deliver's first transaction finds a startable version, for which no other
\* command and no request is under way.
LEMMA DeliverInv ==
  ASSUME Inv, NEW w \in Deliverers, Deliver(w)
  PROVE  Inv'
<1>. USE DEF Inv, Deliver, DraftIsReady, ApprovalStands, fixed, caseVars, reconcileVars, mailbox
<1>1. version \in Versions
  BY DEF TypeOK, MailboxIsReal
<1>0. FlagsOK'
  BY DEF TypeOK, FlagsOK
<1>2. TypeOK'
  <2>1. attempts[version] + 1 \in 0 .. MaxAttempts
    BY <1>1, MaxAttemptsAssumption DEF TypeOK
  <2>2. attempts' \in [Versions -> 0 .. MaxAttempts]
    BY <1>1, <2>1 DEF TypeOK
  <2>. QED
    BY <1>0, <1>1, <2>2 DEF TypeOK
<1>3. CommandsStand'
  BY <1>1 DEF TypeOK, CommandsStand
<1>4. OneRequest'
  BY <1>1 DEF TypeOK, OneRequest, NoneWhenStartable, CommandsStand
<1>5. NoneWhenStartable'
  BY <1>1 DEF TypeOK, NoneWhenStartable
<1>6. (MailboxIsReal /\ LookupsStand)'
  BY DEF MailboxIsReal, LookupsStand
<1>7. CompletedNamesDraft'
  BY <1>1 DEF TypeOK, CompletedNamesDraft
<1>. QED
  BY <1>2, <1>3, <1>4, <1>5, <1>6, <1>7

\* The call to the provider, whatever becomes of it.
LEMMA CallInv ==
  ASSUME Inv, NEW w \in Deliverers,
         \/ AccessFails(w) \/ CreateReplyDraft(w) \/ GmailCreates(w)
         \/ GmailRefuses(w) \/ NoAnswer(w) \/ CommandDies(w)
  PROVE  Inv'
<1>. USE DEF Inv, fixed, caseVars, row, deliverVars, reconcileVars, mailbox
<1>0. FlagsOK'
  BY DEF TypeOK, FlagsOK, AccessFails, CreateReplyDraft, GmailCreates, GmailRefuses, NoAnswer,
         CommandDies
<1>1. CASE AccessFails(w) \/ NoAnswer(w) \/ GmailRefuses(w) \/ CommandDies(w)
  <2>. USE <1>1 DEF AccessFails, NoAnswer, GmailRefuses, CommandDies, Leave
  <2>1. TypeOK'
    BY <1>0 DEF TypeOK
  <2>2. CommandsStand'
    BY DEF TypeOK, CommandsStand
  <2>3. OneRequest'
    BY DEF TypeOK, OneRequest, CommandsStand
  <2>4. NoneWhenStartable' /\ MailboxIsReal' /\ LookupsStand' /\ CompletedNamesDraft'
    BY DEF NoneWhenStartable, MailboxIsReal, LookupsStand, CompletedNamesDraft
  <2>. QED
    BY <2>1, <2>2, <2>3, <2>4
<1>2. CASE CreateReplyDraft(w)
  <2>. USE <1>2 DEF CreateReplyDraft, KeepOneDraft, TransmitDraft
  <2>1. target[w] \in Versions
    BY DEF TypeOK, CommandsStand
  <2>2. TypeOK'
    BY <1>0, <2>1 DEF TypeOK
  <2>3. CommandsStand'
    BY <2>1 DEF TypeOK, CommandsStand, MailboxIsReal
  <2>4. OneRequest'
    BY <2>1 DEF TypeOK, OneRequest, CommandsStand
  <2>5. NoneWhenStartable' /\ MailboxIsReal'
    BY <2>1 DEF TypeOK, NoneWhenStartable, MailboxIsReal
  <2>6. LookupsStand' /\ CompletedNamesDraft'
    BY <2>1 DEF TypeOK, LookupsStand, CompletedNamesDraft
  <2>. QED
    BY <2>2, <2>3, <2>4, <2>5, <2>6
<1>3. CASE GmailCreates(w)
  <2>. USE <1>3 DEF GmailCreates
  <2>1. wire[w] \in Versions /\ gateway = "gmail" /\ made[wire[w]] = 0
    BY DEF TypeOK, CommandsStand, OneRequest
  <2>2. TypeOK'
    BY <1>0, <2>1 DEF TypeOK
  <2>3. CommandsStand'
    BY <2>1 DEF TypeOK, CommandsStand, MailboxIsReal
  <2>4. OneRequest'
    BY <2>1 DEF TypeOK, OneRequest, CommandsStand
  <2>5. NoneWhenStartable' /\ MailboxIsReal'
    BY <2>1 DEF TypeOK, NoneWhenStartable, MailboxIsReal, OneRequest
  <2>6. LookupsStand' /\ CompletedNamesDraft'
    BY <2>1 DEF TypeOK, LookupsStand, CompletedNamesDraft
  <2>. QED
    BY <2>2, <2>3, <2>4, <2>5, <2>6
<1>. QED
  BY <1>1, <1>2, <1>3

\* The second transaction of deliver.  Only the owner of a running row
\* settles it; with Gmail a safe failure is reported by the one command of the
\* version, which never asked for a draft.
LEMMA ReportInv ==
  ASSUME Inv, NEW w \in Deliverers, Report(w)
  PROVE  Inv'
<1>. USE DEF Inv, fixed, caseVars, reconcileVars, mailbox
<1>. DEFINE k == target[w]
<1>1. k \in Versions /\ step[w] \in {"created", "denied", "unanswered"}
  BY DEF Report, TypeOK, CommandsStand
<1>2. /\ step' = [step EXCEPT ![w] = "idle"] /\ target' = [target EXCEPT ![w] = 0]
      /\ UNCHANGED <<gateway, text, version, ready, fresh, check, subject, seen, wire, made, present,
                     attempts>>
  BY DEF Report, Leave, Settle, row
<1>3. \/ UNCHANGED row
      \/ /\ OwnsDelivery(w, k)
         /\ \/ step[w] = "created" /\ Settle(k, "completed", k)
            \/ step[w] = "denied" /\ Settle(k, "failed_safe", 0)
            \/ step[w] = "unanswered" /\ Settle(k, "outcome_unknown", 0)
  BY <1>1 DEF Report, OutcomeOf
<1>4. FlagsOK'
  BY <1>1, <1>2, <1>3 DEF TypeOK, FlagsOK, Settle, row
<1>5. TypeOK'
  BY <1>1, <1>2, <1>3, <1>4 DEF TypeOK, Settle, row
<1>6. CommandsStand'
  BY <1>2 DEF TypeOK, CommandsStand
<1>7. OneRequest'
  BY <1>1, <1>2, <1>3 DEF TypeOK, OneRequest, CommandsStand, Settle, row
<1>8. NoneWhenStartable'
  BY <1>1, <1>2, <1>3 DEF TypeOK, OneRequest, NoneWhenStartable, Settle, row
<1>9. MailboxIsReal' /\ LookupsStand'
  BY <1>2 DEF MailboxIsReal, LookupsStand
<1>10. CompletedNamesDraft'
  BY <1>1, <1>2, <1>3 DEF TypeOK, CommandsStand, CompletedNamesDraft, Settle, row
<1>. QED
  BY <1>5, <1>6, <1>7, <1>8, <1>9, <1>10

\* reconcile up to its last transaction.
LEMMA LookupInv ==
  ASSUME Inv, NEW r \in Reconcilers,
         \/ \E k \in Versions : Reconcile(r, k)
         \/ FindDraft(r) \/ LookupFails(r) \/ ReconcileDies(r)
  PROVE  Inv'
<1>. USE DEF Inv, fixed, caseVars, row, deliverVars, reconcileVars, mailbox
<1>1. UNCHANGED <<gateway, text, version, ready, fresh, status, owner, expired, receipt, attempts,
                  step, target, wire, made, present>>
  BY DEF Reconcile, FindDraft, LookupFails, ReconcileDies
<1>2. \A q \in Reconcilers \ {r} :
        check'[q] = check[q] /\ subject'[q] = subject[q] /\ seen'[q] = seen[q]
  BY DEF TypeOK, Reconcile, FindDraft, FindGmailDraft, FindDeterministicDraft, LookupFails,
         ReconcileDies, EndCheck
<1>3. /\ check' \in [Reconcilers -> Lookup \union {"idle", "loaded"}]
      /\ subject' \in [Reconcilers -> Versions \union {0}]
      /\ seen' \in [Reconcilers -> Versions \union {0}]
      /\ check'[r] # "idle" => subject'[r] # 0
      /\ check'[r] = "found" => /\ seen'[r] # 0 /\ made[seen'[r]] = 1
                                /\ text[seen'[r]] = text[subject'[r]]
      /\ check'[r] = "terminal_absence" => gateway = "deterministic"
  <2>1. CASE \E k \in Versions : Reconcile(r, k)
    BY <2>1 DEF TypeOK, Reconcile
  <2>2. CASE LookupFails(r) \/ ReconcileDies(r)
    BY <2>2 DEF TypeOK, LookupsStand, LookupFails, ReconcileDies, EndCheck
  <2>3. CASE FindDraft(r) /\ gateway = "deterministic"
    <3>1. subject[r] \in Versions
      BY <2>3 DEF TypeOK, LookupsStand, FindDraft
    <3>. QED
      BY <2>3, <3>1 DEF TypeOK, MailboxIsReal, FindDraft, FindDeterministicDraft
  <2>4. CASE FindDraft(r) /\ gateway = "gmail"
    <3>1. subject[r] \in Versions /\ subject' = subject
      BY <2>4 DEF TypeOK, LookupsStand, FindDraft
    <3>2. PICK shown \in SUBSET Matches(subject[r]) :
            IF Cardinality(shown) = 1
              THEN /\ check' = [check EXCEPT ![r] = "found"]
                   /\ seen' = [seen EXCEPT ![r] = CHOOSE j \in shown : TRUE]
              ELSE /\ check' = [check EXCEPT ![r] = "inconclusive"]
                   /\ UNCHANGED seen
      BY <2>4 DEF FindDraft, FindGmailDraft
    <3>3. CASE Cardinality(shown) = 1
      <4>1. shown # {}
        <5>1. Cardinality({}) = 0
          BY FS_EmptySet
        <5>. QED
          BY <3>3, <5>1
      <4>. DEFINE j == CHOOSE i \in shown : TRUE
      <4>2. j \in shown
        BY <4>1
      <4>3. j \in Versions /\ j \in present /\ text[j] = text[subject[r]]
        BY <4>2 DEF Matches, TypeOK
      <4>4. check' = [check EXCEPT ![r] = "found"] /\ seen' = [seen EXCEPT ![r] = j]
        BY <3>2, <3>3
      <4>. HIDE DEF j
      <4>. QED
        BY <3>1, <4>3, <4>4 DEF TypeOK, MailboxIsReal
    <3>4. CASE Cardinality(shown) # 1
      BY <3>1, <3>2, <3>4 DEF TypeOK
    <3>. QED
      BY <3>3, <3>4
  <2>. QED
    BY <2>1, <2>2, <2>3, <2>4 DEF FindDraft
<1>4. FlagsOK'
  BY <1>1 DEF TypeOK, FlagsOK
<1>5. TypeOK'
  BY <1>1, <1>3, <1>4 DEF TypeOK
<1>6. (CommandsStand /\ OneRequest /\ NoneWhenStartable /\ MailboxIsReal /\ CompletedNamesDraft)'
  BY <1>1 DEF CommandsStand, OneRequest, NoneWhenStartable, MailboxIsReal, CompletedNamesDraft
<1>7. LookupsStand'
  BY <1>1, <1>2, <1>3 DEF LookupsStand
<1>. QED
  BY <1>5, <1>6, <1>7

\* The last transaction of reconcile never makes a Gmail delivery startable
\* again: only the deterministic adapter proves absence.
LEMMA SettleCheckInv ==
  ASSUME Inv, NEW r \in Reconcilers, SettleCheck(r)
  PROVE  Inv'
<1>. USE DEF Inv, fixed, caseVars, deliverVars, mailbox
<1>. DEFINE k == subject[r]
<1>1. k \in Versions /\ check[r] \in Lookup
  BY DEF SettleCheck, TypeOK, LookupsStand
<1>2. /\ check' = [check EXCEPT ![r] = "idle"] /\ subject' = [subject EXCEPT ![r] = 0]
      /\ seen' = [seen EXCEPT ![r] = 0]
      /\ UNCHANGED <<gateway, text, version, ready, fresh, step, target, wire, made, present, attempts>>
  BY DEF SettleCheck, EndCheck, Settle, row
<1>3. \/ UNCHANGED row
      \/ /\ Reconcilable(k)
         /\ \/ check[r] = "found" /\ Settle(k, "completed", seen[r])
            \/ check[r] = "terminal_absence" /\ Settle(k, "failed_safe", 0)
            \/ check[r] = "inconclusive" /\ Settle(k, "recovery_required", 0)
  BY <1>1 DEF SettleCheck, Transferable
<1>4. FlagsOK'
  BY <1>1, <1>2, <1>3 DEF TypeOK, FlagsOK, Settle, row
<1>5. TypeOK'
  BY <1>1, <1>2, <1>3, <1>4 DEF TypeOK, Settle, row
<1>6. CommandsStand' /\ MailboxIsReal'
  BY <1>2 DEF CommandsStand, MailboxIsReal
<1>7. OneRequest' /\ NoneWhenStartable'
  BY <1>1, <1>2, <1>3 DEF TypeOK, OneRequest, NoneWhenStartable, LookupsStand, Settle, row
<1>8. LookupsStand'
  BY <1>2 DEF TypeOK, LookupsStand
<1>9. CompletedNamesDraft'
  BY <1>1, <1>2, <1>3 DEF TypeOK, LookupsStand, CompletedNamesDraft, Settle, row
<1>. QED
  BY <1>5, <1>6, <1>7, <1>8, <1>9

\* Every step of the delivery keeps the invariant.
LEMMA NextInv == Inv /\ [Next]_vars => Inv'
<1>. SUFFICES ASSUME Inv, [Next]_vars PROVE Inv'
  OBVIOUS
<1>1. CASE \/ SaveDraft \/ ApproveReview \/ CaseChanges
           \/ \E k \in Versions : OwnerTakesDraft(k) \/ LeaseExpires(k)
  BY <1>1, OutsideInv
<1>2. ASSUME NEW w \in Deliverers, DeliverStep(w) PROVE Inv'
  BY <1>2, DeliverInv, CallInv, ReportInv DEF DeliverStep
<1>3. ASSUME NEW r \in Reconcilers, ReconcileStep(r) PROVE Inv'
  BY <1>3, LookupInv, SettleCheckInv DEF ReconcileStep
<1>4. CASE UNCHANGED vars
  <2>. USE <1>4 DEF vars, fixed, caseVars, row, deliverVars, reconcileVars, mailbox, Inv
  <2>1. TypeOK'
    BY DEF TypeOK, FlagsOK
  <2>2. (CommandsStand /\ OneRequest /\ NoneWhenStartable)'
    BY DEF CommandsStand, OneRequest, NoneWhenStartable
  <2>3. (MailboxIsReal /\ LookupsStand /\ CompletedNamesDraft)'
    BY DEF MailboxIsReal, LookupsStand, CompletedNamesDraft
  <2>. QED
    BY <2>1, <2>2, <2>3
<1>. QED
  BY <1>1, <1>2, <1>3, <1>4 DEF Next

-----------------------------------------------------------------------------

\* The inductive invariant holds in every reachable state of the deliveries of
\* a response draft.
THEOREM DeliveryInvariance == Spec => []Inv
<1>1. Init => Inv
  BY InitInv
<1>2. Inv /\ [Next]_vars => Inv'
  BY NextInv
<1>. QED
  BY <1>1, <1>2, PTL DEF Spec

\* However deliver and reconcile commands overlap, die or outlive their
\* leases, the provider makes at most one draft for an authorized version, and
\* at Gmail no request for another one is then under way.
THEOREM AtMostOneDraftHolds == Spec => []AtMostOneDraft
<1>1. Inv => AtMostOneDraft
  <2>. SUFFICES ASSUME Inv, NEW k \in Versions
                PROVE  /\ made[k] <= 1
                       /\ gateway = "gmail" => made[k] + Cardinality(Outstanding(k)) <= 1
    BY DEF AtMostOneDraft
  <2>1. made[k] \in {0, 1}
    BY DEF Inv, MailboxIsReal
  <2>2. ASSUME gateway = "gmail" PROVE made[k] + Cardinality(Outstanding(k)) <= 1
    <3>1. CASE Outstanding(k) = {}
      BY <2>1, <3>1, FS_EmptySet
    <3>2. CASE Outstanding(k) # {}
      <4>1. PICK w \in Deliverers : w \in Outstanding(k)
        BY <3>2 DEF Outstanding
      <4>2. Outstanding(k) = {w} /\ made[k] = 0
        BY <2>2, <4>1 DEF Inv, OneRequest, Outstanding
      <4>. QED
        BY <4>2, FS_Singleton
    <3>. QED
      BY <3>1, <3>2
  <2>. QED
    BY <2>1, <2>2
<1>. QED
  BY <1>1, DeliveryInvariance, PTL

\* What a delivery says is true: failed_safe means that Gmail has no draft and
\* gets no request for one, completed that a draft with the approved text was
\* made.
THEOREM OutcomeIsTrueHolds == Spec => []OutcomeIsTrue
<1>1. Inv => OutcomeIsTrue
  BY DEF Inv, OutcomeIsTrue, FailedSafeMeansNone, OneRequest, NoneWhenStartable, Outstanding
<1>. QED
  BY <1>1, DeliveryInvariance, PTL

-----------------------------------------------------------------------------
(* The refinement of DraftPromise *)

\* Nothing has been told before the first delivery.
LEMMA PromiseInit == Init => Promise!Init
BY GatewaysAssumption DEF Init, Promise!Init, Told

\* Every step of the service is a step of the promise or changes nothing the
\* promise speaks of.
LEMMA PromiseNext == Inv /\ [Next]_vars => [Promise!Next]_Promise!promise
<1>. SUFFICES ASSUME Inv, [Next]_vars PROVE [Promise!Next]_Promise!promise
  OBVIOUS
<1>. USE DEF fixed, caseVars, row, deliverVars, reconcileVars, mailbox
<1>1. ASSUME UNCHANGED <<gateway, text, status, made>> PROVE UNCHANGED Promise!promise
  BY <1>1 DEF Promise!promise, Told
<1>2. ASSUME NEW w \in Deliverers, Deliver(w) PROVE Promise!Next
  <2>1. version \in Versions
    BY <1>2 DEF Deliver, DraftIsReady, Inv, TypeOK, MailboxIsReal
  <2>2. Promise!Begin(version)
    BY <1>2, <2>1 DEF Deliver, Promise!Begin, Told, Inv, TypeOK
  <2>. QED
    BY <2>1, <2>2 DEF Promise!Next
<1>3. ASSUME NEW w \in Deliverers, CreateReplyDraft(w) \/ GmailCreates(w)
      PROVE  [Promise!Next]_Promise!promise
  <2>1. CASE UNCHANGED made
    BY <1>1, <1>3, <2>1 DEF CreateReplyDraft, GmailCreates
  <2>2. CASE made' # made
    <3>1. PICK k \in Versions : /\ made[k] = 0 /\ made' = [made EXCEPT ![k] = 1]
                                /\ gateway = "deterministic" \/ ~Startable(k)
      <4>1. CASE CreateReplyDraft(w)
        <5>1. target[w] \in Versions
          BY <4>1 DEF CreateReplyDraft, Inv, TypeOK, CommandsStand
        <5>2. gateway = "deterministic" /\ made' = [made EXCEPT ![target[w]] = 1]
          BY <2>2, <4>1 DEF CreateReplyDraft, KeepOneDraft, TransmitDraft
        <5>3. made[target[w]] = 1 => [made EXCEPT ![target[w]] = 1] = made
          BY <5>1 DEF Inv, TypeOK
        <5>4. made[target[w]] \in {0, 1}
          BY <5>1 DEF Inv, MailboxIsReal
        <5>5. made[target[w]] # 1
          BY <2>2, <5>2, <5>3
        <5>. QED
          BY <5>1, <5>2, <5>4, <5>5
      <4>2. CASE GmailCreates(w)
        <5>1. wire[w] \in Versions /\ gateway = "gmail" /\ made[wire[w]] = 0 /\ ~Startable(wire[w])
          BY <4>2 DEF GmailCreates, Inv, TypeOK, CommandsStand, OneRequest
        <5>2. made' = [made EXCEPT ![wire[w]] = 1]
          BY <4>2, <5>1 DEF GmailCreates, Inv, TypeOK
        <5>. QED
          BY <5>1, <5>2
      <4>. QED
        BY <1>3, <4>1, <4>2
    <3>2. UNCHANGED <<gateway, text, status>>
      BY <1>3 DEF CreateReplyDraft, GmailCreates
    <3>3. Promise!Create(k)
      BY <3>1, <3>2 DEF Promise!Create, Told, Inv, TypeOK
    <3>. QED
      BY <3>3 DEF Promise!Next
  <2>. QED
    BY <2>1, <2>2
<1>4. ASSUME NEW k \in Versions, NEW outcome \in {"completed", "failed_safe", "outcome_unknown",
                                                "recovery_required"},
             NEW draft, Settle(k, outcome, draft),
             status[k] \in {"running", "outcome_unknown", "recovery_required"},
             outcome = "completed" => draft \in Versions /\ made[draft] = 1 /\ text[draft] = text[k],
             outcome = "failed_safe" => made[k] = 0 \/ gateway = "deterministic",
             UNCHANGED <<gateway, text, made>>
      PROVE  [Promise!Next]_Promise!promise
  <2>1. status' = [status EXCEPT ![k] = outcome] /\ status \in [Versions -> RowStatus]
    BY <1>4 DEF Settle, Inv, TypeOK
  <2>2. CASE outcome = "completed"
    <3>1. Promise!Confirm(k)
      BY <1>4, <2>1, <2>2 DEF Promise!Confirm, Told
    <3>. QED
      BY <3>1 DEF Promise!Next
  <2>3. CASE outcome = "failed_safe"
    <3>1. Promise!Deny(k)
      BY <1>4, <2>1, <2>3 DEF Promise!Deny, Told
    <3>. QED
      BY <3>1 DEF Promise!Next
  <2>4. CASE outcome \in {"outcome_unknown", "recovery_required"}
    BY <1>4, <2>1, <2>4 DEF Promise!promise, Told
  <2>. QED
    BY <1>4, <2>2, <2>3, <2>4
<1>5. ASSUME NEW w \in Deliverers, Report(w) PROVE [Promise!Next]_Promise!promise
  <2>. DEFINE k == target[w]
  <2>1. k \in Versions /\ step[w] \in {"created", "denied", "unanswered"}
    BY <1>5 DEF Report, Inv, TypeOK, CommandsStand
  <2>2. UNCHANGED <<gateway, text, made>>
    BY <1>5 DEF Report
  <2>3. \/ UNCHANGED row
        \/ /\ status[k] = "running"
           /\ \/ step[w] = "created" /\ Settle(k, "completed", k)
              \/ step[w] = "denied" /\ Settle(k, "failed_safe", 0)
              \/ step[w] = "unanswered" /\ Settle(k, "outcome_unknown", 0)
    BY <1>5, <2>1 DEF Report, OutcomeOf, OwnsDelivery
  <2>4. step[w] = "created" => made[k] = 1
    BY DEF Inv, CommandsStand
  <2>5. step[w] = "denied" => made[k] = 0 \/ gateway = "deterministic"
    BY <2>1 DEF Inv, TypeOK, OneRequest
  <2>. QED
    BY <1>1, <1>4, <2>1, <2>2, <2>3, <2>4, <2>5
<1>6. ASSUME NEW r \in Reconcilers, SettleCheck(r) PROVE [Promise!Next]_Promise!promise
  <2>. DEFINE k == subject[r]
  <2>1. k \in Versions /\ check[r] \in Lookup
    BY <1>6 DEF SettleCheck, Inv, TypeOK, LookupsStand
  <2>2. UNCHANGED <<gateway, text, made>>
    BY <1>6 DEF SettleCheck
  <2>3. \/ UNCHANGED row
        \/ /\ status[k] \in {"running", "outcome_unknown", "recovery_required"}
           /\ \/ check[r] = "found" /\ Settle(k, "completed", seen[r])
              \/ check[r] = "terminal_absence" /\ Settle(k, "failed_safe", 0)
              \/ check[r] = "inconclusive" /\ Settle(k, "recovery_required", 0)
    BY <1>6, <2>1 DEF SettleCheck, Transferable, Reconcilable
  <2>4. check[r] = "found" => seen[r] \in Versions /\ made[seen[r]] = 1 /\ text[seen[r]] = text[k]
    BY DEF Inv, TypeOK, LookupsStand
  <2>5. check[r] = "terminal_absence" => gateway = "deterministic"
    BY DEF Inv, LookupsStand
  <2>. QED
    BY <1>1, <1>4, <2>1, <2>2, <2>3, <2>4, <2>5
<1>7. ASSUME \/ SaveDraft \/ ApproveReview \/ CaseChanges \/ UNCHANGED vars
             \/ \E k \in Versions : OwnerTakesDraft(k) \/ LeaseExpires(k)
      PROVE  UNCHANGED <<gateway, text, status, made>>
  BY <1>7 DEF SaveDraft, ApproveReview, CaseChanges, OwnerTakesDraft, LeaseExpires, vars
<1>8. ASSUME NEW w \in Deliverers,
             AccessFails(w) \/ GmailRefuses(w) \/ NoAnswer(w) \/ CommandDies(w)
      PROVE  UNCHANGED <<gateway, text, status, made>>
  BY <1>8 DEF AccessFails, GmailRefuses, NoAnswer, CommandDies
<1>9. ASSUME NEW r \in Reconcilers,
             \/ FindDraft(r) \/ LookupFails(r) \/ ReconcileDies(r)
             \/ \E k \in Versions : Reconcile(r, k)
      PROVE  UNCHANGED <<gateway, text, status, made>>
  BY <1>9 DEF FindDraft, LookupFails, ReconcileDies, Reconcile
<1>. QED
  BY <1>1, <1>2, <1>3, <1>5, <1>6, <1>7, <1>8, <1>9 DEF Next, DeliverStep, ReconcileStep

\* The service implements the promise: whatever times out, dies or runs
\* twice, a specialist is told nothing else than DraftPromise allows.
THEOREM KeepsPromiseHolds == Spec => KeepsPromise
<1>1. Init => Promise!Init
  BY PromiseInit
<1>2. Inv /\ [Next]_vars => [Promise!Next]_Promise!promise
  BY PromiseNext
<1>. QED
  BY <1>1, <1>2, DeliveryInvariance, PTL DEF Spec, KeepsPromise, Promise!Spec
=============================================================================
