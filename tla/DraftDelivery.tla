---------------------------- MODULE DraftDelivery ----------------------------
(***************************************************************************)
(* Writing an approved response back to the connected inbox as a draft     *)
(* (services/inbox/draft_delivery.py, persistence/inbox/drafts.py,         *)
(* integrations/gmail/drafts.py, integrations/deterministic_inbox.py).     *)
(*                                                                         *)
(* Deliver commits a running row, calls the provider outside any           *)
(* transaction and stores the answer in a second one; reconcile reads the  *)
(* row, looks the draft up and stores what it found.  Every transaction    *)
(* is one step.  Two first deliveries of one version insert the same key:  *)
(* the loser's unique violation is a refusal, and so has no step.          *)
(***************************************************************************)
EXTENDS Naturals, FiniteSets

CONSTANTS
  Deliverers,    \* deliver commands that may be inside the server at once
  Reconcilers,   \* reconcile commands that may be inside the server at once
  Nobody,        \* no lease owner
  Gateways,      \* bound: the adapters considered
  Texts,         \* the contents a response draft may have
  MaxVersion,    \* bound: versions of the response draft
  MaxAttempts    \* bound: delivery attempts of one version

ASSUME NobodyAssumption == Nobody \notin Deliverers
ASSUME GatewaysAssumption == Gateways \subseteq {"gmail", "deterministic"}
ASSUME MaxVersionAssumption == MaxVersion \in Nat \ {0}
ASSUME MaxAttemptsAssumption == MaxAttempts \in Nat \ {0}

VARIABLES
  gateway,    \* fixed: the adapter of the case's connection
  version,    \* ResponseDraftModel.version
  ready,      \* ResponseDraftModel.status = "ready"
  fresh,      \* the latest approved review still matches the case
  text,       \* fixed: the content of each version, as its hash sees it
  status,     \* InboxDraftDeliveryModel.status of each version's row
  owner,      \* .lease_owner
  expired,    \* .lease_expires_at has passed
  receipt,    \* the version whose provider draft .provider_draft_id names
  attempts,   \* .attempt_count
  step,       \* where each deliver command is
  target,     \* the version it delivers, 0 if none
  check,      \* where each reconcile command is
  subject,    \* the version it reconciles, 0 if none
  seen,       \* the version whose draft its lookup found, 0 if none
  wire,       \* the version of a command's create request Gmail has yet to
              \* handle, 0 if none
  made,       \* provider drafts made for each version's key
  present     \* versions whose provider draft is still in the mailbox

caseVars == <<version, ready, fresh>>
row == <<status, owner, expired, receipt, attempts>>
deliverVars == <<step, target>>
reconcileVars == <<check, subject, seen>>
mailbox == <<wire, made, present>>
fixed == <<gateway, text>>
vars == <<fixed, caseVars, row, deliverVars, reconcileVars, mailbox>>

Versions == 1 .. MaxVersion
DraftDeliveryStatus == {"ready", "running", "completed", "failed_safe",
                        "outcome_unknown", "recovery_required"}
RowStatus == (DraftDeliveryStatus \ {"ready"}) \union {"no_row"}
Uncertain == {"outcome_unknown", "recovery_required"}
Lookup == {"found", "terminal_absence", "inconclusive"}

FlagsOK ==
  /\ ready \in BOOLEAN /\ fresh \in BOOLEAN
  /\ expired \in [Versions -> BOOLEAN]

TypeOK ==
  /\ FlagsOK
  /\ gateway \in {"gmail", "deterministic"}
  /\ version \in Versions \union {0}
  /\ text \in [Versions -> Texts]
  /\ status \in [Versions -> RowStatus]
  /\ owner \in [Versions -> Deliverers \union {Nobody}]
  /\ receipt \in [Versions -> Versions \union {0}]
  /\ attempts \in [Versions -> 0 .. MaxAttempts]
  /\ step \in [Deliverers ->
        {"idle", "started", "calling", "created", "denied", "unanswered"}]
  /\ target \in [Deliverers -> Versions \union {0}]
  /\ check \in [Reconcilers -> Lookup \union {"idle", "loaded"}]
  /\ subject \in [Reconcilers -> Versions \union {0}]
  /\ seen \in [Reconcilers -> Versions \union {0}]
  /\ wire \in [Deliverers -> Versions \union {0}]
  /\ made \in [Versions -> Nat]
  /\ present \subseteq Versions

Init ==
  /\ gateway \in Gateways
  /\ text \in [Versions -> Texts]
  /\ version = 0 /\ ready = FALSE /\ fresh = FALSE
  /\ status = [k \in Versions |-> "no_row"]
  /\ owner = [k \in Versions |-> Nobody]
  /\ expired = [k \in Versions |-> FALSE]
  /\ receipt = [k \in Versions |-> 0]
  /\ attempts = [k \in Versions |-> 0]
  /\ step = [w \in Deliverers |-> "idle"]
  /\ target = [w \in Deliverers |-> 0]
  /\ check = [r \in Reconcilers |-> "idle"]
  /\ subject = [r \in Reconcilers |-> 0]
  /\ seen = [r \in Reconcilers |-> 0]
  /\ wire = [w \in Deliverers |-> 0]
  /\ made = [k \in Versions |-> 0]
  /\ present = {}

-----------------------------------------------------------------------------
(* The case around the delivery *)

\* save_draft: the edited text is no longer the approved one.
SaveDraft ==
  /\ version < MaxVersion
  /\ version' = version + 1
  /\ ready' = FALSE
  /\ UNCHANGED <<fixed, fresh, row, deliverVars, reconcileVars, mailbox>>

\* Approving a review publishes the reviewed text as the ready version.
ApproveReview ==
  /\ version < MaxVersion
  /\ version' = version + 1
  /\ ready' = TRUE
  /\ fresh' = TRUE
  /\ UNCHANGED <<fixed, row, deliverVars, reconcileVars, mailbox>>

\* append_message or any other change of the case moves its version.
CaseChanges ==
  /\ fresh
  /\ fresh' = FALSE
  /\ UNCHANGED <<fixed, version, ready, row, deliverVars, reconcileVars, mailbox>>

\* The mailbox owner sends or deletes a draft.
OwnerTakesDraft(k) ==
  /\ gateway = "gmail"
  /\ k \in present
  /\ present' = present \ {k}
  /\ UNCHANGED <<fixed, caseVars, row, deliverVars, reconcileVars, wire, made>>

-----------------------------------------------------------------------------
(* deliver *)

\* Mutant of Startable: an uncertain delivery is started again.
StartableWhenUnknown(k) ==
  status[k] \in {"no_row", "failed_safe", "outcome_unknown"}

\* current: the case's draft is at the version asked for and ready.
DraftIsReady == ready

\* current_approval: the latest approved review still matches the case.
ApprovalStands == fresh

\* prepare: the row of the version's key, added now or found as it is.
Prepared(k) == IF status[k] = "no_row" THEN "ready" ELSE status[k]

\* start: a row just prepared, or one that failed safely.
Startable(k) == Prepared(k) \in {"ready", "failed_safe"}

\* current, current_approval, reply_context, prepare and start in one
\* transaction.  A completed delivery is returned as it is.
Deliver(w) ==
  /\ step[w] = "idle"
  /\ wire[w] = 0
  /\ DraftIsReady /\ ApprovalStands
  /\ Startable(version)
  /\ attempts[version] < MaxAttempts
  /\ status' = [status EXCEPT ![version] = "running"]
  /\ attempts' = [attempts EXCEPT ![version] = @ + 1]
  /\ owner' = [owner EXCEPT ![version] = w]
  /\ expired' = [expired EXCEPT ![version] = FALSE]
  /\ step' = [step EXCEPT ![w] = "started"]
  /\ target' = [target EXCEPT ![w] = version]
  /\ UNCHANGED <<fixed, caseVars, receipt, reconcileVars, mailbox>>

\* The access token cannot be refreshed.
AccessFails(w) ==
  /\ step[w] = "started"
  /\ step' = [step EXCEPT ![w] = "denied"]
  /\ UNCHANGED <<fixed, caseVars, row, target, reconcileVars, mailbox>>

\* The deterministic adapter answers at once and keeps one draft per key.
KeepOneDraft(w) ==
  /\ made' = [made EXCEPT ![target[w]] = 1]
  /\ present' = present \union {target[w]}
  /\ step' = [step EXCEPT ![w] = "created"]
  /\ UNCHANGED wire

\* Gmail has no such key: the request is transmitted and answered later.
TransmitDraft(w) ==
  /\ wire' = [wire EXCEPT ![w] = target[w]]
  /\ step' = [step EXCEPT ![w] = "calling"]
  /\ UNCHANGED <<made, present>>

\* create_reply_draft of the case's adapter
CreateReplyDraft(w) ==
  /\ step[w] = "started"
  /\ \/ gateway = "deterministic" /\ KeepOneDraft(w)
     \/ gateway = "gmail" /\ TransmitDraft(w)
  /\ UNCHANGED <<fixed, caseVars, row, target, reconcileVars>>

\* Gmail makes the draft; the answer reaches the caller if it still waits
\* and nothing is lost on the way back.
GmailCreates(w) ==
  /\ wire[w] # 0
  /\ wire' = [wire EXCEPT ![w] = 0]
  /\ made' = [made EXCEPT ![wire[w]] = @ + 1]
  /\ present' = present \union {wire[w]}
  /\ \/ step' = [step EXCEPT ![w] = IF @ = "calling" THEN "created" ELSE @]
     \/ UNCHANGED step
  /\ UNCHANGED <<fixed, caseVars, row, target, reconcileVars>>

\* Gmail refuses the request, or it never arrives.
GmailRefuses(w) ==
  /\ wire[w] # 0
  /\ wire' = [wire EXCEPT ![w] = 0]
  /\ UNCHANGED <<fixed, caseVars, row, deliverVars, reconcileVars, made, present>>

\* A timeout or an error status: the draft may or may not exist, and the
\* request may still be under way.
NoAnswer(w) ==
  /\ step[w] = "calling"
  /\ step' = [step EXCEPT ![w] = "unanswered"]
  /\ UNCHANGED <<fixed, caseVars, row, target, reconcileVars, mailbox>>

\* The command ends; a request it transmitted stays on its way.
Leave(w) ==
  /\ step' = [step EXCEPT ![w] = "idle"]
  /\ target' = [target EXCEPT ![w] = 0]

\* The process dies, or an error deliver does not catch (the inbox was
\* disconnected meanwhile and its credential deleted) ends the command.
CommandDies(w) ==
  /\ step[w] # "idle"
  /\ Leave(w)
  /\ UNCHANGED <<fixed, caseVars, row, reconcileVars, mailbox>>

\* _require_transition_owner for a worker; the expiry is not looked at.
OwnsDelivery(w, k) == status[k] = "running" /\ owner[k] = w

\* record_failure or complete releases the lease.
Settle(k, outcome, draft) ==
  /\ status' = [status EXCEPT ![k] = outcome]
  /\ receipt' = [receipt EXCEPT ![k] = draft]
  /\ owner' = [owner EXCEPT ![k] = Nobody]
  /\ expired' = [expired EXCEPT ![k] = FALSE]
  /\ UNCHANGED attempts

\* Mutant of OutcomeOf: no answer is taken for no draft.
SilenceIsFailure(s) ==
  [created |-> "completed", denied |-> "failed_safe", unanswered |-> "failed_safe"][s]

OutcomeOf(s) ==
  [created |-> "completed", denied |-> "failed_safe",
   unanswered |-> "outcome_unknown"][s]

\* The second transaction of deliver; an owner conflict changes nothing.
Report(w) ==
  /\ step[w] \in {"created", "denied", "unanswered"}
  /\ LET k == target[w] IN
       IF OwnsDelivery(w, k)
         THEN Settle(k, OutcomeOf(step[w]), IF step[w] = "created" THEN k ELSE 0)
         ELSE UNCHANGED row
  /\ Leave(w)
  /\ UNCHANGED <<fixed, caseVars, reconcileVars, mailbox>>

\* Sixty seconds pass.
LeaseExpires(k) ==
  /\ status[k] = "running"
  /\ ~expired[k]
  /\ expired' = [expired EXCEPT ![k] = TRUE]
  /\ UNCHANGED <<fixed, caseVars, status, owner, receipt, attempts, deliverVars,
                 reconcileVars, mailbox>>

-----------------------------------------------------------------------------
(* reconcile *)

\* The check of reconcile on the row it read, and of
\* _require_transition_owner without a worker on the locked row.
Reconcilable(k) == status[k] \in Uncertain \/ (status[k] = "running" /\ expired[k])

Reconcile(r, k) ==
  /\ check[r] = "idle"
  /\ Reconcilable(k)
  /\ check' = [check EXCEPT ![r] = "loaded"]
  /\ subject' = [subject EXCEPT ![r] = k]
  /\ UNCHANGED <<fixed, caseVars, row, deliverVars, seen, mailbox>>

\* _matching_receipt: the correlation header, or else the content.  Drafts of
\* other versions with the same text match too (those of earlier versions
\* when they are at most a minute older than the delivery).
Matches(k) == {j \in present : text[j] = text[k]}

\* find_draft of Gmail: the newest candidates the mailbox still shows; one
\* match is found, several are ambiguous and none proves nothing.
FindGmailDraft(r) ==
  \E shown \in SUBSET Matches(subject[r]) :
    IF Cardinality(shown) = 1
      THEN /\ check' = [check EXCEPT ![r] = "found"]
           /\ seen' = [seen EXCEPT ![r] = CHOOSE j \in shown : TRUE]
      ELSE /\ check' = [check EXCEPT ![r] = "inconclusive"]
           /\ UNCHANGED seen

\* find_draft of the deterministic adapter: absence is final.
FindDeterministicDraft(r) ==
  IF made[subject[r]] > 0
    THEN /\ check' = [check EXCEPT ![r] = "found"]
         /\ seen' = [seen EXCEPT ![r] = subject[r]]
    ELSE /\ check' = [check EXCEPT ![r] = "terminal_absence"]
         /\ UNCHANGED seen

FindDraft(r) ==
  /\ check[r] = "loaded"
  /\ \/ gateway = "gmail" /\ FindGmailDraft(r)
     \/ gateway = "deterministic" /\ FindDeterministicDraft(r)
  /\ UNCHANGED <<fixed, caseVars, row, deliverVars, subject, mailbox>>

\* No access token, or the provider is unavailable.
LookupFails(r) ==
  /\ check[r] = "loaded"
  /\ check' = [check EXCEPT ![r] = "inconclusive"]
  /\ UNCHANGED <<fixed, caseVars, row, deliverVars, subject, seen, mailbox>>

EndCheck(r) ==
  /\ check' = [check EXCEPT ![r] = "idle"]
  /\ subject' = [subject EXCEPT ![r] = 0]
  /\ seen' = [seen EXCEPT ![r] = 0]

\* The process dies, or the inbox was disconnected and the error escapes.
ReconcileDies(r) ==
  /\ check[r] # "idle"
  /\ EndCheck(r)
  /\ UNCHANGED <<fixed, caseVars, row, deliverVars, mailbox>>

\* Mutant of Transferable: a late reconciliation overwrites a safe failure or
\* a new attempt.
TransferableUnlessCompleted(k) == status[k] # "completed"

\* _require_transition_owner without a worker.
Transferable(k) == Reconcilable(k)

\* The last transaction of reconcile: complete or record_failure, which
\* check the row again.
SettleCheck(r) ==
  /\ check[r] \in Lookup
  /\ LET k == subject[r] IN
       IF Transferable(k)
         THEN Settle(k,
                     [found |-> "completed", terminal_absence |-> "failed_safe",
                      inconclusive |-> "recovery_required"][check[r]],
                     IF check[r] = "found" THEN seen[r] ELSE 0)
         ELSE UNCHANGED row
  /\ EndCheck(r)
  /\ UNCHANGED <<fixed, caseVars, deliverVars, mailbox>>

-----------------------------------------------------------------------------
DeliverStep(w) ==
  \/ Deliver(w) \/ AccessFails(w) \/ CreateReplyDraft(w) \/ GmailCreates(w)
  \/ GmailRefuses(w) \/ NoAnswer(w) \/ CommandDies(w) \/ Report(w)

ReconcileStep(r) ==
  \/ FindDraft(r) \/ LookupFails(r) \/ ReconcileDies(r) \/ SettleCheck(r)
  \/ \E k \in Versions : Reconcile(r, k)

Next ==
  \/ SaveDraft \/ ApproveReview \/ CaseChanges
  \/ \E k \in Versions : OwnerTakesDraft(k) \/ LeaseExpires(k)
  \/ \E w \in Deliverers : DeliverStep(w)
  \/ \E r \in Reconcilers : ReconcileStep(r)

Spec == Init /\ [][Next]_vars

-----------------------------------------------------------------------------
(* Properties *)

\* The Gmail requests for k that may still make a draft: transmitted, or
\* about to be by a command past its start transaction.
Outstanding(k) ==
  {w \in Deliverers : wire[w] = k \/ (target[w] = k /\ step[w] = "started")}

\* At most one provider draft is ever made for one authorized version, and
\* while one is made no further request for it is possible: neither crashes,
\* expired leases, late answers nor overlapping reconciliations lead deliver
\* to a second create_reply_draft ("concurrent draft commands produce one
\* delivery").
AtMostOneDraft ==
  \A k \in Versions :
    /\ made[k] <= 1
    /\ gateway = "gmail" => made[k] + Cardinality(Outstanding(k)) <= 1

\* A Gmail delivery that says failed_safe, the one status that permits a
\* retry, has made no draft and has none under way ("A timeout after request
\* transmission is never classified as failed_safe").
FailedSafeMeansNone ==
  \A k \in Versions :
    status[k] = "failed_safe" /\ gateway = "gmail"
      => made[k] = 0 /\ Outstanding(k) = {}

\* A completed delivery names a draft the provider really made, with the
\* approved text.
CompletedNamesDraft ==
  \A k \in Versions :
    status[k] = "completed"
      => /\ receipt[k] # 0
         /\ made[receipt[k]] = 1
         /\ text[receipt[k]] = text[k]

\* What a delivery says is true: failed safe or completed, it rests on what
\* the provider did and will do.
OutcomeIsTrue == TypeOK /\ FailedSafeMeansNone /\ CompletedNamesDraft

\* The service implements the promise.
Told(k) ==
  CASE status[k] = "no_row" -> "nothing"
    [] status[k] = "failed_safe" -> "failed safe"
    [] status[k] = "completed" -> "completed"
    [] OTHER -> "uncertain"

Promise == INSTANCE DraftPromise WITH
  told <- [k \in Versions |-> Told(k)],
  idempotent <- (gateway = "deterministic")

\* Every step of deliver, reconcile, Gmail or a crash is a step of the
\* promise or none.
KeepsPromise == Promise!Spec
=============================================================================
