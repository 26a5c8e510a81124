---------------------------- MODULE DecisionEngine ----------------------------
(***************************************************************************)
(* How a decision brief comes about: the deterministic analysis            *)
(* (analysis/deterministic_decision_engine.py), the model that may word it *)
(* anew (ai_assisted_decision_engine.py), the graph that verifies its      *)
(* checkpoints (orchestrators/langgraph_orchestrator.py), and who may      *)
(* approve what it says (security/review_authority.py).                    *)
(* Wording is left out; a fingerprint is the value it is taken of.         *)
(***************************************************************************)
EXTENDS Integers, Sequences, FiniteSets

VARIABLES
  input,     \* the workspace and the policy evidence the analysis is given
  analysis,  \* the DecisionAnalysis so far
  phase      \* "idle", "given", "analysed", "worded", "verified" or "refused"

engineVars == <<input, analysis, phase>>

Categories == {"billing_dispute", "refund_request", "account_access", "service_exception"}

\* EvidenceRetrievalStatus
PolicyStatuses == {"relevant", "missing", "inapplicable", "stale", "conflicting"}

\* Business records that tell a category's checks apart.
RecordsOf(category) ==
  {"other"} \union
  CASE category = "billing_dispute" -> {"settled payment A", "settled payment B"}
    [] category = "refund_request" -> {"unused order not started"}
    [] category = "account_access" -> {"verified account", "ownership mismatch"}
    [] category = "service_exception" -> {"failed service"}

\* Impact: no amount, below its currency's limit, at or above it, or in a
\* currency without one.
Impacts == {"none", "below limit", "at limit", "no limit"}

\* The customer's tier and the case's risk: standard and low; a high risk or a
\* VIP or enterprise customer; or in between.
Profiles == {"plain", "elevated", "sensitive"}

Inputs ==
  UNION {[category : {c}, records : SUBSET RecordsOf(c), current : BOOLEAN, more : BOOLEAN,
          impact : Impacts, profile : Profiles, policy : PolicyStatuses] : c \in Categories}

NoInput == <<>>
NoAnalysis == <<>>

EngineInit == input = NoInput /\ analysis = NoAnalysis /\ phase = "idle"

\* prepare_generation hands over a snapshot of the case and its evidence.
PrepareInput ==
  /\ phase = "idle"
  /\ input' \in Inputs
  /\ phase' = "given"
  /\ UNCHANGED analysis

-----------------------------------------------------------------------------
(* The deterministic analysis *)

\* Mutant of SettledPayments: one reference is enough.
OnePayment(w) == Cardinality(w.records \intersect {"settled payment A", "settled payment B"}) >= 1

SettledPayments(w) == Cardinality(w.records \intersect {"settled payment A", "settled payment B"}) >= 2

\* _has_conflicting_ownership_evidence
ConflictingOwnership(w) == "ownership mismatch" \in w.records

CategoryGaps(w) ==
  CASE w.category = "billing_dispute" -> IF SettledPayments(w) THEN {} ELSE {"second-payment-reference"}
    [] w.category = "refund_request" ->
         IF "unused order not started" \in w.records THEN {} ELSE {"delivery-status"}
    [] w.category = "account_access" ->
         IF ConflictingOwnership(w) THEN {"identity-verification-conflict"}
         ELSE IF "verified account" \in w.records THEN {} ELSE {"identity-verification"}
    [] w.category = "service_exception" ->
         IF "failed service" \in w.records THEN {} ELSE {"service-outcome"}

\* _information_gaps; every gap blocks.
InformationGaps(w) ==
  {g \in {"complete-business-context"} : w.more}
  \union {g \in {"applicable-policy"} : w.policy # "relevant"}
  \union {g \in {"current-source-context"} : ~w.current}
  \union CategoryGaps(w)

\* _risk_checks
RiskChecks(w, gaps) ==
  [policy |-> IF w.policy = "relevant" THEN "passed" ELSE "blocked",
   freshness |-> IF w.current THEN "passed" ELSE "information_needed",
   completeness |-> IF gaps = {} THEN "passed" ELSE "information_needed",
   authority |-> IF w.impact # "none" \/ w.profile = "sensitive" \/ w.category = "account_access"
                   THEN "requires_review" ELSE "passed"]

StateOf(w, gaps) ==
  IF w.policy # "relevant" \/ gaps # {} THEN "information_needed" ELSE "ready_for_review"

Confidence(w, gaps) ==
  IF w.policy # "relevant" \/ gaps # {} THEN "low"
  ELSE IF w.profile = "plain" THEN "high" ELSE "medium"

\* _actions: only the action of a ready brief needs a review.
ActionOf(w, state) ==
  IF state = "information_needed" THEN "request_information"
  ELSE CASE w.category = "billing_dispute" -> "reverse_duplicate_charge"
         [] w.category = "refund_request" -> "issue_refund"
         [] w.category = "account_access" -> "start_verified_recovery"
         [] w.category = "service_exception" -> "apply_service_correction"

\* The impact that goes with a financial category's ready brief.
ImpactOf(w, state) ==
  IF state = "ready_for_review" /\ w.category \in {"billing_dispute", "refund_request"}
    THEN w.impact ELSE "none"

\* _checkpoints: each takes the fingerprint of the one before it.
Checkpoint(sequence, from, to) == [sequence |-> sequence, input |-> from, output |-> to]

Checkpoints(w, gaps, state) ==
  LET steps == <<"case_context", "policy_evidence", "risk_evaluation", "decision_brief">>
      outputs == [i \in 1..4 |-> <<steps[i], w.policy, gaps, state>>]
  IN [i \in 1..4 |-> Checkpoint(i, IF i = 1 THEN "input" ELSE outputs[i - 1], outputs[i])]

\* draft_customer_response: what may go to the customer.
ResponseOf(state) == IF state = "information_needed" THEN "blocked" ELSE "ready"

\* DeterministicDecisionEngine.analyze
Analysis(w) ==
  LET gaps == InformationGaps(w)
      state == StateOf(w, gaps)
  IN [status |-> IF w.policy = "relevant" THEN "completed" ELSE "abstained",
      policy |-> w.policy, gaps |-> gaps, risks |-> RiskChecks(w, gaps), state |-> state,
      confidence |-> Confidence(w, gaps), action |-> ActionOf(w, state), impact |-> ImpactOf(w, state),
      response |-> ResponseOf(state),
      wording |-> "governed", checkpoints |-> Checkpoints(w, gaps, state)]

Analyze ==
  /\ phase = "given"
  /\ analysis' = Analysis(input)
  /\ phase' = "analysed"
  /\ UNCHANGED input

-----------------------------------------------------------------------------
(* Wording by a model *)

\* _ai_checkpoint
AiCheckpoint(a, output) ==
  Checkpoint(Len(a.checkpoints) + 1, a.checkpoints[Len(a.checkpoints)].output, output)

\* What the model writes: as asked, claiming that an action is done
\* (action_claim_safety.py), or missing the governed next step
\* (customer_response_safety.py); "error" when it does not answer.
Narratives == {"aligned", "claims completion", "misaligned", "error"}

Worded(a, narrative) ==
  [a EXCEPT !.wording = narrative, !.checkpoints = Append(@, AiCheckpoint(a, <<"ai_narrative", narrative>>))]

\* _fallback
Retained(a, suffix) ==
  [a EXCEPT !.checkpoints = Append(@, AiCheckpoint(a, <<"ai_narrative", suffix>>))]

\* contains_completed_action_claim and customer_response_is_aligned
Kept(narrative) == narrative \notin {"claims completion", "misaligned", "error"}

\* An analysis that abstained is not worded at all.
Refine(narrative) ==
  /\ phase = "analysed"
  /\ analysis' = IF analysis.status = "completed" /\ Kept(narrative)
                   THEN Worded(analysis, narrative) ELSE Retained(analysis, narrative)
  /\ phase' = "worded"
  /\ UNCHANGED input

-----------------------------------------------------------------------------
(* The graph *)

\* _verify_checkpoint_chain
ChainHolds(a) ==
  \A i \in 1..Len(a.checkpoints) :
    /\ a.checkpoints[i].sequence = i
    /\ a.checkpoints[i].input = IF i = 1 THEN "input" ELSE a.checkpoints[i - 1].output

\* Also without a model configured.
VerifyCheckpointChain ==
  /\ phase \in {"analysed", "worded"}
  /\ phase' = IF ChainHolds(analysis) THEN "verified" ELSE "refused"
  /\ UNCHANGED <<input, analysis>>

EngineNext == PrepareInput \/ Analyze \/ (\E n \in Narratives : Refine(n)) \/ VerifyCheckpointChain

-----------------------------------------------------------------------------
(* Who may approve *)

Roles == {"specialist", "auditor", "supervisor", "administrator"}

\* role_satisfies
RoleSatisfies(role, required) ==
  role = "administrator" \/ (role = "supervisor" /\ required = "supervisor")

\* _financial_admin_required
FinancialAdminRequired(a) == a.impact \in {"at limit", "no limit"}

\* assess_review_rule; no check of the engine speaks of privacy or compliance.
RequiredRole(a) ==
  IF a.policy = "conflicting" \/ FinancialAdminRequired(a) THEN "administrator" ELSE "supervisor"

\* approval_is_safe
ApprovalIsSafe(a) ==
  /\ a.policy = "relevant" /\ a.state = "ready_for_review" /\ a.response # "blocked"
  /\ \A r \in DOMAIN a.risks : a.risks[r] \in {"passed", "requires_review"}

AllowedDecisions(a, role) ==
  IF ~RoleSatisfies(role, RequiredRole(a)) THEN {}
  ELSE {"request_changes", "reject", "escalate"} \union {d \in {"approve"} : ApprovalIsSafe(a)}

-----------------------------------------------------------------------------
(* Properties *)

\* What the documented rules ask of a case before its outcome may be approved.
Proven(w) ==
  CASE w.category = "billing_dispute" -> {"settled payment A", "settled payment B"} \subseteq w.records
    [] w.category = "refund_request" -> "unused order not started" \in w.records
    [] w.category = "account_access" -> "verified account" \in w.records /\ "ownership mismatch" \notin w.records
    [] w.category = "service_exception" -> "failed service" \in w.records

\* Whatever the analysis is given and however a model words it, the graph
\* finds the checkpoints unbroken, a claim that something is done already is
\* not kept, and an approval is offered exactly to those who may give it, for
\* a case whose records prove its outcome under current policy; a money amount
\* at its limit or in a currency without one is left to an administrator.
ApprovalIsEarned ==
  /\ phase # "refused"
  /\ phase = "verified" =>
       /\ analysis.wording \in {"governed", "aligned"}
       /\ \A role \in Roles :
            "approve" \in AllowedDecisions(analysis, role) <=>
              /\ input.policy = "relevant" /\ input.current /\ ~input.more /\ Proven(input)
              /\ \/ role = "administrator"
                 \/ /\ role = "supervisor"
                    /\ input.category \in {"billing_dispute", "refund_request"} =>
                         input.impact \in {"none", "below limit"}

=============================================================================
