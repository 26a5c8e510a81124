------------------------- MODULE CaseReviewsProofs -------------------------
(***************************************************************************)
(* Proofs about CaseReviews, for any number of members, proposal versions, *)
(* holds and case versions.                                                *)
(***************************************************************************)
EXTENDS CaseReviews, TLAPS

\* What the checks before a reservation and before a submission found stays so:
\* the review exists, and the brief is one of the version of the case seen.
ChecksStand ==
  \A m \in Members, v \in Proposals :
    /\ txn[m].step = "reserving" /\ txn[m].review = v => Exists(v)
    /\ txn[m].step = "submitting" /\ txn[m].review = v
         => v <= proposal.current /\ txn[m].case = brief[v].case

\* What every step preserves: the properties that hold whatever the inbox
\* imports.
Inv ==
  /\ TypeOK
  /\ HoldMatchesStatus
  /\ DecidedOnce
  /\ ProposalShowsReview
  /\ LoadedRowStands
  /\ ChecksStand

USE NoMemberAssumption, BoundsAssumption DEF Proposals

-----------------------------------------------------------------------------
(* Steps that touch neither the reviews nor the proposal *)

\* The part of the state that Inv reads besides the transactions.
core == <<proposal, brief, review, hold, decisions, seen>>

\* A step that leaves the core alone and opens no review preserves Inv.
LEMMA CoreUnchanged ==
  ASSUME Inv, UNCHANGED core,
         case' \in [version : Nat, status : CaseStatus],
         messages' \in Nat, importing' \in Nat, rules' \in Nat, policy' \in Nat,
         reviewers' \subseteq Members,
         txn' \in [Members -> Transactions],
         \A m \in Members : txn'[m].step = "opened" => txn'[m] = txn[m],
         ChecksStand'
  PROVE  Inv'
<1>1. TypeOK'
  BY DEF Inv, TypeOK, core, Exists
<1>2. HoldMatchesStatus'
  BY DEF Inv, HoldMatchesStatus, core, Held
<1>3. DecidedOnce'
  BY DEF Inv, DecidedOnce, core
<1>4. ProposalShowsReview'
  BY DEF Inv, ProposalShowsReview, ShownState, core
<1>5. LoadedRowStands'
  BY DEF Inv, LoadedRowStands, core, Exists, HoldHasExpired, Held
<1>. QED BY <1>1, <1>2, <1>3, <1>4, <1>5 DEF Inv

\* The checks stand after a step that removes no review, replaces no brief and
\* begins no reservation and no submission.
LEMMA ChecksSurvive ==
  ASSUME Inv,
         \A v \in Proposals : Exists(v) => Exists(v)',
         proposal'.current >= proposal.current, proposal'.current \in Nat,
         \A v \in Proposals : v <= proposal.current => brief'[v] = brief[v],
         \A m \in Members : txn'[m].step \in {"reserving", "submitting"}
                             => txn'[m] = txn[m]
  PROVE  ChecksStand'
<1>. proposal.current \in Nat
  BY DEF Inv, TypeOK
<1>. QED BY DEF Inv, ChecksStand

\* Brief generation up to its writes, a refusal, and the checks before a
\* reservation only move the member's transaction on.
LEMMA TransactionSteps ==
  ASSUME Inv, NEW m \in Members,
         \/ PrepareGeneration(m) \/ PersistChecks(m) \/ GiveUp(m)
         \/ \E v \in Proposals : BeginReserve(m, v) \/ BeginSubmit(m, v)
  PROVE  Inv'
<1>. USE DEF inboxVars, reviewVars, authority
<1>1. /\ UNCHANGED <<case, messages, importing, rules, policy, reviewers>>
      /\ UNCHANGED core
  BY DEF PrepareGeneration, PersistChecks, GiveUp, BeginReserve, BeginSubmit, core
<1>2. PICK t \in Transactions : txn' = [txn EXCEPT ![m] = t] /\ t.step # "opened"
  <2>1. CASE PrepareGeneration(m)
    <3>1. [step |-> "analysing", case |-> case.version, policy |-> policy]
            \in Transactions
      BY DEF Inv, TypeOK, Transactions
    <3>. QED BY <2>1, <3>1 DEF PrepareGeneration
  <2>2. CASE PersistChecks(m)
    <3>1. txn[m].case \in Nat /\ txn[m].policy \in Nat
      BY <2>2 DEF PersistChecks, Inv, TypeOK
    <3>2. [step |-> "writing", case |-> txn[m].case, policy |-> txn[m].policy,
           root |-> proposal.root] \in Transactions
      BY <3>1 DEF Inv, TypeOK, Transactions
    <3>. QED BY <2>2, <3>2 DEF PersistChecks, Inv, TypeOK
  <2>3. CASE GiveUp(m)
    <3>1. Idle \in Transactions /\ Idle.step # "opened"
      BY DEF Idle, Transactions
    <3>. QED BY <2>3, <3>1 DEF GiveUp
  <2>4. ASSUME NEW v \in Proposals, BeginReserve(m, v)
        PROVE  \E t \in Transactions :
                 txn' = [txn EXCEPT ![m] = t] /\ t.step # "opened"
    <3>1. [step |-> "reserving", review |-> v] \in Transactions
      BY DEF Transactions
    <3>. QED BY <2>4, <3>1 DEF BeginReserve
  <2>5. ASSUME NEW v \in Proposals, BeginSubmit(m, v)
        PROVE  \E t \in Transactions :
                 txn' = [txn EXCEPT ![m] = t] /\ t.step # "opened"
    <3>1. [step |-> "submitting", review |-> v, case |-> case.version,
           rules |-> rules] \in Transactions
      BY DEF Transactions, Inv, TypeOK
    <3>. QED BY <2>5, <3>1 DEF BeginSubmit
  <2>. QED BY <2>1, <2>2, <2>3, <2>4, <2>5
<1>3. txn' \in [Members -> Transactions]
  BY <1>2 DEF Inv, TypeOK
<1>4. \A n \in Members : txn'[n].step = "opened" => txn'[n] = txn[n]
  BY <1>2 DEF Inv, TypeOK
<1>5. /\ case' \in [version : Nat, status : CaseStatus]
      /\ messages' \in Nat /\ importing' \in Nat /\ rules' \in Nat /\ policy' \in Nat
      /\ reviewers' \subseteq Members
  BY <1>1 DEF Inv, TypeOK
<1>6. ChecksStand'
  <2>1. CASE \E v \in Proposals : BeginReserve(m, v)
    <3>1. PICK v \in Proposals : BeginReserve(m, v)
      BY <2>1
    <3>2. /\ Exists(v) /\ review' = review
          /\ txn' = [txn EXCEPT ![m] = [step |-> "reserving", review |-> v]]
      BY <3>1 DEF BeginReserve, Exists
    <3>. QED BY <1>1, <3>2 DEF Inv, TypeOK, ChecksStand, Exists, core
  <2>3. CASE \E v \in Proposals : BeginSubmit(m, v)
    <3>1. PICK v \in Proposals : BeginSubmit(m, v)
      BY <2>3
    <3>2. /\ proposal.current = v /\ brief[v].case = case.version
          /\ txn' = [txn EXCEPT ![m] = [step |-> "submitting", review |-> v,
                                        case |-> case.version, rules |-> rules]]
      BY <3>1 DEF BeginSubmit
    <3>. QED BY <1>1, <3>2 DEF Inv, TypeOK, ChecksStand, Exists, core
  <2>2. CASE PrepareGeneration(m) \/ PersistChecks(m) \/ GiveUp(m)
    <3>1. \A n \in Members : txn'[n].step \in {"reserving", "submitting"}
                              => txn'[n] = txn[n]
      BY <2>2 DEF PrepareGeneration, PersistChecks, GiveUp, Idle, Inv, TypeOK
    <3>. QED BY <1>1, <3>1, ChecksSurvive DEF core, Exists, Inv, TypeOK
  <2>. QED BY <2>1, <2>2, <2>3
<1>. QED BY <1>1, <1>3, <1>4, <1>5, <1>6, CoreUnchanged

\* Commands on the case, imports, settings, policies and roles.
LEMMA OutsideSteps ==
  ASSUME Inv,
         \/ CaseCommand \/ ImportReadsCase \/ ImportAppends \/ ChangeRules
         \/ ChangePolicy \/ \E m \in Members : DemoteReviewer(m)
  PROVE  Inv'
<1>. USE DEF inboxVars, reviewVars, authority
<1>1. UNCHANGED core /\ UNCHANGED txn
  BY DEF CaseCommand, ImportReadsCase, ImportAppends, ChangeRules, ChangePolicy,
         DemoteReviewer, core
<1>2. case' \in [version : Nat, status : CaseStatus]
  <2>1. CASE CaseCommand
    <3>1. \A s \in CaseStatus : CaseTransitions[s] \subseteq CaseStatus
      BY DEF CaseTransitions, CaseStatus
    <3>2. PICK s \in {case.status} \union CaseTransitions[case.status] :
            case' = [version |-> case.version + 1, status |-> s]
      BY <2>1 DEF CaseCommand
    <3>. QED BY <3>1, <3>2 DEF Inv, TypeOK
  <2>2. CASE ImportAppends
    BY <2>2 DEF ImportAppends, ImportedVersion, Inv, TypeOK
  <2>3. CASE ~CaseCommand /\ ~ImportAppends
    BY <2>3 DEF ImportReadsCase, ChangeRules, ChangePolicy, DemoteReviewer, Inv,
                TypeOK
  <2>. QED BY <2>1, <2>2, <2>3
<1>3. messages' \in Nat /\ importing' \in Nat
  BY DEF CaseCommand, ImportReadsCase, ImportAppends, ChangeRules, ChangePolicy,
         DemoteReviewer, Inv, TypeOK
<1>4. rules' \in Nat /\ policy' \in Nat /\ reviewers' \subseteq Members
  <2>1. rules' \in {rules, rules + 1} /\ policy' \in {policy, policy + 1}
    BY DEF CaseCommand, ImportReadsCase, ImportAppends, ChangeRules, ChangePolicy,
           DemoteReviewer
  <2>2. reviewers' \subseteq reviewers
    BY DEF CaseCommand, ImportReadsCase, ImportAppends, ChangeRules, ChangePolicy,
           DemoteReviewer
  <2>. QED BY <2>1, <2>2 DEF Inv, TypeOK
<1>5. ChecksStand'
  BY <1>1, ChecksSurvive DEF core, Exists, Inv, TypeOK
<1>. QED BY <1>1, <1>2, <1>3, <1>4, <1>5, CoreUnchanged DEF Inv, TypeOK

-----------------------------------------------------------------------------
(* Briefs and submissions *)

\* A new version of the proposal has no review yet, so it shows its brief.
LEMMA PersistWritesStep ==
  ASSUME Inv, NEW m \in Members, NEW state \in BriefState, PersistWrites(m, state)
  PROVE  Inv'
<1>. DEFINE n == proposal.current + 1
<1>1. /\ n \in Proposals
      /\ proposal' = [current |-> n, root |-> proposal.root + 1, state |-> state]
      /\ brief' = [brief EXCEPT ![n] =
           [case |-> txn[m].case, policy |-> txn[m].policy, state |-> state]]
      /\ txn' = [txn EXCEPT ![m] = Idle]
      /\ UNCHANGED <<case, messages, importing, review, hold, decisions, rules,
                     policy, reviewers, seen>>
  BY DEF PersistWrites, inboxVars, reviewVars, authority
<1>2. txn[m].case \in Nat /\ txn[m].policy \in Nat
  <2>1. txn[m] \in Transactions /\ txn[m].step = "writing"
    BY DEF PersistWrites, Inv, TypeOK
  <2>. QED BY <2>1 DEF Transactions
<1>3. TypeOK'
  <2>1. txn' \in [Members -> Transactions]
    <3>1. Idle \in Transactions
      BY DEF Idle, Transactions
    <3>. QED BY <1>1, <3>1 DEF Inv, TypeOK
  <2>2. brief' \in [Proposals -> Briefs]
    <3>1. [case |-> txn[m].case, policy |-> txn[m].policy, state |-> state] \in Briefs
      BY <1>2 DEF Briefs
    <3>. QED BY <1>1, <3>1 DEF Inv, TypeOK
  <2>3. proposal' \in [current : 0 .. MaxProposals, root : Nat, state : ProposalState]
    BY <1>1 DEF Inv, TypeOK, ProposalState
  <2>4. \A v \in Proposals : Exists(v)' => v <= proposal'.current
    BY <1>1 DEF Inv, TypeOK, Exists
  <2>. QED BY <1>1, <2>1, <2>2, <2>3, <2>4 DEF Inv, TypeOK
<1>4. ProposalShowsReview'
  <2>1. review[n].status = "none"
    BY <1>1 DEF Inv, TypeOK, Exists
  <2>2. brief'[n].state = state
    BY <1>1 DEF Inv, TypeOK
  <2>. QED BY <1>1, <2>1, <2>2 DEF ProposalShowsReview, ShownState
<1>5. HoldMatchesStatus'
  BY <1>1 DEF Inv, HoldMatchesStatus, Held
<1>6. DecidedOnce'
  BY <1>1 DEF Inv, DecidedOnce
<1>7. LoadedRowStands'
  <2>1. \A q \in Members : txn'[q].step = "opened" => txn'[q] = txn[q]
    BY <1>1 DEF Idle, Inv, TypeOK
  <2>. QED BY <1>1, <2>1 DEF Inv, LoadedRowStands, Exists, HoldHasExpired, Held
<1>8. ChecksStand'
  <2>1. \A q \in Members : txn'[q].step \in {"reserving", "submitting"}
                            => txn'[q] = txn[q]
    BY <1>1 DEF Idle, Inv, TypeOK
  <2>2. \A v \in Proposals : v <= proposal.current => brief'[v] = brief[v]
    BY <1>1 DEF Inv, TypeOK
  <2>3. proposal'.current = proposal.current + 1 /\ proposal.current \in Nat
    BY <1>1 DEF Inv, TypeOK
  <2>. QED BY <1>1, <2>1, <2>2, <2>3, ChecksSurvive DEF Exists
<1>. QED BY <1>3, <1>4, <1>5, <1>6, <1>7, <1>8 DEF Inv

\* The review that is submitted did not exist: nobody holds it, decided it or
\* has it loaded.
LEMMA SubmitStep ==
  ASSUME Inv, NEW m \in Members, NEW v \in Proposals, Submit(m, v)
  PROVE  Inv'
<1>. DEFINE new == [status |-> "pending", version |-> 1, case |-> case.version + 1,
                    rules |-> rules, submitter |-> m, messages |-> messages]
<1>1. /\ case' = [version |-> case.version + 1, status |-> "needs_review"]
      /\ review' = [review EXCEPT ![v] = new]
      /\ seen' = [seen EXCEPT ![m] = [review |-> v, version |-> 1]]
      /\ review[v].status = "none"
      /\ proposal.current = v
      /\ txn' = [txn EXCEPT ![m] = Idle]
      /\ UNCHANGED <<messages, importing, proposal, brief, hold, decisions, rules,
                     policy, reviewers>>
  BY DEF Submit, SubmittedCase, inboxVars, authority
<1>2. /\ review'[v] = new
      /\ \A w \in Proposals : w # v => review'[w] = review[w]
  BY <1>1 DEF Inv, TypeOK
<1>3. TypeOK'
  <2>1. review' \in [Proposals -> Reviews]
    <3>1. new \in Reviews
      BY DEF Inv, TypeOK, Reviews, ReviewStatus, OpenStatus
    <3>. QED BY <1>1, <3>1 DEF Inv, TypeOK
  <2>2. seen' \in [Members -> Screens]
    <3>1. [review |-> v, version |-> 1] \in Screens
      BY DEF Screens
    <3>. QED BY <1>1, <3>1 DEF Inv, TypeOK
  <2>3. case' \in [version : Nat, status : CaseStatus]
    BY <1>1 DEF Inv, TypeOK, CaseStatus
  <2>4. \A w \in Proposals : Exists(w)' => w <= proposal'.current
    BY <1>1, <1>2 DEF Inv, TypeOK, Exists
  <2>5. txn' \in [Members -> Transactions]
    <3>1. Idle \in Transactions
      BY DEF Idle, Transactions
    <3>. QED BY <1>1, <3>1 DEF Inv, TypeOK
  <2>. QED BY <1>1, <2>1, <2>2, <2>3, <2>4, <2>5 DEF Inv, TypeOK
<1>4. HoldMatchesStatus'
  BY <1>1, <1>2 DEF Inv, HoldMatchesStatus, Held
<1>5. DecidedOnce'
  <2>1. decisions[v] = {}
    BY <1>1 DEF Inv, DecidedOnce, TerminalStatus
  <2>. QED BY <1>1, <1>2, <2>1 DEF Inv, DecidedOnce, TerminalStatus
<1>6. ProposalShowsReview'
  BY <1>1, <1>2 DEF Inv, ProposalShowsReview, ShownState
<1>7. LoadedRowStands'
  <2>1. \A q \in Members : txn'[q].step = "opened" => txn'[q] = txn[q]
    BY <1>1 DEF Idle, Inv, TypeOK
  <2>. QED BY <1>1, <1>2, <2>1 DEF Inv, LoadedRowStands, Exists, HoldHasExpired, Held
<1>8. ChecksStand'
  <2>1. \A q \in Members : txn'[q].step \in {"reserving", "submitting"}
                            => txn'[q] = txn[q]
    BY <1>1 DEF Idle, Inv, TypeOK
  <2>2. proposal.current \in Nat /\ \A w \in Proposals : Exists(w) => Exists(w)'
    BY <1>1, <1>2 DEF Exists, Inv, TypeOK
  <2>. QED BY <1>1, <2>1, <2>2, ChecksSurvive
<1>. QED BY <1>3, <1>4, <1>5, <1>6, <1>7, <1>8 DEF Inv

-----------------------------------------------------------------------------
(* The review queue *)

\* A loaded row stands as long as every change of a review moves its version
\* and leaves no expired hold behind.
LEMMA RowsStand ==
  ASSUME Inv,
         \A q \in Members : txn'[q].step = "opened" => txn'[q] = txn[q],
         \A w \in Proposals :
           \/ review'[w] = review[w] /\ hold'[w] = hold[w]
           \/ /\ review'[w].status # "none"
              /\ review'[w].version = review[w].version + 1
              /\ hold'[w].expired = FALSE
  PROVE  LoadedRowStands'
<1>. SUFFICES ASSUME NEW q \in Members, NEW w \in Proposals,
                     txn'[q].step = "opened", txn'[q].review = w
              PROVE  /\ Exists(w)'
                     /\ txn'[q].version <= review'[w].version
                     /\ txn'[q].version = review'[w].version
                          => txn'[q].status = review'[w].status
                     /\ HoldHasExpired(w)' => txn'[q].version = review'[w].version
  BY DEF LoadedRowStands
<1>1. txn'[q] = txn[q]
  OBVIOUS
<1>2. /\ Exists(w)
      /\ txn[q].version <= review[w].version
      /\ txn[q].version = review[w].version => txn[q].status = review[w].status
      /\ HoldHasExpired(w) => txn[q].version = review[w].version
  BY <1>1 DEF Inv, LoadedRowStands
<1>3. txn[q].version \in Nat /\ review[w].version \in Nat
  <2>1. txn[q] \in Transactions /\ txn[q].step = "opened" /\ review[w] \in Reviews
    BY <1>1 DEF Inv, TypeOK
  <2>. QED BY <2>1 DEF Transactions, Reviews
<1>4. CASE review'[w] = review[w] /\ hold'[w] = hold[w]
  BY <1>1, <1>2, <1>4 DEF Exists, HoldHasExpired, Held
<1>5. CASE /\ review'[w].status # "none"
           /\ review'[w].version = review[w].version + 1
           /\ hold'[w].expired = FALSE
  BY <1>1, <1>2, <1>3, <1>5 DEF Exists, HoldHasExpired, Held
<1>. QED BY <1>4, <1>5

\* A detail read loads the review row as it stands.
LEMMA OpenReviewStep ==
  ASSUME Inv, NEW m \in Members, NEW v \in Proposals, OpenReview(m, v)
  PROVE  Inv'
<1>. DEFINE t == [step |-> "opened", review |-> v, status |-> review[v].status,
                  version |-> review[v].version]
<1>1. /\ txn' = [txn EXCEPT ![m] = t]
      /\ review[v].status # "none"
      /\ UNCHANGED <<case, messages, importing, proposal, brief, review, hold,
                     decisions, rules, policy, reviewers, seen>>
  BY DEF OpenReview, inboxVars, reviewVars, authority
<1>2. review[v] \in Reviews
  BY DEF Inv, TypeOK
<1>3. t \in Transactions
  BY <1>2 DEF Transactions, Reviews
<1>4. TypeOK'
  <2>1. txn' \in [Members -> Transactions]
    BY <1>1, <1>3 DEF Inv, TypeOK
  <2>. QED BY <1>1, <2>1 DEF Inv, TypeOK, Exists
<1>5. LoadedRowStands'
  <2>1. txn'[m] = t /\ \A q \in Members : q # m => txn'[q] = txn[q]
    BY <1>1 DEF Inv, TypeOK
  <2>2. review[v].version \in Nat
    BY <1>2 DEF Reviews
  <2>. QED BY <1>1, <2>1, <2>2 DEF Inv, LoadedRowStands, Exists, HoldHasExpired, Held
<1>6. HoldMatchesStatus' /\ DecidedOnce' /\ ProposalShowsReview'
  BY <1>1 DEF Inv, HoldMatchesStatus, DecidedOnce, ProposalShowsReview, ShownState,
              Held
<1>7. ChecksStand'
  <2>1. \A q \in Members : txn'[q].step \in {"reserving", "submitting"}
                            => txn'[q] = txn[q]
    BY <1>1 DEF Inv, TypeOK
  <2>. QED BY <1>1, <2>1, ChecksSurvive DEF Exists, Inv, TypeOK
<1>. QED BY <1>4, <1>5, <1>6, <1>7 DEF Inv

\* What a review of status s makes its proposal show.
Shows(s, v, state) ==
  /\ s \in {"none", "pending"} => state = brief[v].state
  /\ s \in {"reserved", "escalated"} => state = "under_review"
  /\ s = "approved" => state = "approved"
  /\ s = "changes_requested" => state = "information_needed"
  /\ s = "rejected" => state = "rejected"

\* One review moves on to status s, hold h and proposal state: its version is
\* counted up, its hold follows its status and the proposal shows the new
\* status if it is still the current version.
Moves(v, s, h, state) ==
  /\ Exists(v)
  /\ s \in ReviewStatus \ {"none"} /\ h \in Holds /\ state \in ProposalState
  /\ review' = [review EXCEPT ![v] = Moved(v, s, review[v].version + 1)]
  /\ hold' = [hold EXCEPT ![v] = h]
  /\ h.expired = FALSE
  /\ s = "reserved" <=> h.holder # NoMember
  /\ h.holder # NoMember => h.holder # review[v].submitter
  /\ proposal' = ProposalAfter(v, state)
  /\ Shows(s, v, state)
  /\ brief' = brief
  /\ txn' \in [Members -> Transactions]
  /\ \A q \in Members : txn'[q] = txn[q] \/ txn'[q] = Idle

\* What such a move preserves.
LEMMA ReviewMoves ==
  ASSUME Inv, NEW v \in Proposals, NEW s, NEW h, NEW state, Moves(v, s, h, state)
  PROVE  /\ review' \in [Proposals -> Reviews]
         /\ hold' \in [Proposals -> Holds]
         /\ proposal' \in [current : 0 .. MaxProposals, root : Nat,
                           state : ProposalState]
         /\ \A w \in Proposals : Exists(w)' => w <= proposal'.current
         /\ HoldMatchesStatus'
         /\ ProposalShowsReview'
         /\ LoadedRowStands'
         /\ ChecksStand'
         /\ \A w \in Proposals : w # v => review'[w] = review[w]
         /\ review'[v].status = s
         /\ review'[v].version = review[v].version + 1
         /\ review'[v].submitter = review[v].submitter
<1>. USE DEF Moves
<1>1. review[v] \in Reviews /\ review \in [Proposals -> Reviews]
  BY DEF Inv, TypeOK
<1>2. /\ review'[v].status = s
      /\ review'[v].version = review[v].version + 1
      /\ review'[v].submitter = review[v].submitter
      /\ \A w \in Proposals : w # v => review'[w] = review[w]
  BY <1>1 DEF Moved
<1>3. review' \in [Proposals -> Reviews]
  <2>1. Moved(v, s, review[v].version + 1) \in Reviews
    BY <1>1 DEF Reviews, Moved
  <2>. QED BY <1>1, <2>1
<1>4. /\ hold' \in [Proposals -> Holds]
      /\ hold'[v] = h
      /\ \A w \in Proposals : w # v => hold'[w] = hold[w]
  BY DEF Inv, TypeOK
<1>5. /\ proposal.current = v
           => proposal' = [current |-> v, root |-> proposal.root + 1, state |-> state]
      /\ proposal.current # v => proposal' = proposal
  BY DEF ProposalAfter
<1>6. proposal' \in [current : 0 .. MaxProposals, root : Nat, state : ProposalState]
  BY <1>5 DEF Inv, TypeOK
<1>7. proposal'.current = proposal.current
  BY <1>5
<1>8. \A w \in Proposals : Exists(w)' => w <= proposal'.current
  BY <1>2, <1>7 DEF Inv, TypeOK, Exists
<1>9. HoldMatchesStatus'
  BY <1>2, <1>4 DEF Inv, HoldMatchesStatus, Held
<1>10. ProposalShowsReview'
  <2>1. ASSUME NEW w \in Proposals, proposal'.current = w
        PROVE  proposal'.state = ShownState(w)'
    <3>1. CASE w = v
      <4>1. proposal'.state = state
        BY <1>5, <1>7, <2>1, <3>1
      <4>. QED BY <1>2, <3>1, <4>1
               DEF Shows, ShownState, ReviewStatus, OpenStatus, TerminalStatus
    <3>2. CASE w # v
      BY <1>2, <1>5, <1>7, <2>1, <3>2 DEF Inv, ProposalShowsReview, ShownState
    <3>. QED BY <3>1, <3>2
  <2>. QED BY <2>1 DEF ProposalShowsReview
<1>11. LoadedRowStands'
  <2>1. \A q \in Members : txn'[q].step = "opened" => txn'[q] = txn[q]
    BY DEF Idle
  <2>2. \A w \in Proposals :
          \/ review'[w] = review[w] /\ hold'[w] = hold[w]
          \/ /\ review'[w].status # "none"
             /\ review'[w].version = review[w].version + 1
             /\ hold'[w].expired = FALSE
    BY <1>2, <1>4
  <2>. QED BY <2>1, <2>2, RowsStand
<1>12. ChecksStand'
  <2>1. \A q \in Members : txn'[q].step \in {"reserving", "submitting"}
                            => txn'[q] = txn[q]
    BY DEF Idle
  <2>2. \A w \in Proposals : Exists(w) => Exists(w)'
    BY <1>2 DEF Exists
  <2>3. proposal.current \in Nat
    BY DEF Inv, TypeOK
  <2>. QED BY <1>7, <2>1, <2>2, <2>3, ChecksSurvive
<1>. QED BY <1>2, <1>3, <1>4, <1>6, <1>8, <1>9, <1>10, <1>11, <1>12

\* Nobody decided a review that is not final, so a move that is no decision
\* leaves it without one.
LEMMA OpenMoveKeepsDecisions ==
  ASSUME Inv, NEW v \in Proposals,
         review[v].status \notin TerminalStatus,
         review'[v].status \notin TerminalStatus,
         \A w \in Proposals : w # v => review'[w] = review[w],
         decisions' = decisions
  PROVE  DecidedOnce'
<1>1. decisions[v] = {}
  BY DEF Inv, DecidedOnce
<1>. QED BY <1>1 DEF Inv, DecidedOnce

\* A detail read that sweeps an expired hold writes back the row as it stands.
LEMMA GetReviewStep ==
  ASSUME Inv, NEW m \in Members, NEW v \in Proposals, GetReview(m, v)
  PROVE  Inv'
<1>1. /\ txn[m].step = "opened" /\ txn[m].review = v
      /\ txn' = [txn EXCEPT ![m] = Idle]
      /\ UNCHANGED <<case, messages, importing, brief, decisions, rules, policy,
                     reviewers>>
  BY DEF GetReview, inboxVars, authority
<1>2. /\ txn[m] \in Transactions /\ review[v] \in Reviews /\ brief[v] \in Briefs
      /\ hold[v] \in Holds
  BY DEF Inv, TypeOK
<1>3. /\ Exists(v) /\ txn[m].version <= review[v].version
      /\ txn[m].version = review[v].version => txn[m].status = review[v].status
      /\ HoldHasExpired(v) => txn[m].version = review[v].version
  BY <1>1 DEF Inv, LoadedRowStands
<1>4. txn' \in [Members -> Transactions]
  <2>1. Idle \in Transactions
    BY DEF Idle, Transactions
  <2>. QED BY <1>1, <2>1 DEF Inv, TypeOK
<1>5. \A q \in Members : txn'[q] = txn[q] \/ txn'[q] = Idle
  BY <1>1 DEF Inv, TypeOK
<1>6. txn[m].version \in Nat
  BY <1>1, <1>2 DEF Transactions
<1>7. CASE HoldHasExpired(v)
  <2>1. review[v].status = "reserved" /\ txn[m].status = "reserved"
    BY <1>3, <1>7 DEF Inv, HoldMatchesStatus, HoldHasExpired
  <2>2. /\ hold' = [hold EXCEPT ![v] = Free]
        /\ review' = [review EXCEPT ![v] = ReturnedToQueue(v, txn[m])]
        /\ proposal' = ProposalAfter(v, brief[v].state)
        /\ seen' = [seen EXCEPT ![m] = [review |-> v, version |-> review'[v].version]]
    BY <1>7, <2>1 DEF GetReview
  <2>3. review' = [review EXCEPT ![v] = Moved(v, "pending", review[v].version + 1)]
    BY <1>3, <1>7, <2>1, <2>2 DEF ReturnedToQueue
  <2>4. "pending" \in ReviewStatus \ {"none"} /\ Free \in Holds /\ Free.expired = FALSE
        /\ Free.holder = NoMember
    BY DEF ReviewStatus, OpenStatus, Free, Holds
  <2>5. brief[v].state \in ProposalState /\ Shows("pending", v, brief[v].state)
    BY <1>2 DEF Briefs, ProposalState, Shows
  <2>6. /\ review' \in [Proposals -> Reviews]
        /\ hold' \in [Proposals -> Holds]
        /\ proposal' \in [current : 0 .. MaxProposals, root : Nat,
                          state : ProposalState]
        /\ \A w \in Proposals : Exists(w)' => w <= proposal'.current
        /\ HoldMatchesStatus' /\ ProposalShowsReview' /\ LoadedRowStands'
        /\ ChecksStand'
        /\ \A w \in Proposals : w # v => review'[w] = review[w]
        /\ review'[v].status = "pending"
        /\ review'[v].version = review[v].version + 1
    <3>1. Moves(v, "pending", Free, brief[v].state)
      BY <1>1, <1>3, <1>4, <1>5, <2>2, <2>3, <2>4, <2>5 DEF Moves
    <3>. QED BY <3>1, ReviewMoves
  <2>7. DecidedOnce'
    BY <1>1, <2>1, <2>6, OpenMoveKeepsDecisions DEF TerminalStatus
  <2>8. seen' \in [Members -> Screens]
    <3>1. [review |-> v, version |-> review'[v].version] \in Screens
      BY <1>2, <2>6 DEF Screens, Reviews
    <3>. QED BY <2>2, <3>1 DEF Inv, TypeOK
  <2>9. TypeOK'
    BY <1>1, <1>4, <2>6, <2>8 DEF Inv, TypeOK
  <2>. QED BY <2>6, <2>7, <2>9 DEF Inv
<1>8. CASE ~HoldHasExpired(v)
  <2>1. /\ seen' = [seen EXCEPT ![m] = [review |-> v, version |-> txn[m].version]]
        /\ UNCHANGED <<hold, review, proposal>>
    BY <1>8 DEF GetReview
  <2>2. seen' \in [Members -> Screens]
    <3>1. [review |-> v, version |-> txn[m].version] \in Screens
      BY <1>6 DEF Screens
    <3>. QED BY <2>1, <3>1 DEF Inv, TypeOK
  <2>3. TypeOK'
    BY <1>1, <1>4, <2>1, <2>2 DEF Inv, TypeOK, Exists
  <2>4. HoldMatchesStatus' /\ DecidedOnce' /\ ProposalShowsReview'
    BY <1>1, <2>1 DEF Inv, HoldMatchesStatus, DecidedOnce, ProposalShowsReview,
                      ShownState, Held
  <2>5. LoadedRowStands'
    BY <1>5, <2>1, RowsStand DEF Idle
  <2>6. ChecksStand'
    <3>1. proposal.current \in Nat
      BY DEF Inv, TypeOK
    <3>. QED BY <1>1, <1>5, <2>1, <3>1, ChecksSurvive DEF Idle, Exists
  <2>. QED BY <2>3, <2>4, <2>5, <2>6 DEF Inv
<1>. QED BY <1>7, <1>8

\* The list sweeps every expired hold; each of them belongs to a reserved review.
LEMMA ListReviewsStep ==
  ASSUME Inv, NEW m \in Members, NEW v \in Proposals, ListReviews(m, v)
  PROVE  Inv'
<1>. DEFINE swept == {w \in Proposals : HoldHasExpired(w)}
            c == proposal.current
<1>1. /\ hold' = [w \in Proposals |-> IF w \in swept THEN Free ELSE hold[w]]
      /\ review' = [w \in Proposals |->
           IF w \in swept THEN ReturnedToQueue(w, review[w]) ELSE review[w]]
      /\ proposal' = IF \E w \in swept : c = w /\ review[w].status = "reserved"
                       THEN ProposalAfter(c, brief[c].state)
                       ELSE proposal
      /\ seen' = [seen EXCEPT ![m] = [review |-> v, version |-> review'[v].version]]
      /\ UNCHANGED <<case, messages, importing, brief, decisions, rules, policy,
                     reviewers, txn>>
  BY DEF ListReviews, inboxVars, authority
<1>2. \A w \in Proposals : review[w] \in Reviews /\ brief[w] \in Briefs
                           /\ hold[w] \in Holds
  BY DEF Inv, TypeOK
<1>3. ASSUME NEW w \in Proposals, w \in swept
      PROVE  /\ review[w].status = "reserved"
             /\ review'[w] = Moved(w, "pending", review[w].version + 1)
             /\ review'[w].status = "pending"
             /\ review'[w].version = review[w].version + 1
             /\ review'[w] \in Reviews
             /\ hold'[w] = Free
  <2>1. review[w].status = "reserved"
    BY <1>3 DEF Inv, HoldMatchesStatus, HoldHasExpired
  <2>2. review'[w] = Moved(w, "pending", review[w].version + 1)
    BY <1>1, <1>3, <2>1 DEF ReturnedToQueue
  <2>3. Moved(w, "pending", review[w].version + 1) \in Reviews
    BY <1>2 DEF Moved, Reviews, ReviewStatus, OpenStatus
  <2>. QED BY <1>1, <1>3, <2>1, <2>2, <2>3 DEF Moved
<1>4. ASSUME NEW w \in Proposals, w \notin swept
      PROVE  review'[w] = review[w] /\ hold'[w] = hold[w]
  BY <1>1, <1>4
<1>5. Free \in Holds /\ Free.expired = FALSE /\ Free.holder = NoMember
  BY DEF Free, Holds
<1>6. review' \in [Proposals -> Reviews] /\ hold' \in [Proposals -> Holds]
  <2>1. \A w \in Proposals : review'[w] \in Reviews /\ hold'[w] \in Holds
    BY <1>2, <1>3, <1>4, <1>5
  <2>. QED BY <1>1, <2>1
<1>7. /\ c \in swept =>
           proposal' = [current |-> c, root |-> proposal.root + 1,
                        state |-> brief[c].state]
      /\ c \notin swept => proposal' = proposal
  BY <1>1, <1>3 DEF ProposalAfter
<1>8. /\ proposal' \in [current : 0 .. MaxProposals, root : Nat, state : ProposalState]
      /\ proposal'.current = c
  <2>1. CASE c \in swept
    <3>1. brief[c].state \in ProposalState
      BY <1>2, <2>1 DEF Briefs, ProposalState
    <3>. QED BY <1>7, <2>1, <3>1 DEF Inv, TypeOK
  <2>2. CASE c \notin swept
    BY <1>7, <2>2 DEF Inv, TypeOK
  <2>. QED BY <2>1, <2>2
<1>9. TypeOK'
  <2>1. seen' \in [Members -> Screens]
    <3>1. [review |-> v, version |-> review'[v].version] \in Screens
      BY <1>6 DEF Screens, Reviews
    <3>. QED BY <1>1, <3>1 DEF Inv, TypeOK
  <2>2. \A w \in Proposals : Exists(w)' => w <= proposal'.current
    BY <1>3, <1>4, <1>8 DEF Inv, TypeOK, Exists
  <2>. QED BY <1>1, <1>6, <1>8, <2>1, <2>2 DEF Inv, TypeOK
<1>10. HoldMatchesStatus'
  BY <1>3, <1>4, <1>5 DEF Inv, HoldMatchesStatus, Held
<1>11. DecidedOnce'
  <2>1. ASSUME NEW w \in Proposals, w \in swept
        PROVE  decisions'[w] = {} /\ review'[w].status \notin TerminalStatus
    BY <1>1, <1>3, <2>1 DEF Inv, DecidedOnce, TerminalStatus
  <2>. QED BY <1>1, <1>4, <2>1 DEF Inv, DecidedOnce
<1>12. ProposalShowsReview'
  <2>1. ASSUME NEW w \in Proposals, proposal'.current = w
        PROVE  proposal'.state = ShownState(w)'
    <3>1. CASE w \in swept
      <4>1. review'[w].status = "pending" /\ brief' = brief
        BY <1>1, <1>3, <3>1
      <4>2. ShownState(w)' = brief[w].state
        BY <4>1 DEF ShownState
      <4>3. proposal'.state = brief[w].state
        BY <1>7, <1>8, <2>1, <3>1
      <4>. QED BY <4>2, <4>3
    <3>2. CASE w \notin swept
      <4>1. proposal' = proposal /\ review'[w] = review[w] /\ brief' = brief
        BY <1>1, <1>4, <1>7, <1>8, <2>1, <3>2
      <4>. QED BY <2>1, <4>1 DEF Inv, ProposalShowsReview, ShownState
    <3>. QED BY <3>1, <3>2
  <2>. QED BY <2>1 DEF ProposalShowsReview
<1>13. LoadedRowStands'
  <2>1. \A w \in Proposals :
          \/ review'[w] = review[w] /\ hold'[w] = hold[w]
          \/ /\ review'[w].status # "none"
             /\ review'[w].version = review[w].version + 1
             /\ hold'[w].expired = FALSE
    BY <1>3, <1>4, <1>5
  <2>. QED BY <1>1, <2>1, RowsStand
<1>14. ChecksStand'
  <2>1. \A w \in Proposals : Exists(w) => Exists(w)'
    BY <1>3, <1>4 DEF Exists
  <2>2. proposal.current \in Nat
    BY DEF Inv, TypeOK
  <2>. QED BY <1>1, <1>8, <2>1, <2>2, ChecksSurvive
<1>. QED BY <1>9, <1>10, <1>11, <1>12, <1>13, <1>14 DEF Inv

-----------------------------------------------------------------------------
(* Holds and decisions *)

\* The screen of a member whose command moved a review.
LEMMA ScreenType ==
  ASSUME Inv, NEW m \in Members, NEW v \in Proposals,
         review' \in [Proposals -> Reviews],
         seen' = [seen EXCEPT ![m] = [review |-> v, version |-> review'[v].version]]
  PROVE  seen' \in [Members -> Screens]
<1>1. [review |-> v, version |-> review'[v].version] \in Screens
  BY DEF Screens, Reviews
<1>. QED BY <1>1 DEF Inv, TypeOK

\* A reservation gives a free review to a member who did not submit it.
LEMMA ReserveStep ==
  ASSUME Inv, NEW m \in Members, NEW v \in Proposals, Reserve(m, v)
  PROVE  Inv'
<1>. DEFINE h == [holder |-> m, expired |-> FALSE]
<1>1. /\ txn[m].step = "reserving" /\ txn[m].review = v
      /\ review[v].status \notin TerminalStatus
      /\ m # review[v].submitter
      /\ hold' = [hold EXCEPT ![v] = h]
      /\ review' = [review EXCEPT ![v] = Moved(v, "reserved", review[v].version + 1)]
      /\ proposal' = ProposalAfter(v, "under_review")
      /\ seen' = [seen EXCEPT ![m] = [review |-> v, version |-> review'[v].version]]
      /\ txn' = [txn EXCEPT ![m] = Idle]
      /\ UNCHANGED <<case, messages, importing, brief, decisions, rules, policy,
                     reviewers>>
  BY DEF Reserve, inboxVars, authority, Inv, TypeOK
<1>2. Exists(v)
  BY <1>1 DEF Inv, ChecksStand
<1>3. txn' \in [Members -> Transactions]
  <2>1. Idle \in Transactions
    BY DEF Idle, Transactions
  <2>. QED BY <1>1, <2>1 DEF Inv, TypeOK
<1>4. \A q \in Members : txn'[q] = txn[q] \/ txn'[q] = Idle
  BY <1>1 DEF Inv, TypeOK
<1>5. h \in Holds /\ "reserved" \in ReviewStatus \ {"none"}
      /\ "under_review" \in ProposalState /\ Shows("reserved", v, "under_review")
  BY DEF Holds, ReviewStatus, OpenStatus, ProposalState, Shows
<1>6. m # NoMember
  OBVIOUS
<1>7. Moves(v, "reserved", h, "under_review")
  BY <1>1, <1>2, <1>3, <1>4, <1>5, <1>6 DEF Moves
<1>8. /\ review' \in [Proposals -> Reviews]
      /\ hold' \in [Proposals -> Holds]
      /\ proposal' \in [current : 0 .. MaxProposals, root : Nat, state : ProposalState]
      /\ \A w \in Proposals : Exists(w)' => w <= proposal'.current
      /\ HoldMatchesStatus' /\ ProposalShowsReview' /\ LoadedRowStands'
      /\ ChecksStand'
      /\ \A w \in Proposals : w # v => review'[w] = review[w]
      /\ review'[v].status = "reserved"
  BY <1>7, ReviewMoves
<1>9. DecidedOnce'
  BY <1>1, <1>8, OpenMoveKeepsDecisions DEF TerminalStatus
<1>10. seen' \in [Members -> Screens]
  BY <1>1, <1>8, ScreenType
<1>11. TypeOK'
  BY <1>1, <1>3, <1>8, <1>10 DEF Inv, TypeOK
<1>. QED BY <1>8, <1>9, <1>11 DEF Inv

\* A decision ends a review its holder, and nobody else, may still decide.
LEMMA DecideStep ==
  ASSUME Inv, NEW m \in Members, NEW v \in Proposals, NEW d \in Decision,
         Decide(m, v, d)
  PROVE  Inv'
<1>. DEFINE row == [reviewer |-> m, decision |-> d]
<1>1. /\ review[v].status \notin TerminalStatus
      /\ hold[v] = [holder |-> m, expired |-> FALSE]
      /\ decisions' = [decisions EXCEPT ![v] = decisions[v] \union {row}]
      /\ hold' = [hold EXCEPT ![v] = Free]
      /\ review' = [review EXCEPT ![v] = Moved(v, StatusOf(d), review[v].version + 1)]
      /\ case' = CaseAfter(d)
      /\ proposal' = ProposalAfter(v, StateOf(d))
      /\ seen' = [seen EXCEPT ![m] = [review |-> v, version |-> review'[v].version]]
      /\ UNCHANGED <<messages, importing, brief, rules, policy, reviewers, txn>>
  BY DEF Decide, MayDecide, ConsumedHold, inboxVars, authority, Inv, TypeOK
<1>2. /\ review[v].status = "reserved"
      /\ m # review[v].submitter
  <2>1. Held(v)
    BY <1>1 DEF Held
  <2>. QED BY <1>1, <2>1 DEF Inv, HoldMatchesStatus
<1>3. decisions[v] = {}
  BY <1>1 DEF Inv, DecidedOnce
<1>4. /\ StatusOf(d) \in TerminalStatus
      /\ StateOf(d) \in ProposalState
      /\ Shows(StatusOf(d), v, StateOf(d))
  <2>. USE DEF StatusOf, StateOf, TerminalStatus, ProposalState, BriefState, Shows
  <2>1. CASE d = "approve"
    BY <2>1
  <2>2. CASE d = "request_changes"
    BY <2>2
  <2>3. CASE d = "reject"
    BY <2>3
  <2>4. CASE d = "escalate"
    BY <2>4
  <2>. QED BY <2>1, <2>2, <2>3, <2>4 DEF Decision
<1>5. Free \in Holds /\ Free.expired = FALSE /\ Free.holder = NoMember
  BY DEF Free, Holds
<1>6. Moves(v, StatusOf(d), Free, StateOf(d))
  <2>1. StatusOf(d) \in ReviewStatus \ {"none"} /\ StatusOf(d) # "reserved"
    BY <1>4 DEF ReviewStatus, TerminalStatus
  <2>2. Exists(v)
    BY <1>2 DEF Exists
  <2>3. txn' \in [Members -> Transactions] /\ \A q \in Members : txn'[q] = txn[q]
    BY <1>1 DEF Inv, TypeOK
  <2>. QED BY <1>1, <1>4, <1>5, <2>1, <2>2, <2>3 DEF Moves
<1>7. /\ review' \in [Proposals -> Reviews]
      /\ hold' \in [Proposals -> Holds]
      /\ proposal' \in [current : 0 .. MaxProposals, root : Nat, state : ProposalState]
      /\ \A w \in Proposals : Exists(w)' => w <= proposal'.current
      /\ HoldMatchesStatus' /\ ProposalShowsReview' /\ LoadedRowStands'
      /\ ChecksStand'
      /\ \A w \in Proposals : w # v => review'[w] = review[w]
      /\ review'[v].status = StatusOf(d)
      /\ review'[v].submitter = review[v].submitter
  BY <1>6, ReviewMoves
<1>8. row \in [reviewer : Members, decision : Decision]
  OBVIOUS
<1>9. /\ decisions' \in [Proposals -> SUBSET [reviewer : Members, decision : Decision]]
      /\ decisions'[v] = {row}
      /\ \A w \in Proposals : w # v => decisions'[w] = decisions[w]
  BY <1>1, <1>3, <1>8 DEF Inv, TypeOK
<1>10. DecidedOnce'
  <2>1. ASSUME NEW w \in Proposals, w # v
        PROVE  /\ review'[w].status \in TerminalStatus <=> decisions'[w] # {}
               /\ \A x, y \in decisions'[w] : x = y
               /\ \A x \in decisions'[w] : /\ review'[w].status = StatusOf(x.decision)
                                            /\ x.reviewer # review'[w].submitter
    BY <1>7, <1>9, <2>1 DEF Inv, DecidedOnce
  <2>2. /\ review'[v].status \in TerminalStatus <=> decisions'[v] # {}
        /\ \A x, y \in decisions'[v] : x = y
        /\ \A x \in decisions'[v] : /\ review'[v].status = StatusOf(x.decision)
                                     /\ x.reviewer # review'[v].submitter
    BY <1>2, <1>4, <1>7, <1>9
  <2>. QED BY <2>1, <2>2 DEF DecidedOnce
<1>11. case' \in [version : Nat, status : CaseStatus]
  BY <1>1 DEF CaseAfter, CaseStatus, Inv, TypeOK
<1>12. seen' \in [Members -> Screens]
  BY <1>1, <1>7, ScreenType
<1>13. TypeOK'
  BY <1>1, <1>7, <1>9, <1>11, <1>12 DEF Inv, TypeOK
<1>. QED BY <1>7, <1>10, <1>13 DEF Inv

\* A hold runs out; every detail read still open loaded the review under it.
LEMMA HoldExpiresStep ==
  ASSUME Inv, NEW v \in Proposals, HoldExpires(v)
  PROVE  Inv'
<1>. DEFINE h == [holder |-> hold[v].holder, expired |-> TRUE]
<1>1. /\ \A m \in Members : txn[m].step = "opened" /\ txn[m].review = v
                             => txn[m].version = review[v].version
      /\ hold' = [hold EXCEPT ![v] = h]
      /\ UNCHANGED <<case, messages, importing, proposal, brief, review, decisions,
                     rules, policy, reviewers, seen, txn>>
  BY DEF HoldExpires, inboxVars, authority, Inv, TypeOK
<1>2. h \in Holds
  BY DEF Inv, TypeOK, Holds
<1>3. /\ hold'[v] = h
      /\ \A w \in Proposals : w # v => hold'[w] = hold[w]
      /\ hold' \in [Proposals -> Holds]
  BY <1>1, <1>2 DEF Inv, TypeOK
<1>4. TypeOK'
  BY <1>1, <1>3 DEF Inv, TypeOK, Exists
<1>5. HoldMatchesStatus'
  BY <1>1, <1>3 DEF Inv, HoldMatchesStatus, Held
<1>6. DecidedOnce' /\ ProposalShowsReview'
  BY <1>1 DEF Inv, DecidedOnce, ProposalShowsReview, ShownState
<1>7. LoadedRowStands'
  BY <1>1, <1>3 DEF Inv, LoadedRowStands, Exists, HoldHasExpired, Held
<1>8. ChecksStand'
  BY <1>1, ChecksSurvive DEF Exists, Inv, TypeOK
<1>. QED BY <1>4, <1>5, <1>6, <1>7, <1>8 DEF Inv

-----------------------------------------------------------------------------
(* The invariant and what follows from it *)

\* The case without a proposal satisfies Inv: nothing was reviewed yet.
LEMMA InvInit == Init => Inv
<1>. SUFFICES ASSUME Init PROVE Inv
  OBVIOUS
<1>. USE DEF Init
<1>1. /\ NoBrief \in Briefs /\ NoReview \in Reviews /\ Free \in Holds
      /\ Idle \in Transactions /\ Free.holder = NoMember
      /\ NoReview.status = "none" /\ Idle.step = "idle"
  BY DEF NoBrief, Briefs, BriefState, NoReview, Reviews, ReviewStatus, Free, Holds,
         Idle, Transactions
<1>2. /\ brief \in [Proposals -> Briefs]
      /\ review \in [Proposals -> Reviews]
      /\ hold \in [Proposals -> Holds]
      /\ txn \in [Members -> Transactions]
      /\ seen \in [Members -> Screens]
      /\ decisions \in [Proposals -> SUBSET [reviewer : Members, decision : Decision]]
  BY <1>1 DEF Screens
<1>3. \A v \in Proposals : review[v].status = "none" /\ hold[v].holder = NoMember
                           /\ decisions[v] = {}
  BY <1>1
<1>4. \A m \in Members : txn[m].step = "idle"
  BY <1>1
<1>5. TypeOK
  BY <1>2, <1>3 DEF TypeOK, CaseStatus, ProposalState, Exists
<1>6. HoldMatchesStatus /\ DecidedOnce
  BY <1>3 DEF HoldMatchesStatus, DecidedOnce, Held, TerminalStatus
<1>7. ProposalShowsReview /\ LoadedRowStands /\ ChecksStand
  BY <1>4 DEF ProposalShowsReview, LoadedRowStands, ChecksStand
<1>. QED BY <1>5, <1>6, <1>7 DEF Inv

\* Every step of the briefs, the reviews, the case, the inbox and the settings
\* preserves Inv.
LEMMA InvNext == Inv /\ [Next]_vars => Inv'
<1>. SUFFICES ASSUME Inv, [Next]_vars PROVE Inv'
  OBVIOUS
<1>1. CASE UNCHANGED vars
  <2>1. UNCHANGED <<case, messages, importing, proposal, brief, review, hold,
                    decisions, rules, policy, reviewers, seen, txn>>
    BY <1>1 DEF vars, inboxVars, reviewVars, authority
  <2>2. ChecksStand'
    BY <2>1, ChecksSurvive DEF Exists, Inv, TypeOK
  <2>. QED BY <2>1, <2>2, CoreUnchanged DEF core, Inv, TypeOK
<1>2. ASSUME NEW m \in Members,
             \/ PrepareGeneration(m) \/ PersistChecks(m) \/ GiveUp(m)
             \/ \E v \in Proposals : BeginReserve(m, v) \/ BeginSubmit(m, v)
      PROVE  Inv'
  BY <1>2, TransactionSteps
<1>3. CASE \/ CaseCommand \/ ImportReadsCase \/ ImportAppends \/ ChangeRules
           \/ ChangePolicy \/ \E m \in Members : DemoteReviewer(m)
  BY <1>3, OutsideSteps
<1>4. ASSUME NEW m \in Members, NEW s \in BriefState, PersistWrites(m, s)
      PROVE  Inv'
  BY <1>4, PersistWritesStep
<1>5. ASSUME NEW m \in Members, NEW v \in Proposals,
             Submit(m, v) \/ OpenReview(m, v) \/ GetReview(m, v)
               \/ ListReviews(m, v) \/ Reserve(m, v)
      PROVE  Inv'
  BY <1>5, SubmitStep, OpenReviewStep, GetReviewStep, ListReviewsStep, ReserveStep
<1>6. ASSUME NEW m \in Members, NEW v \in Proposals, NEW d \in Decision,
             Decide(m, v, d)
      PROVE  Inv'
  BY <1>6, DecideStep
<1>7. ASSUME NEW v \in Proposals, HoldExpires(v)
      PROVE  Inv'
  BY <1>7, HoldExpiresStep
<1>. QED BY <1>1, <1>2, <1>3, <1>4, <1>5, <1>6, <1>7 DEF Next

\* The invariant holds in every behaviour, for any number of members, proposal
\* versions and commands.
THEOREM ReviewInvariance == Spec => []Inv
BY InvInit, InvNext, PTL DEF Spec

\* The rows keep their types, and a review belongs to a written version.
THEOREM ReviewTypeCorrect == Spec => []TypeOK
<1>1. Inv => TypeOK
  BY DEF Inv
<1>. QED BY <1>1, ReviewInvariance, PTL

\* A review is reserved exactly while a member other than its submitter holds
\* it, a sweep from a row loaded without a lock writes what is still true, and
\* a review gets at most one decision, never its submitter's.
THEOREM HoldsAreSoundHolds == Spec => []HoldsAreSound
<1>1. Inv => HoldsAreSound
  BY DEF Inv, HoldsAreSound
<1>. QED BY <1>1, ReviewInvariance, PTL

\* The proposal shows what the review of its current version came to.
THEOREM ProposalShowsReviewHolds == Spec => []ProposalShowsReview
<1>1. Inv => ProposalShowsReview
  BY DEF Inv
<1>. QED BY <1>1, ReviewInvariance, PTL

-----------------------------------------------------------------------------
(* What a step does to the reviews and to the case version *)

\* Review w stays, or it is open and moves on to a status in S.
Advances(w, S) ==
  \/ review'[w] = review[w]
  \/ /\ review[w].status \in OpenStatus
     /\ \E s \in S : review'[w] = Moved(w, s, review[w].version + 1)

StaysOrApproved == OpenStatus \union {"approved"}

\* Either the case stays and reviews stay live, or the case version moves on and
\* a review may end, or a review is submitted, or a message is imported.
StepKind ==
  \/ case' = case /\ \A w \in Proposals : Advances(w, StaysOrApproved)
  \/ case'.version = case.version + 1 /\ \A w \in Proposals : Advances(w, TerminalStatus)
  \/ \E m \in Members, v \in Proposals : Submit(m, v)
  \/ ImportAppends /\ review' = review

\* Every step is of one of the four kinds.
LEMMA StepKinds == Inv /\ [Next]_vars => StepKind
<1>. SUFFICES ASSUME Inv, [Next]_vars PROVE StepKind
  OBVIOUS
<1>1. CASE review' = review /\ case' = case
  BY <1>1 DEF StepKind, Advances
<1>2. CASE CaseCommand
  <2>1. review' = review /\ case'.version = case.version + 1
    BY <1>2 DEF CaseCommand, reviewVars
  <2>. QED BY <2>1 DEF StepKind, Advances
<1>3. CASE ImportAppends
  <2>1. review' = review
    BY <1>3 DEF ImportAppends, reviewVars
  <2>. QED BY <1>3, <2>1 DEF StepKind
<1>4. ASSUME NEW m \in Members, NEW v \in Proposals, GetReview(m, v)
      PROVE  StepKind
  <2>1. case' = case /\ txn[m].step = "opened" /\ txn[m].review = v
    BY <1>4 DEF GetReview
  <2>2. CASE ~HoldHasExpired(v)
    BY <1>4, <2>1, <2>2 DEF GetReview, StepKind, Advances
  <2>3. CASE HoldHasExpired(v)
    <3>1. review[v].status = "reserved" /\ txn[m].status = "reserved"
          /\ txn[m].version = review[v].version
      BY <2>1, <2>3 DEF Inv, LoadedRowStands, HoldMatchesStatus, HoldHasExpired
    <3>2. review' = [review EXCEPT ![v] = Moved(v, "pending", review[v].version + 1)]
      BY <1>4, <2>3, <3>1 DEF GetReview, ReturnedToQueue
    <3>3. /\ review'[v] = Moved(v, "pending", review[v].version + 1)
          /\ \A w \in Proposals : w # v => review'[w] = review[w]
      BY <3>2 DEF Inv, TypeOK
    <3>4. \A w \in Proposals : Advances(w, StaysOrApproved)
      BY <3>1, <3>3 DEF Advances, StaysOrApproved, OpenStatus
    <3>. QED BY <2>1, <3>4 DEF StepKind
  <2>. QED BY <2>2, <2>3
<1>5. ASSUME NEW m \in Members, NEW v \in Proposals, ListReviews(m, v)
      PROVE  StepKind
  <2>1. /\ case' = case
        /\ review' = [w \in Proposals |->
             IF w \in {u \in Proposals : HoldHasExpired(u)}
               THEN ReturnedToQueue(w, review[w]) ELSE review[w]]
    BY <1>5 DEF ListReviews
  <2>2. ASSUME NEW w \in Proposals PROVE Advances(w, StaysOrApproved)
    <3>1. CASE HoldHasExpired(w)
      <4>1. review[w].status = "reserved"
        BY <3>1 DEF Inv, HoldMatchesStatus, HoldHasExpired
      <4>2. review'[w] = Moved(w, "pending", review[w].version + 1)
        BY <2>1, <3>1, <4>1 DEF ReturnedToQueue
      <4>. QED BY <4>1, <4>2 DEF Advances, StaysOrApproved, OpenStatus
    <3>2. CASE ~HoldHasExpired(w)
      BY <2>1, <3>2 DEF Advances
    <3>. QED BY <3>1, <3>2
  <2>. QED BY <2>1, <2>2 DEF StepKind
<1>6. ASSUME NEW m \in Members, NEW v \in Proposals, Reserve(m, v)
      PROVE  StepKind
  <2>1. /\ case' = case
        /\ review[v].status \notin TerminalStatus
        /\ review' = [review EXCEPT ![v] = Moved(v, "reserved", review[v].version + 1)]
    BY <1>6 DEF Reserve, Inv, TypeOK
  <2>2. review[v].status \in OpenStatus
    <3>1. Exists(v)
      BY <1>6 DEF Reserve, Inv, ChecksStand
    <3>2. review[v].status \in ReviewStatus
      BY DEF Inv, TypeOK, Reviews
    <3>. QED BY <2>1, <3>1, <3>2 DEF Exists, ReviewStatus
  <2>3. \A w \in Proposals : Advances(w, StaysOrApproved)
    BY <2>1, <2>2 DEF Advances, StaysOrApproved, OpenStatus, Inv, TypeOK
  <2>. QED BY <2>1, <2>3 DEF StepKind
<1>7. ASSUME NEW m \in Members, NEW v \in Proposals, NEW d \in Decision,
             Decide(m, v, d)
      PROVE  StepKind
  <2>1. /\ hold[v] = [holder |-> m, expired |-> FALSE]
        /\ review' = [review EXCEPT ![v] = Moved(v, StatusOf(d), review[v].version + 1)]
        /\ case' = CaseAfter(d)
    BY <1>7 DEF Decide, MayDecide, Inv, TypeOK
  <2>2. review[v].status \in OpenStatus
    <3>1. Held(v)
      BY <2>1 DEF Held
    <3>. QED BY <3>1 DEF Inv, HoldMatchesStatus, OpenStatus
  <2>3. /\ review'[v] = Moved(v, StatusOf(d), review[v].version + 1)
        /\ \A w \in Proposals : w # v => review'[w] = review[w]
    BY <2>1 DEF Inv, TypeOK
  <2>4. CASE d = "approve"
    <3>1. case' = case /\ StatusOf(d) = "approved"
      BY <2>1, <2>4 DEF CaseAfter, StatusOf
    <3>2. \A w \in Proposals : Advances(w, StaysOrApproved)
      BY <2>2, <2>3, <3>1 DEF Advances, StaysOrApproved
    <3>. QED BY <3>1, <3>2 DEF StepKind
  <2>5. CASE d # "approve"
    <3>1. case'.version = case.version + 1
      BY <2>1, <2>5 DEF CaseAfter
    <3>2. StatusOf(d) \in TerminalStatus
      BY <2>5 DEF StatusOf, TerminalStatus, Decision
    <3>3. \A w \in Proposals : Advances(w, TerminalStatus)
      BY <2>2, <2>3, <3>2 DEF Advances
    <3>. QED BY <3>1, <3>3 DEF StepKind
  <2>. QED BY <2>4, <2>5
<1>8. ASSUME NEW m \in Members, NEW v \in Proposals, Submit(m, v)
      PROVE  StepKind
  BY <1>8 DEF StepKind
<1>9. CASE UNCHANGED vars
  BY <1>1, <1>9 DEF vars, reviewVars
<1>10. ASSUME NEW m \in Members,
              \/ PrepareGeneration(m) \/ PersistChecks(m) \/ GiveUp(m)
              \/ DemoteReviewer(m) \/ \E s \in BriefState : PersistWrites(m, s)
              \/ \E v \in Proposals : \/ OpenReview(m, v) \/ BeginReserve(m, v)
                                      \/ BeginSubmit(m, v)
       PROVE  StepKind
  <2>1. review' = review /\ case' = case
    BY <1>10 DEF PrepareGeneration, PersistChecks, GiveUp, DemoteReviewer,
                 PersistWrites, OpenReview, BeginReserve, BeginSubmit, reviewVars
  <2>. QED BY <1>1, <2>1
<1>11. ASSUME \/ ImportReadsCase \/ ChangeRules \/ ChangePolicy
              \/ \E v \in Proposals : HoldExpires(v)
       PROVE  StepKind
  <2>1. review' = review /\ case' = case
    BY <1>11 DEF ImportReadsCase, ChangeRules, ChangePolicy, HoldExpires, reviewVars
  <2>. QED BY <1>1, <2>1
<1>. QED BY <1>2, <1>3, <1>4, <1>5, <1>6, <1>7, <1>8, <1>9, <1>10, <1>11 DEF Next

\* The fields a review keeps and those it changes when it advances.
LEMMA AdvanceFacts ==
  ASSUME Inv, NEW S, NEW w \in Proposals, Advances(w, S)
  PROVE  /\ review'[w].case = review[w].case
         /\ \/ review'[w] = review[w]
            \/ /\ review[w].status \in OpenStatus
               /\ review'[w].status \in S
               /\ review'[w].version = review[w].version + 1
<1>1. CASE review'[w] = review[w]
  BY <1>1
<1>2. CASE review'[w] # review[w]
  <2>1. PICK s \in S : review'[w] = Moved(w, s, review[w].version + 1)
    BY <1>2 DEF Advances
  <2>2. /\ review'[w].case = review[w].case
        /\ review'[w].status = s
        /\ review'[w].version = review[w].version + 1
    BY <2>1 DEF Moved
  <2>. QED BY <1>2, <2>2 DEF Advances
<1>. QED BY <1>1, <1>2

\* A review that was never written has version 0.
Unwritten == \A v \in Proposals : ~Exists(v) => review[v].version = 0

\* A review row that does not exist keeps version 0, so the first one submit
\* writes moves the version like every other change of status.
LEMMA UnwrittenStays == Spec => []Unwritten
<1>1. Init => Unwritten
  BY DEF Init, Unwritten, NoReview
<1>2. Inv /\ Unwritten /\ [Next]_vars => Unwritten'
  <2>. SUFFICES ASSUME Inv, Unwritten, [Next]_vars, NEW w \in Proposals, ~Exists(w)'
                PROVE  review'[w].version = 0
    BY DEF Unwritten
  <2>1. StepKind
    BY StepKinds
  <2>2. ASSUME NEW S, Advances(w, S), "none" \notin S
        PROVE  review'[w].version = 0
    BY <2>2, AdvanceFacts DEF Unwritten, Exists
  <2>3. ASSUME NEW m \in Members, NEW v \in Proposals, Submit(m, v)
        PROVE  review'[w].version = 0
    <3>1. review'[v].status = "pending" /\ (w # v => review'[w] = review[w])
      BY <2>3 DEF Submit, Inv, TypeOK
    <3>. QED BY <3>1 DEF Unwritten, Exists
  <2>4. "none" \notin StaysOrApproved /\ "none" \notin TerminalStatus
    BY DEF StaysOrApproved, OpenStatus, TerminalStatus
  <2>. QED BY <2>1, <2>2, <2>3, <2>4 DEF StepKind, Unwritten, Exists
<1>. QED BY <1>1, <1>2, ReviewInvariance, PTL DEF Spec

\* A decision is final and every change of a review moves its version, whatever
\* an older read of the row says.
THEOREM FinalStaysFinalHolds == Spec => FinalStaysFinal
<1>. DEFINE Final ==
       \A v \in Proposals :
         /\ review[v].status \in TerminalStatus => review'[v] = review[v]
         /\ review'[v].version >= review[v].version
         /\ review'[v].status # review[v].status
              => review'[v].version = review[v].version + 1
<1>1. Inv /\ Unwritten /\ [Next]_vars => Final
  <2>. SUFFICES ASSUME Inv, Unwritten, [Next]_vars, NEW v \in Proposals
                PROVE  /\ review[v].status \in TerminalStatus => review'[v] = review[v]
                       /\ review'[v].version >= review[v].version
                       /\ review'[v].status # review[v].status
                            => review'[v].version = review[v].version + 1
    OBVIOUS
  <2>1. StepKind /\ review[v].version \in Nat
    BY StepKinds DEF Inv, TypeOK, Reviews
  <2>2. ASSUME NEW S, Advances(v, S)
        PROVE  /\ review[v].status \in TerminalStatus => review'[v] = review[v]
               /\ review'[v].version >= review[v].version
               /\ review'[v].status # review[v].status
                    => review'[v].version = review[v].version + 1
    BY <2>1, <2>2, AdvanceFacts DEF OpenStatus, TerminalStatus
  <2>3. ASSUME NEW m \in Members, NEW u \in Proposals, Submit(m, u)
        PROVE  \/ review'[v] = review[v]
               \/ /\ review[v].status = "none"
                  /\ review[v].version = 0
                  /\ review'[v].version = 1
    BY <2>3 DEF Submit, Inv, TypeOK, Unwritten, Exists
  <2>. QED BY <2>1, <2>2, <2>3 DEF StepKind, TerminalStatus
<1>. QED BY <1>1, ReviewInvariance, UnwrittenStays, PTL DEF Spec, FinalStaysFinal

-----------------------------------------------------------------------------
(* What an approval rests on *)

\* A snapshot binds the case version its submission made out of the one the
\* analysis saw.
SnapshotFollowsBrief ==
  \A v \in Proposals : Exists(v) => review[v].case = brief[v].case + 1

\* The brief of a version that has a review is never written again.
LEMMA BriefsStay ==
  ASSUME Inv, [Next]_vars, NEW v \in Proposals, v <= proposal.current
  PROVE  brief'[v] = brief[v]
<1>1. ASSUME NEW m \in Members, NEW s \in BriefState, PersistWrites(m, s)
      PROVE  brief'[v] = brief[v]
  <2>1. v # proposal.current + 1
    BY DEF Inv, TypeOK
  <2>. QED BY <1>1, <2>1 DEF PersistWrites, Inv, TypeOK
<1>2. ASSUME NEW m \in Members,
             \/ PrepareGeneration(m) \/ PersistChecks(m) \/ GiveUp(m)
             \/ DemoteReviewer(m)
      PROVE  brief' = brief
  BY <1>2 DEF PrepareGeneration, PersistChecks, GiveUp, DemoteReviewer
<1>3. ASSUME NEW m \in Members, NEW w \in Proposals,
             \/ Submit(m, w) \/ OpenReview(m, w) \/ GetReview(m, w)
             \/ ListReviews(m, w) \/ BeginReserve(m, w) \/ Reserve(m, w)
             \/ BeginSubmit(m, w) \/ \E d \in Decision : Decide(m, w, d)
      PROVE  brief' = brief
  BY <1>3 DEF BeginSubmit, Submit, OpenReview, GetReview, ListReviews, BeginReserve, Reserve, Decide
<1>4. ASSUME \/ CaseCommand \/ ImportReadsCase \/ ImportAppends \/ ChangeRules
             \/ ChangePolicy \/ UNCHANGED vars
             \/ \E w \in Proposals : HoldExpires(w)
      PROVE  brief' = brief
  BY <1>4 DEF CaseCommand, ImportReadsCase, ImportAppends, ChangeRules, ChangePolicy,
              HoldExpires, vars
<1>. QED BY <1>1, <1>2, <1>3, <1>4 DEF Next

\* A snapshot binds the case version right after the one its brief was made for.
LEMMA SnapshotFollowsBriefHolds == Spec => []SnapshotFollowsBrief
<1>1. Init => SnapshotFollowsBrief
  BY DEF Init, SnapshotFollowsBrief, Exists, NoReview
<1>2. Inv /\ SnapshotFollowsBrief /\ [Next]_vars => SnapshotFollowsBrief'
  <2>. SUFFICES ASSUME Inv, SnapshotFollowsBrief, [Next]_vars, NEW v \in Proposals,
                       Exists(v)'
                PROVE  review'[v].case = brief'[v].case + 1
    BY DEF SnapshotFollowsBrief
  <2>1. CASE Exists(v)
    <3>1. brief'[v] = brief[v] /\ StepKind
      BY <2>1, BriefsStay, StepKinds DEF Inv, TypeOK
    <3>2. review'[v].case = review[v].case
      <4>1. ASSUME NEW S, Advances(v, S) PROVE review'[v].case = review[v].case
        BY <4>1, AdvanceFacts
      <4>2. ASSUME NEW m \in Members, NEW w \in Proposals, Submit(m, w)
            PROVE  review'[v] = review[v]
        BY <2>1, <4>2 DEF Submit, Exists, Inv, TypeOK
      <4>. QED BY <3>1, <4>1, <4>2 DEF StepKind
    <3>. QED BY <2>1, <3>1, <3>2 DEF SnapshotFollowsBrief
  <2>2. CASE ~Exists(v)
    <3>1. \E m \in Members, w \in Proposals : Submit(m, w)
      <4>1. ASSUME NEW S, Advances(v, S) PROVE FALSE
        BY <2>2, <4>1, AdvanceFacts DEF Exists, OpenStatus
      <4>. QED BY <2>2, <4>1, StepKinds DEF StepKind, Exists
    <3>2. PICK m \in Members, w \in Proposals : Submit(m, w)
      BY <3>1
    <3>3. v = w
      BY <2>2, <3>2 DEF Submit, Exists, Inv, TypeOK
    <3>4. txn[m].case = brief[v].case
      BY <3>2, <3>3 DEF Submit, Inv, ChecksStand
    <3>. QED BY <3>2, <3>3, <3>4 DEF Submit, Inv, TypeOK
  <2>. QED BY <2>1, <2>2
<1>. QED BY <1>1, <1>2, ReviewInvariance, PTL DEF Spec

\* Only decide approves a review.
LEMMA OnlyDecideApproves ==
  ASSUME Inv, [Next]_vars, NEW v \in Proposals,
         review'[v].status = "approved", review[v].status # "approved"
  PROVE  \E m \in Members : Decide(m, v, "approve")
<1>1. ASSUME NEW m \in Members, NEW w \in Proposals, NEW d \in Decision,
             Decide(m, w, d)
      PROVE  w = v /\ d = "approve"
  <2>1. review' = [review EXCEPT ![w] = Moved(w, StatusOf(d), review[w].version + 1)]
    BY <1>1 DEF Decide, Inv, TypeOK
  <2>2. w = v
    BY <2>1 DEF Inv, TypeOK
  <2>3. StatusOf(d) = "approved"
    BY <2>1, <2>2 DEF Moved, Inv, TypeOK
  <2>4. d = "approve"
    BY <2>3 DEF StatusOf, Decision
  <2>. QED BY <2>2, <2>4
<1>2. ASSUME NEW m \in Members, NEW w \in Proposals,
             Submit(m, w) \/ GetReview(m, w) \/ ListReviews(m, w) \/ Reserve(m, w)
      PROVE  FALSE
  <2>1. ASSUME NEW u \in Proposals, NEW l
        PROVE  \/ ReturnedToQueue(u, l) = review[u]
               \/ ReturnedToQueue(u, l).status = "pending"
    BY DEF ReturnedToQueue, Moved
  <2>2. \/ review'[v] = review[v]
        \/ review'[v].status \in OpenStatus
    <3>1. CASE Submit(m, w)
      BY <3>1 DEF Submit, OpenStatus, Inv, TypeOK
    <3>2. CASE GetReview(m, w)
      <4>1. review' = review \/ review' = [review EXCEPT ![w] = ReturnedToQueue(w, txn[m])]
        BY <3>2 DEF GetReview
      <4>2. review'[v] = review[v] \/ (v = w /\ review'[v] = ReturnedToQueue(w, txn[m]))
        BY <4>1 DEF Inv, TypeOK
      <4>. QED BY <2>1, <4>2 DEF OpenStatus
    <3>3. CASE ListReviews(m, w)
      <4>1. review'[v] = review[v] \/ review'[v] = ReturnedToQueue(v, review[v])
        BY <3>3 DEF ListReviews
      <4>. QED BY <2>1, <4>1 DEF OpenStatus
    <3>4. CASE Reserve(m, w)
      BY <3>4 DEF Reserve, Moved, OpenStatus, Inv, TypeOK
    <3>. QED BY <1>2, <3>1, <3>2, <3>3, <3>4
  <2>. QED BY <2>2 DEF OpenStatus
<1>. USE DEF reviewVars
<1>3. ASSUME NEW m \in Members,
             \/ PrepareGeneration(m) \/ PersistChecks(m) \/ GiveUp(m)
             \/ DemoteReviewer(m) \/ \E s \in BriefState : PersistWrites(m, s)
             \/ \E w \in Proposals : \/ OpenReview(m, w) \/ BeginReserve(m, w)
                                     \/ BeginSubmit(m, w)
      PROVE  FALSE
  BY <1>3 DEF PrepareGeneration, PersistChecks, GiveUp, DemoteReviewer, PersistWrites,
              OpenReview, BeginReserve, BeginSubmit
<1>4. ASSUME \/ CaseCommand \/ ImportReadsCase \/ ImportAppends \/ ChangeRules
             \/ ChangePolicy \/ UNCHANGED vars
             \/ \E w \in Proposals : HoldExpires(w)
      PROVE  FALSE
  BY <1>4 DEF CaseCommand, ImportReadsCase, ImportAppends, ChangeRules, ChangePolicy,
              HoldExpires, vars
<1>. QED BY <1>1, <1>2, <1>3, <1>4 DEF Next

\* An approval is given for the case, the policies, the rules and the brief the
\* analysis and the submission saw.
THEOREM ApprovalSeesNothingNewHolds == Spec => ApprovalSeesNothingNew
<1>. DEFINE Seen ==
       \A v \in Proposals :
         review'[v].status = "approved" /\ review[v].status # "approved" =>
           /\ case.version = brief[v].case + 1
           /\ policy = brief[v].policy
           /\ rules = review[v].rules
           /\ proposal.current = v
<1>1. Inv /\ SnapshotFollowsBrief /\ [Next]_vars => Seen
  <2>. SUFFICES ASSUME Inv, SnapshotFollowsBrief, [Next]_vars, NEW v \in Proposals,
                       review'[v].status = "approved", review[v].status # "approved"
                PROVE  /\ case.version = brief[v].case + 1
                       /\ policy = brief[v].policy
                       /\ rules = review[v].rules
                       /\ proposal.current = v
    OBVIOUS
  <2>1. PICK m \in Members : Decide(m, v, "approve")
    BY OnlyDecideApproves
  <2>2. Fresh(v) /\ RulesMatch(v) /\ brief[v].state = "ready_for_review" /\ Held(v)
    BY <2>1 DEF Decide, MayDecide, Held
  <2>3. Exists(v)
    BY <2>2 DEF Inv, HoldMatchesStatus, Exists
  <2>. QED BY <2>2, <2>3 DEF Fresh, RulesMatch, SnapshotFollowsBrief
<1>. QED BY <1>1, ReviewInvariance, SnapshotFollowsBriefHolds, PTL
         DEF Spec, ApprovalSeesNothingNew

-----------------------------------------------------------------------------
(* Without inbox imports the case version never goes back *)

\* No import ever begins.
NoImport == importing = 0

\* What keeps a single review live.
LiveInv == NoImport /\ OneLiveReview /\ LiveReviewHoldsCase

\* Without inbox imports every step preserves what OneLiveReview rests on.
LEMMA LiveInvNext ==
  ASSUME MaxMessages = 0, Inv, LiveInv, [Next]_vars
  PROVE  LiveInv'
<1>1. case.version \in Nat /\ \A w \in Proposals : review[w].case \in Nat
  BY DEF Inv, TypeOK, Reviews
<1>2. StepKind /\ ~ImportAppends
  BY StepKinds DEF ImportAppends, LiveInv, NoImport
<1>3. NoImport'
  <2>1. ~ImportReadsCase
    BY DEF ImportReadsCase, Inv, TypeOK
  <2>. USE DEF inboxVars
  <2>2. ASSUME NEW m \in Members,
               \/ PrepareGeneration(m) \/ PersistChecks(m) \/ GiveUp(m)
               \/ DemoteReviewer(m) \/ \E s \in BriefState : PersistWrites(m, s)
        PROVE  importing' = importing
    BY <2>2 DEF PrepareGeneration, PersistChecks, GiveUp, DemoteReviewer, PersistWrites
  <2>3. ASSUME NEW m \in Members, NEW v \in Proposals,
               \/ Submit(m, v) \/ OpenReview(m, v) \/ GetReview(m, v)
               \/ ListReviews(m, v) \/ BeginReserve(m, v) \/ Reserve(m, v)
               \/ BeginSubmit(m, v) \/ \E d \in Decision : Decide(m, v, d)
        PROVE  importing' = importing
    BY <2>3 DEF BeginSubmit, Submit, OpenReview, GetReview, ListReviews, BeginReserve, Reserve,
                Decide
  <2>4. ASSUME \/ CaseCommand \/ ChangeRules \/ ChangePolicy \/ UNCHANGED vars
               \/ \E v \in Proposals : HoldExpires(v)
        PROVE  importing' = importing
    BY <2>4 DEF CaseCommand, ChangeRules, ChangePolicy, HoldExpires, vars
  <2>5. importing' = importing
    BY <1>2, <2>1, <2>2, <2>3, <2>4 DEF Next
  <2>. QED BY <2>5 DEF LiveInv, NoImport
<1>4. CASE case' = case /\ \A w \in Proposals : Advances(w, StaysOrApproved)
  <2>1. \A w \in Proposals :
          /\ review'[w].case = review[w].case
          /\ Exists(w)' => Exists(w)
          /\ review'[w].status # review[w].status
               => Exists(w) /\ review'[w].status \in StaysOrApproved
    BY <1>4, AdvanceFacts DEF Exists, OpenStatus
  <2>2. OneLiveReview'
    BY <1>4, <2>1 DEF LiveInv, OneLiveReview
  <2>3. LiveReviewHoldsCase'
    BY <1>4, <2>1 DEF LiveInv, LiveReviewHoldsCase, Live, StaysOrApproved
  <2>. QED BY <1>3, <2>2, <2>3 DEF LiveInv
<1>5. CASE case'.version = case.version + 1
           /\ \A w \in Proposals : Advances(w, TerminalStatus)
  <2>1. \A w \in Proposals : review'[w].case = review[w].case
                             /\ (Exists(w)' => Exists(w))
    BY <1>5, AdvanceFacts DEF Exists, OpenStatus
  <2>2. OneLiveReview'
    BY <1>1, <1>5, <2>1 DEF LiveInv, OneLiveReview
  <2>3. \A w \in Proposals : ~Live(w)'
    BY <1>1, <1>5, <2>1 DEF LiveInv, OneLiveReview, Live
  <2>. QED BY <1>3, <2>2, <2>3 DEF LiveInv, LiveReviewHoldsCase
<1>6. ASSUME NEW m \in Members, NEW v \in Proposals, Submit(m, v)
      PROVE  LiveInv'
  <2>1. /\ case'.version = case.version + 1 /\ case'.status = "needs_review"
        /\ review'[v].case = case.version + 1
        /\ review'[v].status = "pending"
        /\ \A w \in Proposals : w # v => review'[w] = review[w]
    BY <1>6 DEF Submit, SubmittedCase, Inv, TypeOK
  <2>2. OneLiveReview'
    BY <1>1, <2>1 DEF LiveInv, OneLiveReview, Exists
  <2>3. \A w \in Proposals : Live(w)' => w = v
    BY <1>1, <2>1 DEF LiveInv, OneLiveReview, Live
  <2>4. LiveReviewHoldsCase'
    BY <2>1, <2>3 DEF LiveReviewHoldsCase, OpenStatus
  <2>. QED BY <1>3, <2>2, <2>4 DEF LiveInv
<1>. QED BY <1>2, <1>4, <1>5, <1>6 DEF StepKind

\* As long as no message is imported, at most one review of a case is live,
\* and it holds the case.
THEOREM LiveReviewIsSoleHolds ==
  ASSUME MaxMessages = 0
  PROVE  Spec => []LiveReviewIsSole
<1>1. Init => LiveInv
  <2>1. ASSUME Init PROVE LiveInv
    <3>1. \A w \in Proposals : review[w].status = "none" /\ review[w].case = 0
      BY <2>1 DEF Init, NoReview
    <3>2. importing = 0 /\ case.version = 1
      BY <2>1 DEF Init
    <3>. QED BY <3>1, <3>2 DEF LiveInv, NoImport, OneLiveReview, LiveReviewHoldsCase,
                               Live, Exists
  <2>. QED BY <2>1
<1>2. Inv /\ LiveInv /\ [Next]_vars => LiveInv'
  BY LiveInvNext
<1>3. LiveInv => LiveReviewIsSole
  BY DEF LiveInv, LiveReviewIsSole
<1>. QED BY <1>1, <1>2, <1>3, ReviewInvariance, PTL DEF Spec

=============================================================================
