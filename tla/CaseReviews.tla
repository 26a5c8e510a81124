---------------------------- MODULE CaseReviews ----------------------------
(***************************************************************************)
(* One case on its way to an approved resolution: its decision briefs (the *)
(* versions of one proposal), the review of each version with its 30-      *)
(* minute hold and its single final decision, and everything that makes a  *)
(* review stale (persistence/reviews, services/review_service.py,          *)
(* persistence/decision_brief_writer.py, persistence/case_persistence).    *)
(*                                                                         *)
(* A transaction that locks the rows it decides on before it reads them is *)
(* one step.  Where the code reads a row without a lock and relies on what *)
(* it read later in the same transaction, the read is a step of its own:   *)
(* the checks before a submission and before a reservation, the review row *)
(* a detail read sweeps, the case and proposal rows a brief is checked     *)
(* against, and the case row an inbox import counts up.                    *)
(***************************************************************************)
EXTENDS Naturals, FiniteSets

CONSTANTS
  Members,           \* active members of the organization
  NoMember,          \* the holder of a review nobody holds
  Authors,           \* bound: members who prepare and submit briefs
  Demotable,         \* bound: members whose role may be taken away
  MaxCaseVersion,    \* bound: case version up to which commands are issued
  MaxProposals,      \* bound: versions of the proposal
  MaxReviewVersion,  \* bound: review version up to which reservations are made
  MaxRules,          \* bound: versions of the approval settings
  MaxPolicies,       \* bound: states of the policy authority
  MaxMessages        \* bound: inbox messages imported

ASSUME NoMemberAssumption == NoMember \notin Members
ASSUME AuthorsAssumption == Authors \subseteq Members
ASSUME DemotableAssumption == Demotable \subseteq Members
ASSUME BoundsAssumption ==
  /\ {MaxCaseVersion, MaxProposals, MaxReviewVersion, MaxRules, MaxPolicies}
       \subseteq Nat \ {0}
  /\ MaxMessages \in Nat

VARIABLES
  case,       \* CaseModel: version and status
  messages,   \* inbox messages appended to the conversation
  importing,  \* case version an import in progress has loaded, 0 if none runs
  proposal,   \* CaseProposalModel: current_version, version (root), state
  brief,      \* CaseProposalVersionModel and its run, by proposal version
  review,     \* CaseReviewModel with its snapshot, by proposal version
  hold,       \* the active CaseReviewReservationModel of each review
  decisions,  \* the CaseReviewDecisionModel rows of each review
  rules,      \* version of the approval settings
  policy,     \* what the governed policies say, as a number that moves on
  reviewers,  \* members whose role satisfies the required role
  seen,       \* the review version each member's screen shows
  txn         \* each member's transaction between an unlocked read and its use

inboxVars == <<messages, importing>>
reviewVars == <<review, hold, decisions>>
authority == <<rules, policy, reviewers>>
vars == <<case, inboxVars, proposal, brief, reviewVars, authority, seen, txn>>

-----------------------------------------------------------------------------
(* Values *)

CaseStatus == {"new", "investigating", "information_needed", "needs_review",
               "waiting_customer", "in_progress", "completed"}

\* Where change_status may take a case.
CaseTransitions ==
  [new                |-> {"investigating", "information_needed"},
   investigating      |-> {"information_needed", "needs_review",
                           "waiting_customer", "in_progress"},
   information_needed |-> {"investigating", "waiting_customer"},
   needs_review       |-> {"in_progress", "investigating"},
   waiting_customer   |-> {"investigating", "information_needed"},
   in_progress        |-> {"completed", "information_needed", "needs_review"},
   completed          |-> {}]

Decision == {"approve", "request_changes", "reject", "escalate"}
OpenStatus == {"pending", "reserved"}
TerminalStatus == {"approved", "changes_requested", "rejected", "escalated"}
ReviewStatus == {"none"} \union OpenStatus \union TerminalStatus
BriefState == {"ready_for_review", "information_needed"}
ProposalState == BriefState \union {"none", "under_review", "approved", "rejected"}

\* _review_status
StatusOf(d) == [approve         |-> "approved",
                request_changes |-> "changes_requested",
                reject          |-> "rejected",
                escalate        |-> "escalated"][d]

\* Mutant of StateOf: the proposal gets the name of the review status.
StateNamedLikeStatus(d) == StatusOf(d)

\* _proposal_state
StateOf(d) == [approve         |-> "approved",
               request_changes |-> "information_needed",
               reject          |-> "rejected",
               escalate        |-> "under_review"][d]

Proposals == 1 .. MaxProposals

Briefs == [case : Nat, policy : Nat, state : BriefState]
NoBrief == [case |-> 0, policy |-> 0, state |-> "information_needed"]

Reviews == [status    : ReviewStatus,
            version   : Nat,
            case      : Nat,
            rules     : Nat,
            submitter : Members \union {NoMember},
            messages  : Nat]
NoReview == [status |-> "none", version |-> 0, case |-> 0, rules |-> 0,
             submitter |-> NoMember, messages |-> 0]

Holds == [holder : Members \union {NoMember}, expired : BOOLEAN]
Free == [holder |-> NoMember, expired |-> FALSE]

Transactions ==
  [step : {"idle"}]
    \union [step : {"opened"}, review : Proposals, status : ReviewStatus,
            version : Nat]
    \union [step : {"reserving"}, review : Proposals]
    \union [step : {"submitting"}, review : Proposals, case : Nat, rules : Nat]
    \union [step : {"analysing"}, case : Nat, policy : Nat]
    \union [step : {"writing"}, case : Nat, policy : Nat, root : Nat]
Idle == [step |-> "idle"]

Screens == [review : Nat, version : Nat]

-----------------------------------------------------------------------------
(* Init: a case under investigation without a proposal.  Its versions are  *)
(* counted from there.                                                     *)

Init ==
  /\ case = [version |-> 1, status |-> "investigating"]
  /\ messages = 0
  /\ importing = 0
  /\ proposal = [current |-> 0, root |-> 0, state |-> "none"]
  /\ brief = [v \in Proposals |-> NoBrief]
  /\ review = [v \in Proposals |-> NoReview]
  /\ hold = [v \in Proposals |-> Free]
  /\ decisions = [v \in Proposals |-> {}]
  /\ rules = 1
  /\ policy = 1
  /\ reviewers = Members
  /\ seen = [m \in Members |-> [review |-> 0, version |-> 0]]
  /\ txn = [m \in Members |-> Idle]

-----------------------------------------------------------------------------
(* Pieces shared by the handlers *)

Held(v) == hold[v].holder # NoMember

\* The reservations _reconcile_expired locks for review v.
HoldHasExpired(v) == Held(v) /\ hold[v].expired

\* Mutant of Fresh: the policies are not looked at again.
FreshCaseOnly(v) ==
  /\ case.version = review[v].case
  /\ proposal.current = v

\* _freshness, without the approval rules.  Policy evidence is only looked at
\* where the brief rests on it.
Fresh(v) ==
  /\ case.version = review[v].case
  /\ proposal.current = v
  /\ brief[v].state = "ready_for_review" => brief[v].policy = policy

\* _require_approval_rule_version
RulesMatch(v) == rules = review[v].rules

\* Mutant of ProposalAfter: the state of an older version is written, too.
StateOfAnyVersion(v, state) ==
  [current |-> proposal.current, root |-> proposal.root + 1, state |-> state]

\* _set_proposal_state: only while v is the current version.
ProposalAfter(v, state) ==
  IF proposal.current = v
    THEN [current |-> v, root |-> proposal.root + 1, state |-> state]
    ELSE proposal

\* The review row with another status and version; its snapshot is immutable.
Moved(v, status, version) ==
  [status |-> status, version |-> version, case |-> review[v].case,
   rules |-> review[v].rules, submitter |-> review[v].submitter,
   messages |-> review[v].messages]

MayBegin(m) == txn[m] = Idle

-----------------------------------------------------------------------------
(* Decision briefs *)

\* prepare_generation, first transaction: the case is read and the analysis
\* starts.  The same input may be prepared again: a brief without its AI
\* narrative is not reused.
PrepareGeneration(m) ==
  /\ MayBegin(m) /\ m \in Authors
  /\ proposal.current < MaxProposals
  /\ case.status # "completed"
  /\ txn' = [txn EXCEPT ![m] =
       [step |-> "analysing", case |-> case.version, policy |-> policy]]
  /\ UNCHANGED <<case, inboxVars, proposal, brief, reviewVars, authority, seen>>

\* persist_generation and create_or_get up to the reads: the evidence is still
\* current, the case has not moved, and the proposal root is read.  No row is
\* locked.
PersistChecks(m) ==
  /\ txn[m].step = "analysing"
  /\ txn[m].policy = policy
  /\ txn[m].case = case.version
  /\ txn' = [txn EXCEPT ![m] =
       [step |-> "writing", case |-> @.case, policy |-> @.policy,
        root |-> proposal.root]]
  /\ UNCHANGED <<case, inboxVars, proposal, brief, reviewVars, authority, seen>>

\* The update of the proposal root finds the version it read.
RootUnmoved(m) == txn[m].root = proposal.root

\* create_or_get, the writes.
PersistWrites(m, state) ==
  LET n == proposal.current + 1 IN
  /\ txn[m].step = "writing"
  /\ RootUnmoved(m)
  /\ n \in Proposals
  /\ proposal' = [current |-> n, root |-> proposal.root + 1, state |-> state]
  /\ brief' = [brief EXCEPT ![n] =
       [case |-> txn[m].case, policy |-> txn[m].policy, state |-> state]]
  /\ txn' = [txn EXCEPT ![m] = Idle]
  /\ UNCHANGED <<case, inboxVars, reviewVars, authority, seen>>

\* Any refusal, conflict, exception or crash: nothing was committed.
GiveUp(m) ==
  /\ txn[m] # Idle
  /\ txn' = [txn EXCEPT ![m] = Idle]
  /\ UNCHANGED <<case, inboxVars, proposal, brief, reviewVars, authority, seen>>

-----------------------------------------------------------------------------
(* Reviews *)

\* Mutant of SubmittedCase: the version stays.
SubmittedStatusOnly == [version |-> case.version, status |-> "needs_review"]

\* The case status and version once the case is submitted for review.
SubmittedCase == [version |-> case.version + 1, status |-> "needs_review"]

\* submit of the service up to the repository call: case, brief, policy evidence
\* and approval settings are read without a lock.
BeginSubmit(m, v) ==
  /\ MayBegin(m) /\ m \in Authors
  /\ review[v].status = "none"
  /\ case.status \in {"investigating", "in_progress"}
  /\ proposal.current = v
  /\ brief[v].case = case.version
  /\ brief[v].policy = policy
  /\ txn' = [txn EXCEPT ![m] =
       [step |-> "submitting", review |-> v, case |-> case.version, rules |-> rules]]
  /\ UNCHANGED <<case, inboxVars, proposal, brief, reviewVars, authority, seen>>

\* submit of the repository, under the lock of the case row.
Submit(m, v) ==
  /\ txn[m].step = "submitting"
  /\ v = txn[m].review
  /\ review[v].status = "none"
  /\ rules = txn[m].rules
  /\ proposal.current = v
  /\ case.version = txn[m].case
  /\ case' = SubmittedCase
  /\ review' = [review EXCEPT ![v] =
       [status |-> "pending", version |-> 1, case |-> case.version + 1,
        rules |-> rules, submitter |-> m, messages |-> messages]]
  /\ seen' = [seen EXCEPT ![m] = [review |-> v, version |-> 1]]
  /\ txn' = [txn EXCEPT ![m] = Idle]
  /\ UNCHANGED <<inboxVars, proposal, brief, hold, decisions, authority>>

\* Mutant of ReturnedToQueue: the version stays.
ReturnedUncounted(v, loaded) ==
  IF loaded.status = "reserved" THEN Moved(v, "pending", review[v].version)
                                ELSE review[v]

\* Mutant of ReturnedToQueue: only the hold is expired.
StaysReserved(v, loaded) == review[v]

\* The review row after the expiry of its hold, from the row as it was loaded.
ReturnedToQueue(v, loaded) ==
  IF loaded.status = "reserved" THEN Moved(v, "pending", loaded.version + 1)
                                ELSE review[v]

\* get, first statement: the review row is loaded without a lock.
OpenReview(m, v) ==
  /\ MayBegin(m)
  /\ review[v].status # "none"
  /\ txn' = [txn EXCEPT ![m] =
       [step |-> "opened", review |-> v, status |-> review[v].status,
        version |-> review[v].version]]
  /\ UNCHANGED <<case, inboxVars, proposal, brief, reviewVars, authority, seen>>

\* get, the rest: an expired hold is locked and swept; what is written to the
\* review row is computed from the row as it was loaded.
GetReview(m, v) ==
  /\ txn[m].step = "opened"
  /\ v = txn[m].review
  /\ \/ /\ HoldHasExpired(v)
        /\ hold' = [hold EXCEPT ![v] = Free]
        /\ review' = [review EXCEPT ![v] = ReturnedToQueue(v, txn[m])]
        /\ proposal' = IF txn[m].status = "reserved"
                         THEN ProposalAfter(v, brief[v].state)
                         ELSE proposal
        /\ seen' = [seen EXCEPT ![m] =
             [review |-> v, version |-> review'[v].version]]
     \/ /\ ~HoldHasExpired(v)
        /\ seen' = [seen EXCEPT ![m] =
             [review |-> v, version |-> txn[m].version]]
        /\ UNCHANGED <<hold, review, proposal>>
  /\ txn' = [txn EXCEPT ![m] = Idle]
  /\ UNCHANGED <<case, inboxVars, brief, decisions, authority>>

\* list: every expired hold is swept, and each review row is loaded after its
\* hold is locked.  The member goes on with review v.
ListReviews(m, v) ==
  LET swept == {w \in Proposals : HoldHasExpired(w)} IN
  /\ MayBegin(m)
  /\ review[v].status # "none"
  /\ hold' = [w \in Proposals |-> IF w \in swept THEN Free ELSE hold[w]]
  /\ review' = [w \in Proposals |->
       IF w \in swept THEN ReturnedToQueue(w, review[w]) ELSE review[w]]
  /\ proposal' = IF \E w \in swept : proposal.current = w
                                     /\ review[w].status = "reserved"
                   THEN ProposalAfter(proposal.current, brief[proposal.current].state)
                   ELSE proposal
  /\ seen' = [seen EXCEPT ![m] = [review |-> v, version |-> review'[v].version]]
  /\ UNCHANGED <<case, inboxVars, brief, decisions, authority, txn>>

\* reserve of the service up to the repository call: freshness, rules and role
\* are checked on rows that are not locked.
BeginReserve(m, v) ==
  /\ MayBegin(m)
  /\ review[v].status # "none"
  /\ Fresh(v)
  /\ RulesMatch(v)
  /\ m \in reviewers
  /\ txn' = [txn EXCEPT ![m] = [step |-> "reserving", review |-> v]]
  /\ UNCHANGED <<case, inboxVars, proposal, brief, reviewVars, authority, seen>>

\* reserve of the repository, under the lock of the review row.  A hold of
\* one's own is returned as it is, another's is a conflict, and a hold it has
\* to expire first moves the version the member expects: none of them gets
\* here.
Reserve(m, v) ==
  /\ txn[m].step = "reserving"
  /\ v = txn[m].review
  /\ seen[m] = [review |-> v, version |-> review[v].version]
  /\ review[v].status \notin TerminalStatus
  /\ ~Held(v)
  /\ m # review[v].submitter
  /\ RulesMatch(v)
  /\ review[v].version <= MaxReviewVersion
  /\ hold' = [hold EXCEPT ![v] = [holder |-> m, expired |-> FALSE]]
  /\ review' = [review EXCEPT ![v] = Moved(v, "reserved", @.version + 1)]
  /\ proposal' = ProposalAfter(v, "under_review")
  /\ seen' = [seen EXCEPT ![m] = [review |-> v, version |-> review'[v].version]]
  /\ txn' = [txn EXCEPT ![m] = Idle]
  /\ UNCHANGED <<case, inboxVars, brief, decisions, authority>>

\* Mutant of MayDecide: whoever may review decides, holding the review or not.
AnyReviewerDecides(m, v, d) ==
  /\ MayBegin(m)
  /\ seen[m] = [review |-> v, version |-> review[v].version]
  /\ review[v].status \notin TerminalStatus
  /\ RulesMatch(v)
  /\ m \in reviewers
  /\ Fresh(v)
  /\ d = "approve" => brief[v].state = "ready_for_review"

\* The locks and comparisons decide makes before it writes.
MayDecide(m, v, d) ==
  /\ MayBegin(m)
  /\ seen[m] = [review |-> v, version |-> review[v].version]
  /\ review[v].status \notin TerminalStatus
  /\ RulesMatch(v)
  /\ hold[v] = [holder |-> m, expired |-> FALSE]
  /\ m \in reviewers
  /\ Fresh(v)
  /\ d = "approve" => brief[v].state = "ready_for_review"

\* _advance_case_after_decision
CaseAfter(d) ==
  IF d = "approve" THEN case
  ELSE [version |-> case.version + 1,
        status  |-> IF d = "escalate" THEN "needs_review" ELSE "investigating"]

\* What becomes of the hold a decision was made under.
ConsumedHold(v) == [hold EXCEPT ![v] = Free]

\* decide, with the publication of the approved draft and the materialization
\* of the actions in the same transaction.
Decide(m, v, d) ==
  /\ MayDecide(m, v, d)
  /\ decisions' = [decisions EXCEPT ![v] = @ \union {[reviewer |-> m, decision |-> d]}]
  /\ hold' = ConsumedHold(v)
  /\ review' = [review EXCEPT ![v] = Moved(v, StatusOf(d), @.version + 1)]
  /\ case' = CaseAfter(d)
  /\ proposal' = ProposalAfter(v, StateOf(d))
  /\ seen' = [seen EXCEPT ![m] = [review |-> v, version |-> review'[v].version]]
  /\ UNCHANGED <<inboxVars, brief, authority, txn>>

\* Thirty minutes pass.  A transaction is shorter than that: none that loaded
\* the review before the hold was placed is still open.
HoldExpires(v) ==
  /\ Held(v)
  /\ ~hold[v].expired
  /\ \A m \in Members :
       txn[m].step = "opened" /\ txn[m].review = v
         => txn[m].version = review[v].version
  /\ hold' = [hold EXCEPT ![v] = [holder |-> @.holder, expired |-> TRUE]]
  /\ UNCHANGED <<case, inboxVars, proposal, brief, review, decisions, authority,
                 seen, txn>>

-----------------------------------------------------------------------------
(* The case, the inbox, the settings, the policies and the roles *)

\* _update_case, for assign, change_status, add_message and
\* add_business_evidence: compare and set of the version.  The completion of an
\* action is one of these, too.
CaseCommand ==
  /\ case.version < MaxCaseVersion
  /\ \E s \in {case.status} \union CaseTransitions[case.status] :
       case' = [version |-> case.version + 1, status |-> s]
  /\ UNCHANGED <<inboxVars, proposal, brief, reviewVars, authority, seen, txn>>

\* append_message, the unlocked _required_case.
ImportReadsCase ==
  /\ importing = 0
  /\ messages < MaxMessages
  /\ importing' = case.version
  /\ UNCHANGED <<case, messages, proposal, brief, reviewVars, authority, seen, txn>>

\* The case version append_message writes.  The locking select finds the row
\* already loaded in the session and does not refresh it, so the version is
\* counted up from the first, unlocked read.
ImportedVersion == importing + 1

\* append_message, the rest.
ImportAppends ==
  /\ importing # 0
  /\ case' = [version |-> ImportedVersion, status |-> case.status]
  /\ messages' = messages + 1
  /\ importing' = 0
  /\ UNCHANGED <<proposal, brief, reviewVars, authority, seen, txn>>

\* The approval settings are saved.
ChangeRules ==
  /\ rules < MaxRules
  /\ rules' = rules + 1
  /\ UNCHANGED <<case, inboxVars, proposal, brief, reviewVars, policy, reviewers,
                 seen, txn>>

\* A policy is published, superseded, retired or runs out.
ChangePolicy ==
  /\ policy < MaxPolicies
  /\ policy' = policy + 1
  /\ UNCHANGED <<case, inboxVars, proposal, brief, reviewVars, rules, reviewers,
                 seen, txn>>

\* An administrator takes the role away.
DemoteReviewer(m) ==
  /\ m \in reviewers \intersect Demotable
  /\ reviewers' = reviewers \ {m}
  /\ UNCHANGED <<case, inboxVars, proposal, brief, reviewVars, rules, policy,
                 seen, txn>>

-----------------------------------------------------------------------------
Next ==
  \/ \E m \in Members :
       \/ PrepareGeneration(m)
       \/ PersistChecks(m)
       \/ \E s \in BriefState : PersistWrites(m, s)
       \/ GiveUp(m)
       \/ DemoteReviewer(m)
  \/ \E m \in Members, v \in Proposals :
       \/ BeginSubmit(m, v)
       \/ Submit(m, v)
       \/ OpenReview(m, v)
       \/ GetReview(m, v)
       \/ ListReviews(m, v)
       \/ BeginReserve(m, v)
       \/ Reserve(m, v)
       \/ \E d \in Decision : Decide(m, v, d)
  \/ \E v \in Proposals : HoldExpires(v)
  \/ CaseCommand
  \/ ImportReadsCase
  \/ ImportAppends
  \/ ChangeRules
  \/ ChangePolicy

Spec == Init /\ [][Next]_vars

\* Time passes, transactions end, and somebody opens the review queue again
\* and again: strong fairness, because a member busy with another transaction in
\* this model may still open the queue in the program.  Nobody is obliged to
\* decide anything.
Fairness ==
  /\ \A v \in Proposals : WF_vars(HoldExpires(v))
  /\ \A m \in Members : WF_vars(\E v \in Proposals : GetReview(m, v))
                        /\ WF_vars(GiveUp(m))
  /\ SF_vars(\E m \in Members, v \in Proposals : ListReviews(m, v))

FairSpec == Spec /\ Fairness

-----------------------------------------------------------------------------
(* Properties *)

Exists(v) == review[v].status # "none"

\* The state is what the columns allow; a review row exists only for a version
\* of the proposal that was written.
TypeOK ==
  /\ case \in [version : Nat, status : CaseStatus]
  /\ messages \in Nat
  /\ importing \in Nat
  /\ proposal \in [current : 0 .. MaxProposals, root : Nat, state : ProposalState]
  /\ brief \in [Proposals -> Briefs]
  /\ review \in [Proposals -> Reviews]
  /\ hold \in [Proposals -> Holds]
  /\ decisions \in [Proposals -> SUBSET [reviewer : Members, decision : Decision]]
  /\ rules \in Nat
  /\ policy \in Nat
  /\ reviewers \subseteq Members
  /\ seen \in [Members -> Screens]
  /\ txn \in [Members -> Transactions]
  /\ \A v \in Proposals : Exists(v) => v <= proposal.current

\* A review is reserved exactly while one member holds it, and never its
\* submitter, although a hold is placed, consumed and swept by transactions
\* that load the review row before they lock the hold.
HoldMatchesStatus ==
  \A v \in Proposals :
    /\ review[v].status = "reserved" <=> Held(v)
    /\ Held(v) => hold[v].holder # review[v].submitter

\* The review row a detail read loaded without a lock is still the row it
\* writes back if it finds an expired hold to sweep: whatever changed the review
\* meanwhile also ended that hold, and every change moved the version.
LoadedRowStands ==
  \A m \in Members, v \in Proposals :
    txn[m].step = "opened" /\ txn[m].review = v =>
      /\ Exists(v)
      /\ txn[m].version <= review[v].version
      /\ txn[m].version = review[v].version => txn[m].status = review[v].status
      /\ HoldHasExpired(v) => txn[m].version = review[v].version

\* A review is decided exactly once: it has one decision when it is final and
\* none before, and the decision is not the submitter's.
DecidedOnce ==
  \A v \in Proposals :
    /\ review[v].status \in TerminalStatus <=> decisions[v] # {}
    /\ \A d, e \in decisions[v] : d = e
    /\ \A d \in decisions[v] :
         review[v].status = StatusOf(d.decision) /\ d.reviewer # review[v].submitter

\* Holds, rows loaded before them and decisions agree, whatever transactions
\* overlap: nobody decides a review another member holds, or decides it again.
HoldsAreSound == HoldMatchesStatus /\ LoadedRowStands /\ DecidedOnce

\* A decision is final and review versions only grow: no sweep of a hold, even
\* one computed from a row loaded earlier, takes a review back.
FinalStaysFinal ==
  [][\A v \in Proposals :
       /\ review[v].status \in TerminalStatus => review'[v] = review[v]
       /\ review'[v].version >= review[v].version
       /\ review'[v].status # review[v].status
            => review'[v].version = review[v].version + 1]_vars

\* What the proposal shows is what the review of its current version came to,
\* whichever of the brief, the reservation, the expiry and the decision wrote
\* last.
ShownState(v) == [none              |-> brief[v].state,
                  pending           |-> brief[v].state,
                  reserved          |-> "under_review",
                  approved          |-> "approved",
                  changes_requested |-> "information_needed",
                  rejected          |-> "rejected",
                  escalated         |-> "under_review"][review[v].status]

ProposalShowsReview ==
  \A v \in Proposals : proposal.current = v => proposal.state = ShownState(v)

\* A review is live while the case is still at the version its snapshot binds.
Live(v) == Exists(v) /\ review[v].case = case.version

\* At most one review of a case is live, and every snapshot was taken at or
\* before the case version there is now: no second review can authorize
\* actions for the same version of the case.
OneLiveReview ==
  /\ \A v, w \in Proposals :
       Exists(v) /\ Exists(w) /\ review[v].case = review[w].case => v = w
  /\ \A v \in Proposals : review[v].case <= case.version

\* While a review is live the case waits in needs_review and the review is
\* undecided or approved: every other decision, and every other command on the
\* case, ends it.
LiveReviewHoldsCase ==
  \A v \in Proposals :
    Live(v) => /\ case.status = "needs_review"
               /\ review[v].status \in OpenStatus \union {"approved"}

\* One review at most is live, and it holds the case.
LiveReviewIsSole == OneLiveReview /\ LiveReviewHoldsCase

\* An approval is given for what the analysis saw: between the analysis of a
\* brief and its approval the case has moved by its submission and nothing
\* else, no policy changed, the approval rules are those of the submission, and
\* no newer brief exists, although none of these rows stays locked in between.
ApprovalSeesNothingNew ==
  [][\A v \in Proposals :
       review'[v].status = "approved" /\ review[v].status # "approved" =>
         /\ case.version = brief[v].case + 1
         /\ policy = brief[v].policy
         /\ rules = review[v].rules
         /\ proposal.current = v]_vars

\* A review does not stay reserved: it is decided, or the hold runs out and the
\* review returns to the queue.
HoldEnds ==
  \A v \in Proposals :
    (review[v].status = "reserved") ~> (review[v].status # "reserved")

-----------------------------------------------------------------------------
(* What the documentation says and the code does not do *)

\* docs/backend/CONNECTED_INBOX_ARCHITECTURE.md:487, the control against a stale
\* approval, "New reply is answered using old review": a review that is still
\* live was submitted with every message of the conversation in view.
LiveReviewSawEveryMessage ==
  \A v \in Proposals : Live(v) => review[v].messages = messages

=============================================================================
