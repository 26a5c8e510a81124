------------------------------- MODULE CaseWork -------------------------------
(***************************************************************************)
(* The work on one case that came in through the signed webhook: intake,   *)
(* assignment, status, messages and evidence (services/case_service.py     *)
(* over persistence/case_persistence), and the commands its workspace      *)
(* offers (services/case_workspace_query.py).                              *)
(* A member's client sends the version it read, the service checks some    *)
(* commands in an unlocked read, and a conditional UPDATE on the version   *)
(* decides.                                                                *)
(* Briefs and reviews, detailed in DecisionGeneration and CaseReviews, are *)
(* single steps here; the response draft has a version of its own and is   *)
(* in DraftDelivery.  Mail is appended to inbox cases only, which the      *)
(* webhook never creates.                                                  *)
(***************************************************************************)
EXTENDS Integers, FiniteSets

CONSTANTS
  Colleagues,       \* active members who may manage cases, one request each
  EvidenceRefs,     \* type and source reference of a business record
  EvidenceTexts,    \* what a record says
  MaxCaseVersion    \* bound: versions written

VARIABLES
  caseStatus,    \* CaseModel.status, "absent" before the intake
  caseVersion,   \* .version
  owner,         \* .owner_id
  contexts,      \* BusinessObjectSnapshotModel rows, <<reference, text>>
  brief,         \* the current proposal version: NoBrief or a record
  waitingSince,  \* no case.status_changed event yet: "never"; else information since then: "no", "yes"
  command,       \* the command of each colleague that passed its check, "none" without one
  expected       \* the case version its client had read

caseRow == <<caseStatus, caseVersion, owner>>
caseRequests == <<command, expected>>
caseVars == <<caseRow, contexts, brief, waitingSince, caseRequests>>

CaseStatuses ==
  {"new", "investigating", "information_needed", "needs_review",
   "waiting_customer", "in_progress", "completed"}

\* CASE_TRANSITIONS
Transitions ==
  [s \in CaseStatuses |->
    CASE s = "new" -> {"investigating", "information_needed"}
      [] s = "investigating" -> {"information_needed", "needs_review", "waiting_customer", "in_progress"}
      [] s = "information_needed" -> {"investigating", "waiting_customer"}
      [] s = "needs_review" -> {"in_progress", "investigating"}
      [] s = "waiting_customer" -> {"investigating", "information_needed"}
      [] s = "in_progress" -> {"completed", "information_needed", "needs_review"}
      [] s = "completed" -> {}]

\* of: the case version it was prepared for; finding: what the analysis came to;
\* reviewed: the case version its review binds, 0 without a review; informed:
\* something arrived after run.completed_at.  Only a ready brief has an action
\* that needs a review, and without usable policy no brief is ready
\* (module DecisionEngine).
NoBrief == [of |-> 0]
Findings == {"ready_for_review", "information_needed", "policy_missing"}
Brief(v, finding) == [of |-> v, finding |-> finding, reviewed |-> 0, informed |-> FALSE]

Unassigned == "nobody"

CaseInit ==
  /\ caseStatus = "absent" /\ caseVersion = 0 /\ owner = Unassigned
  /\ contexts = {}
  /\ brief = NoBrief
  /\ waitingSince = "never"
  /\ command = [m \in Colleagues |-> "none"]
  /\ expected = [m \in Colleagues |-> 0]

-----------------------------------------------------------------------------
(* Intake *)

\* Events whose signature and age verify_webhook accepts, by the business
\* record they carry.
SignedEvents == EvidenceRefs \X EvidenceTexts

SeedCase(event) ==
  /\ caseStatus' = "new" /\ caseVersion' = 1
  /\ contexts' = {event}
  /\ UNCHANGED <<owner, brief, waitingSince, caseRequests>>

\* seed_case_with_status under the event's advisory lock.  A delivery of the
\* same event finds the case and writes nothing, whether it matches or not.
ReceiveCase(event) == caseStatus = "absent" /\ SeedCase(event)

-----------------------------------------------------------------------------
(* What the workspace offers *)

BriefExists == brief # NoBrief
BriefIsCurrent == BriefExists /\ brief.of = caseVersion
UnderWork == caseStatus \in {"investigating", "in_progress"}

\* _has_new_information
HasNewInformation == IF BriefExists THEN brief.informed ELSE waitingSince = "yes"

\* _brief_needs_preparation
BriefNeedsPreparation == UnderWork /\ ~BriefIsCurrent

\* _can_submit_or_escalate
CanSubmitOrEscalate == UnderWork /\ BriefIsCurrent /\ brief.reviewed = 0

\* Mutant of OffersEscalation: any unready brief may be escalated.
OffersAnyEscalation == CanSubmitOrEscalate /\ brief.finding # "ready_for_review"

OffersEscalation == CanSubmitOrEscalate /\ brief.finding = "policy_missing"

OffersSubmission == CanSubmitOrEscalate /\ brief.finding = "ready_for_review"

OffersRequest ==
  /\ "information_needed" \in Transitions[caseStatus]
  /\ BriefIsCurrent /\ brief.finding # "ready_for_review"

OffersResumption ==
  /\ caseStatus \in {"information_needed", "waiting_customer"}
  /\ "investigating" \in Transitions[caseStatus]
  /\ HasNewInformation

\* _available_commands
AvailableCommands ==
  {"send_reply", "add_note", "save_draft"}
  \union {c \in {"assign_to_me"} : owner = Unassigned}
  \union {c \in {"start_investigation"} : caseStatus = "new"}
  \union {c \in {"request_information"} : OffersRequest}
  \union {c \in {"resume_investigation"} : OffersResumption}
  \union {c \in {"add_evidence"} : caseStatus # "completed"}
  \union {c \in {"revise_resolution"} : caseStatus # "completed" /\ BriefNeedsPreparation}
  \union {c \in {"submit_for_review"} : OffersSubmission}
  \union {c \in {"escalate"} : OffersEscalation}

-----------------------------------------------------------------------------
(* Commands *)

\* What the client had read is the present version or an earlier one.  The
\* API takes more than the workspace offers.
VersionsRead == 1..caseVersion

\* require_case_transition and the completed check, on an unlocked read.
Passes(c) == IF c = "add_evidence" THEN caseStatus # "completed" ELSE c \in Transitions[caseStatus]

CheckedCommands == CaseStatuses \union {"add_evidence"}

CheckCase(m, c, v) ==
  /\ caseStatus # "absent" /\ command[m] = "none"
  /\ Passes(c)
  /\ command' = [command EXCEPT ![m] = c]
  /\ expected' = [expected EXCEPT ![m] = v]
  /\ UNCHANGED <<caseRow, contexts, brief, waitingSince>>

Answer(m) ==
  /\ command' = [command EXCEPT ![m] = "none"]
  /\ expected' = [expected EXCEPT ![m] = 0]

\* Mutant of VersionStands: the last writer wins.
VersionIgnored(v) == caseVersion < MaxCaseVersion

\* _update_case
VersionStands(v) == caseVersion = v /\ caseVersion < MaxCaseVersion

\* New information arrives after the brief and after the last status change.
Informs ==
  /\ brief' = IF BriefExists THEN [brief EXCEPT !.informed = TRUE] ELSE brief
  /\ waitingSince' = IF waitingSince = "no" THEN "yes" ELSE waitingSince

AssignToMe(m, v) ==
  /\ VersionStands(v)
  /\ owner' = m
  /\ caseVersion' = caseVersion + 1
  /\ UNCHANGED <<caseStatus, contexts, brief, waitingSince, caseRequests>>

ChangeStatus(m) ==
  /\ command[m] \in CaseStatuses /\ VersionStands(expected[m])
  /\ caseStatus' = command[m]
  /\ caseVersion' = caseVersion + 1
  /\ waitingSince' = "no"
  /\ Answer(m)
  /\ UNCHANGED <<owner, contexts, brief>>

\* A member's reply or note is no new information.
AddMessage(v) ==
  /\ VersionStands(v)
  /\ caseVersion' = caseVersion + 1
  /\ UNCHANGED <<caseStatus, owner, contexts, brief, waitingSince, caseRequests>>

\* A record of that type and reference that says the same answers the
\* request without a change; another one refuses it.
AddBusinessEvidence(m, ref, text) ==
  /\ command[m] = "add_evidence"
  /\ ~\E c \in contexts : c[1] = ref
  /\ VersionStands(expected[m])
  /\ caseVersion' = caseVersion + 1
  /\ contexts' = contexts \union {<<ref, text>>}
  /\ Informs
  /\ Answer(m)
  /\ UNCHANGED <<caseStatus, owner>>

\* prepare_generation to persist_generation
MayRevise(v) == caseVersion = v /\ caseStatus # "completed"

ReviseResolution(v, finding) ==
  /\ caseStatus # "absent" /\ MayRevise(v)
  /\ brief' = Brief(caseVersion, finding)
  /\ UNCHANGED <<caseRow, contexts, waitingSince, caseRequests>>

\* ReviewService.submit and require_review_submission
MaySubmit(v) ==
  /\ caseVersion = v /\ UnderWork
  /\ BriefExists /\ brief.of = v /\ brief.reviewed = 0
  /\ brief.finding \in {"ready_for_review", "policy_missing"}

SubmitForReview(v) ==
  /\ MaySubmit(v) /\ caseVersion < MaxCaseVersion
  /\ brief' = [brief EXCEPT !.reviewed = caseVersion + 1]
  /\ caseStatus' = "needs_review"
  /\ caseVersion' = caseVersion + 1
  /\ UNCHANGED <<owner, contexts, waitingSince, caseRequests>>

\* _advance_case_after_decision; an approval leaves the case to its actions.
ReviewDecided(decision) ==
  /\ BriefExists /\ brief.reviewed = caseVersion /\ caseStatus = "needs_review"
  /\ caseVersion < MaxCaseVersion
  /\ caseStatus' = IF decision = "escalate" THEN "needs_review" ELSE "investigating"
  /\ caseVersion' = caseVersion + 1
  /\ UNCHANGED <<owner, contexts, brief, waitingSince, caseRequests>>

\* _advance_case_after_completion of an action of the approved review
ActionCompleted ==
  /\ BriefExists /\ brief.reviewed # 0 /\ caseStatus = "needs_review"
  /\ caseVersion < MaxCaseVersion
  /\ caseStatus' = "in_progress"
  /\ caseVersion' = caseVersion + 1
  /\ UNCHANGED <<owner, contexts, brief, waitingSince, caseRequests>>

\* The version moved, a check refused, or the process ended.
CommandRefused(m) ==
  /\ command[m] # "none"
  /\ Answer(m)
  /\ UNCHANGED <<caseRow, contexts, brief, waitingSince>>

-----------------------------------------------------------------------------
CaseWorkNext ==
  \/ \E event \in SignedEvents : ReceiveCase(event)
  \/ \E v \in VersionsRead :
       \/ \E m \in Colleagues : AssignToMe(m, v) \/ (\E c \in CheckedCommands : CheckCase(m, c, v))
       \/ AddMessage(v) \/ SubmitForReview(v)
       \/ \E finding \in Findings : ReviseResolution(v, finding)
  \/ \E m \in Colleagues :
       \/ ChangeStatus(m) \/ CommandRefused(m)
       \/ \E ref \in EvidenceRefs, text \in EvidenceTexts : AddBusinessEvidence(m, ref, text)
  \/ \E decision \in {"request_changes", "reject", "escalate"} : ReviewDecided(decision)
  \/ ActionCompleted

-----------------------------------------------------------------------------
(* Properties *)

\* What a command does still fits the case it is done to, although the check
\* read the case before the update and without a lock: a member's status
\* change is one of CASE_TRANSITIONS, no record is added to a completed case,
\* and none is replaced.
CommandsFitTheCase ==
  [][/\ \A m \in Colleagues :
          command[m] # "none" /\ command'[m] = "none" /\ caseStatus' # caseStatus =>
            caseStatus' \in Transitions[caseStatus]
     /\ contexts' # contexts => caseStatus # "completed" /\ contexts \subseteq contexts']_caseVars

\* The command each offer stands for is accepted as long as nothing moves:
\* the workspace's conditions and the services' own agree.
OfferedIsAccepted ==
  caseStatus # "absent" =>
    /\ {"start_investigation", "resume_investigation"} \intersect AvailableCommands # {} =>
         "investigating" \in Transitions[caseStatus]
    /\ "request_information" \in AvailableCommands => "information_needed" \in Transitions[caseStatus]
    /\ "add_evidence" \in AvailableCommands => Passes("add_evidence")
    /\ "revise_resolution" \in AvailableCommands => MayRevise(caseVersion)
    /\ {"submit_for_review", "escalate"} \intersect AvailableCommands # {} => MaySubmit(caseVersion)

=============================================================================
