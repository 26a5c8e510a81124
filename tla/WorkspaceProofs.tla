--------------------------- MODULE WorkspaceProofs ---------------------------
(***************************************************************************)
(* Proofs about the parts of a workspace (members, invitations, settings,  *)
(* connections, cases, analysis and notices) for any sets of people, rows, *)
(* requests and events, and any bounds.  A part's lemmas speak of the      *)
(* part's own next-state relation; the theorems are about the workspace.   *)
(***************************************************************************)
EXTENDS MCWorkspace, FiniteSetTheorems, SequenceTheorems, TLAPS

(* Members, invitations and settings *)

OrgSteps ==
  {"idle", "updating", "configuring", "inviting", "inserted", "sent", "joining", "revoking", "withdrawing"}

OrgTypes ==
  /\ role \in [People -> MemberRole]
  /\ status \in [People -> MemberStatus]
  /\ invitedRole \in [Invitations -> MemberRole]
  /\ invitation \in [Invitations -> InvitationStatus]
  /\ step \in [OrgRequests -> OrgSteps]
  /\ subject \in [OrgRequests -> People \union {Nobody}]
  /\ row \in [OrgRequests -> Invitations \union {NoRow}]

\* A member is updated who had joined; nobody leaves for good.
UpdatesAMember ==
  \A r \in OrgRequests : step[r] = "updating" =>
    subject[r] \in People /\ status[subject[r]] # "absent"

Inserting(r) == step[r] \in {"inserted", "sent"}

\* An invitation that is not committed yet is nobody else's.
InsertedIsOwn ==
  /\ \A r \in OrgRequests : Inserting(r) => row[r] \in Invitations /\ invitation[row[r]] = "unused"
  /\ \A r, s \in OrgRequests : Inserting(r) /\ Inserting(s) /\ row[r] = row[s] => r = s

OrgInv ==
  /\ OrgTypes
  /\ AdministratorRemains
  /\ UpdatesAMember
  /\ InsertedIsOwn

-----------------------------------------------------------------------------
(* Connections *)

InboxTypes ==
  /\ signIn \in [SignIns -> {"none", "open", "consumed", "gone"}]
  /\ completions \in [SignIns -> {0, 1}]
  /\ credential \in [InboxRows -> SignIns \union {None}]
  /\ linked \in [InboxRows -> BOOLEAN]
  /\ connecting \in [InboxCommands ->
       {"idle", "exchanging", "granted", "storing", "resuming", "revoking", "deleting"}]
  /\ using \in [InboxCommands -> SignIns \union {None}]

\* The command holds a sign-in's code or grant and has not stored it.
HoldsGrant(r) == connecting[r] \in {"exchanging", "granted", "storing"}

\* A consumed sign-in is one command's until it is stored.
GrantsAreHeldOnce ==
  /\ \A r \in InboxCommands : HoldsGrant(r) =>
       using[r] \in SignIns /\ signIn[using[r]] = "consumed" /\ completions[using[r]] = 0
  /\ \A q, r \in InboxCommands : HoldsGrant(q) /\ HoldsGrant(r) /\ using[q] = using[r] => q = r
  /\ \A s \in SignIns : signIn[s] # "consumed" => completions[s] = 0

\* A stored credential is of a sign-in that was completed.
CredentialsWereCompleted == \A c \in InboxRows : credential[c] # None => completions[credential[c]] = 1

InboxInv ==
  /\ InboxTypes
  /\ GrantsAreHeldOnce
  /\ CredentialsWereCompleted
  /\ CredentialMatchesConnection

\* While versions are given out once, a version stands for a configuration.
TestsKnowTheirVersion ==
  ~overwrote => \A t \in Testers : testing[t] # <<>> =>
    /\ testing[t][2] \in Nat /\ testing[t][2] <= connectionVersion
    /\ testing[t][2] = connectionVersion => testing[t][1] = config

RuntimeInv ==
  /\ connectionVersion \in Nat
  /\ overwrote \in BOOLEAN
  /\ DOMAIN testing = Testers
  /\ starting # <<>> => starting[3] \in Nat
  /\ TestsKnowTheirVersion
  /\ HealthIsOfTheConfiguration

-----------------------------------------------------------------------------
(* Cases *)

CaseTypes ==
  /\ caseStatus \in CaseStatuses \union {"absent"}
  /\ caseVersion \in Nat
  /\ command \in [Colleagues -> CheckedCommands \union {"none"}]
  /\ expected \in [Colleagues -> Nat]

NothingBeforeIntake ==
  caseStatus = "absent" =>
    caseVersion = 0 /\ contexts = {} /\ \A m \in Colleagues : command[m] = "none"

\* What a check found holds as long as the version it was made for stands.
ChecksStand ==
  \A m \in Colleagues : command[m] # "none" =>
    /\ expected[m] <= caseVersion
    /\ expected[m] = caseVersion => Passes(command[m])

CaseInv ==
  /\ CaseTypes
  /\ NothingBeforeIntake
  /\ ChecksStand

-----------------------------------------------------------------------------
(* Notices *)

NoticeRows ==
  [recipient : Alerted, event : Happenings, by : Projections, status : {"unread", "read"}]

NoticeTypes ==
  /\ notices \subseteq NoticeRows
  /\ mailed \subseteq NoticeRows
  /\ unsaved \in [Projections -> SUBSET NoticeRows]

SameKey(n, o) == n.recipient = o.recipient /\ n.event = o.event

\* One row per recipient and event, committed or not, and mail goes out for
\* committed rows only.
KeysAreUnique ==
  /\ \A n, o \in notices : SameKey(n, o) => n = o
  /\ \A n, o \in mailed : SameKey(n, o) => n = o
  /\ \A n \in mailed : \E o \in notices : SameKey(n, o)
  /\ \A p \in Projections : \A n, o \in unsaved[p] : SameKey(n, o) => n = o
  /\ \A p \in Projections : \A n \in unsaved[p], o \in notices : ~SameKey(n, o)
  /\ \A p, q \in Projections : p # q => \A n \in unsaved[p], o \in unsaved[q] : ~SameKey(n, o)

NoticeInv == NoticeTypes /\ KeysAreUnique

-----------------------------------------------------------------------------
(* Analysis *)

\* What the engine may hand to the graph for an input.
Outcomes(w) ==
  {Analysis(w)}
  \union {Worded(Analysis(w), n) : n \in {m \in Narratives : w.policy = "relevant" /\ Kept(m)}}
  \union {Retained(Analysis(w), n) : n \in Narratives}

EngineInv ==
  /\ phase \in {"idle", "given", "analysed", "worded", "verified"}
  /\ phase # "idle" => input \in Inputs
  /\ phase = "analysed" => analysis = Analysis(input)
  /\ phase \in {"worded", "verified"} => analysis \in Outcomes(input)

-----------------------------------------------------------------------------
(* Proofs: members, invitations and settings *)

USE DEF MemberRole, MemberStatus, InvitationStatus

LEMMA OrgInitInv == OrgInit => OrgInv
<1>. SUFFICES ASSUME OrgInit
              PROVE  OrgInv
  OBVIOUS
<1>1. OrgTypes
  BY DEF OrgInit, OrgTypes, OrgSteps
<1>2. AdministratorRemains
  BY FoundersAssumption DEF OrgInit, AdministratorRemains, MayManage, Active
<1>3. UpdatesAMember /\ InsertedIsOwn
  BY DEF OrgInit, UpdatesAMember, InsertedIsOwn, Inserting
<1>. QED
  BY <1>1, <1>2, <1>3 DEF OrgInv

\* The answered request is idle and the others are as they were.
LEMMA Responded ==
  ASSUME OrgInv, NEW r \in OrgRequests, Respond(r)
  PROVE  /\ step' \in [OrgRequests -> OrgSteps]
         /\ subject' \in [OrgRequests -> People \union {Nobody}]
         /\ row' \in [OrgRequests -> Invitations \union {NoRow}]
         /\ step'[r] = "idle"
         /\ \A s \in OrgRequests : s # r => step'[s] = step[s] /\ subject'[s] = subject[s] /\ row'[s] = row[s]
BY DEF Respond, OrgInv, OrgTypes, OrgSteps

\* A request that ends and changes no member and no invitation.
LEMMA AnswerInv ==
  ASSUME OrgInv, NEW r \in OrgRequests, Respond(r), UNCHANGED <<role, status, invitedRole, invitation>>
  PROVE  OrgInv'
<1>1. OrgTypes'
  BY Responded DEF OrgInv, OrgTypes
<1>2. AdministratorRemains'
  BY DEF OrgInv, AdministratorRemains, MayManage, Active
<1>3. UpdatesAMember' /\ InsertedIsOwn'
  BY Responded DEF OrgInv, UpdatesAMember, InsertedIsOwn, Inserting
<1>. QED
  BY <1>1, <1>2, <1>3 DEF OrgInv

\* A request that begins; one to update a member has seen that it joined.
LEMMA AuthenticateInv ==
  ASSUME OrgInv, NEW r \in OrgRequests, NEW p, NEW q \in People \union {Nobody}, NEW v,
         NEW i \in Invitations \union {NoRow},
         NEW next_step \in {"updating", "configuring", "inviting", "joining", "revoking"},
         Authenticate(r, p, q, v, i, next_step),
         next_step = "updating" => q \in People /\ status[q] # "absent"
  PROVE  OrgInv'
<1>1. /\ step' = [step EXCEPT ![r] = next_step]
      /\ subject' = [subject EXCEPT ![r] = q]
      /\ row' = [row EXCEPT ![r] = i]
      /\ UNCHANGED <<role, status, invitedRole, invitation>>
  BY DEF Authenticate, members, invitations
<1>2. OrgTypes'
  BY <1>1 DEF OrgInv, OrgTypes, OrgSteps
<1>3. AdministratorRemains'
  BY <1>1 DEF OrgInv, AdministratorRemains, MayManage, Active
<1>4. /\ step'[r] = next_step /\ subject'[r] = q
      /\ \A s \in OrgRequests : s # r => step'[s] = step[s] /\ subject'[s] = subject[s] /\ row'[s] = row[s]
  BY <1>1 DEF OrgInv, OrgTypes
<1>5. UpdatesAMember' /\ InsertedIsOwn'
  BY <1>1, <1>4 DEF OrgInv, UpdatesAMember, InsertedIsOwn, Inserting
<1>. QED
  BY <1>2, <1>3, <1>5 DEF OrgInv

\* An administrator may lose its rights to another one only, and one remains.
LEMMA UpdateMemberInv ==
  ASSUME OrgInv, NEW r \in OrgRequests, NEW newRole \in MemberRole,
         NEW newStatus \in {"active", "deactivated"}, UpdateMember(r, newRole, newStatus)
  PROVE  OrgInv'
<1>1. PICK q : q = subject[r]
  OBVIOUS
<1>2. /\ step[r] = "updating"
      /\ MayManage(q) => OtherAdministrators(q) # {}
      /\ role' = [role EXCEPT ![q] = newRole]
      /\ status' = [status EXCEPT ![q] = newStatus]
      /\ Respond(r)
      /\ UNCHANGED <<invitedRole, invitation>>
  BY <1>1 DEF UpdateMember, invitations
<1>3. q \in People
  BY <1>1, <1>2 DEF OrgInv, UpdatesAMember
<1>4. OrgTypes'
  BY <1>2, Responded DEF OrgInv, OrgTypes
<1>5. \A p \in People \ {q} : role'[p] = role[p] /\ status'[p] = status[p]
  BY <1>2, <1>3 DEF OrgInv, OrgTypes
<1>6. AdministratorRemains'
  <2>1. \E p \in People \ {q} : MayManage(p)
    BY <1>2 DEF OrgInv, AdministratorRemains, OtherAdministrators
  <2>. QED
    BY <1>5, <2>1 DEF AdministratorRemains, MayManage, Active
<1>7. \A p \in People : status[p] # "absent" => status'[p] # "absent"
  BY <1>2, <1>3, <1>5 DEF OrgInv, OrgTypes
<1>8. UpdatesAMember'
  BY <1>2, <1>7, Responded DEF OrgInv, UpdatesAMember
<1>9. InsertedIsOwn'
  BY <1>2, Responded DEF OrgInv, InsertedIsOwn, Inserting
<1>. QED
  BY <1>4, <1>6, <1>8, <1>9 DEF OrgInv

\* An invitation is inserted, taken by the provider, committed or undone.
LEMMA InviteInv ==
  ASSUME OrgInv, NEW r \in OrgRequests,
         \/ \E i \in Invitations, newRole \in MemberRole : InsertInvitation(r, i, newRole)
         \/ SendInvitation(r) \/ CommitInvitation(r) \/ InvitationRolledBack(r)
  PROVE  OrgInv'
<1>1. CASE \E i \in Invitations, newRole \in MemberRole : InsertInvitation(r, i, newRole)
  <2>1. PICK i \in Invitations, newRole \in MemberRole : InsertInvitation(r, i, newRole)
    BY <1>1
  <2>2. /\ invitation[i] = "unused"
        /\ \A s \in OrgRequests : Inserting(s) => row[s] # i
        /\ step' = [step EXCEPT ![r] = "inserted"]
        /\ row' = [row EXCEPT ![r] = i]
        /\ invitedRole' = [invitedRole EXCEPT ![i] = newRole]
        /\ UNCHANGED <<role, status, invitation, subject>>
    BY <2>1 DEF InsertInvitation, members, Inserting
  <2>3. OrgTypes'
    BY <2>2 DEF OrgInv, OrgTypes, OrgSteps
  <2>4. AdministratorRemains'
    BY <2>2 DEF OrgInv, AdministratorRemains, MayManage, Active
  <2>5. /\ step'[r] = "inserted" /\ row'[r] = i
        /\ \A s \in OrgRequests : s # r => step'[s] = step[s] /\ row'[s] = row[s]
    BY <2>2 DEF OrgInv, OrgTypes
  <2>6. UpdatesAMember' /\ InsertedIsOwn'
    BY <2>2, <2>5 DEF OrgInv, UpdatesAMember, InsertedIsOwn, Inserting
  <2>. QED
    BY <2>3, <2>4, <2>6 DEF OrgInv
<1>2. CASE SendInvitation(r)
  <2>1. CASE Respond(r)
    BY <1>2, <2>1, AnswerInv DEF SendInvitation, members, invitations
  <2>2. CASE step' = [step EXCEPT ![r] = "sent"] /\ UNCHANGED <<actor, subject, seen, row, shares>>
    <3>1. step[r] = "inserted" /\ UNCHANGED <<role, status, invitedRole, invitation, subject, row>>
      BY <1>2, <2>2 DEF SendInvitation, members, invitations
    <3>2. OrgTypes'
      BY <2>2, <3>1 DEF OrgInv, OrgTypes, OrgSteps
    <3>3. AdministratorRemains'
      BY <3>1 DEF OrgInv, AdministratorRemains, MayManage, Active
    <3>4. \A s \in OrgRequests : /\ Inserting(s)' <=> Inserting(s)
                                 /\ step'[s] = "updating" <=> step[s] = "updating"
      BY <2>2, <3>1 DEF Inserting, OrgInv, OrgTypes
    <3>5. UpdatesAMember' /\ InsertedIsOwn'
      BY <3>1, <3>4 DEF OrgInv, UpdatesAMember, InsertedIsOwn
    <3>. QED
      BY <3>2, <3>3, <3>5 DEF OrgInv
  <2>. QED
    BY <1>2, <2>1, <2>2 DEF SendInvitation
<1>3. CASE CommitInvitation(r)
  <2>1. /\ Inserting(r) /\ Respond(r)
        /\ invitation' = [invitation EXCEPT ![row[r]] = "pending"]
        /\ UNCHANGED <<role, status, invitedRole>>
    BY <1>3 DEF CommitInvitation, Inserting, members
  <2>2. OrgTypes'
    BY <2>1, Responded DEF OrgInv, OrgTypes
  <2>3. AdministratorRemains'
    BY <2>1 DEF OrgInv, AdministratorRemains, MayManage, Active
  <2>4. UpdatesAMember'
    BY <2>1, Responded DEF OrgInv, UpdatesAMember
  <2>5. \A i \in Invitations : i # row[r] => invitation'[i] = invitation[i]
    BY <2>1 DEF OrgInv, OrgTypes
  <2>6. InsertedIsOwn'
    BY <2>1, <2>5, Responded DEF OrgInv, InsertedIsOwn, Inserting
  <2>. QED
    BY <2>2, <2>3, <2>4, <2>6 DEF OrgInv
<1>4. CASE InvitationRolledBack(r)
  BY <1>4, AnswerInv DEF InvitationRolledBack, members, invitations
<1>. QED
  BY <1>1, <1>2, <1>3, <1>4

\* A pending invitation is accepted or revoked.
LEMMA SettleInv ==
  ASSUME OrgInv, NEW r \in OrgRequests,
         AcceptInvitation(r) \/ RevokeInvitation(r) \/ WithdrawInvitation(r)
  PROVE  OrgInv'
<1>1. CASE AcceptInvitation(r)
  <2>1. PICK p : p = actor[r]
    OBVIOUS
  <2>2. PICK i \in Chosen(r) :
          /\ ~Active(p) /\ Respond(r)
          /\ invitation' = [invitation EXCEPT ![i] = "accepted"]
          /\ role' = [role EXCEPT ![p] = invitedRole[i]]
          /\ status' = [status EXCEPT ![p] = "active"]
          /\ UNCHANGED invitedRole
    BY <1>1, <2>1 DEF AcceptInvitation
  <2>3. i \in Invitations /\ invitation[i] = "pending"
    BY DEF Chosen, Offered, Pending
  <2>4. OrgTypes'
    BY <2>2, <2>3, Responded DEF OrgInv, OrgTypes
  <2>5. \A q \in People : q # p => role'[q] = role[q] /\ status'[q] = status[q]
    BY <2>2 DEF OrgInv, OrgTypes
  <2>6. AdministratorRemains'
    BY <2>2, <2>5 DEF OrgInv, AdministratorRemains, MayManage, Active
  <2>7. \A q \in People : status[q] # "absent" => status'[q] # "absent"
    BY <2>2, <2>5 DEF OrgInv, OrgTypes
  <2>8. UpdatesAMember'
    BY <2>2, <2>7, Responded DEF OrgInv, UpdatesAMember
  <2>9. \A j \in Invitations : invitation[j] = "unused" => invitation'[j] = "unused"
    BY <2>2, <2>3 DEF OrgInv, OrgTypes
  <2>10. InsertedIsOwn'
    BY <2>2, <2>9, Responded DEF OrgInv, InsertedIsOwn, Inserting
  <2>. QED
    BY <2>4, <2>6, <2>8, <2>10 DEF OrgInv
<1>2. CASE RevokeInvitation(r)
  <2>1. PICK i : i = row[r]
    OBVIOUS
  <2>2. /\ step[r] = "revoking" /\ invitation[i] = "pending"
        /\ invitation' = [invitation EXCEPT ![i] = "revoked"]
        /\ step' = [step EXCEPT ![r] = "withdrawing"]
        /\ UNCHANGED <<role, status, invitedRole, subject, row>>
    BY <1>2, <2>1 DEF RevokeInvitation, members
  <2>3. OrgTypes'
    BY <2>2 DEF OrgInv, OrgTypes, OrgSteps
  <2>4. AdministratorRemains'
    BY <2>2 DEF OrgInv, AdministratorRemains, MayManage, Active
  <2>5. \A s \in OrgRequests : /\ Inserting(s)' <=> Inserting(s)
                               /\ step'[s] = "updating" <=> step[s] = "updating"
    BY <2>2 DEF Inserting, OrgInv, OrgTypes
  <2>6. \A j \in Invitations : invitation[j] = "unused" => invitation'[j] = "unused"
    BY <2>2 DEF OrgInv, OrgTypes
  <2>7. UpdatesAMember' /\ InsertedIsOwn'
    BY <2>2, <2>5, <2>6 DEF OrgInv, UpdatesAMember, InsertedIsOwn
  <2>. QED
    BY <2>3, <2>4, <2>7 DEF OrgInv
<1>3. CASE WithdrawInvitation(r)
  BY <1>3, AnswerInv DEF WithdrawInvitation, members, invitations
<1>. QED
  BY <1>1, <1>2, <1>3

OrgStep == [MembersNext \/ SettingsNext]_orgVars

LEMMA OrgStepInv ==
  ASSUME OrgInv, OrgStep
  PROVE  OrgInv'
<1>1. ASSUME NEW r \in OrgRequests, UpdatesMember(r)
      PROVE  OrgInv'
  <2>1. CASE \E p, q \in People : BeginUpdateMember(r, p, q)
    <3>1. PICK p, q \in People : status[q] # "absent" /\ Authenticate(r, p, q, version[q], NoRow, "updating")
      BY <2>1 DEF BeginUpdateMember
    <3>2. PICK v : v = version[q]
      OBVIOUS
    <3>. QED
      BY <3>1, <3>2, AuthenticateInv
  <2>2. CASE \E newRole \in MemberRole, newStatus \in {"active", "deactivated"} :
               UpdateMember(r, newRole, newStatus)
    BY <2>2, UpdateMemberInv
  <2>. QED
    BY <1>1, <2>1, <2>2 DEF UpdatesMember
<1>2. ASSUME NEW r \in OrgRequests, UpdatesSettings(r)
      PROVE  OrgInv'
  <2>1. CASE \E p \in People : BeginUpdateSettings(r, p)
    <3>1. PICK p \in People : Authenticate(r, p, Nobody, settings, NoRow, "configuring")
      BY <2>1 DEF BeginUpdateSettings
    <3>2. PICK v : v = settings
      OBVIOUS
    <3>. QED
      BY <3>1, <3>2, AuthenticateInv
  <2>2. CASE UpdateSettings(r)
    BY <2>2, AnswerInv DEF UpdateSettings, members, invitations
  <2>. QED
    BY <1>2, <2>1, <2>2 DEF UpdatesSettings
<1>3. ASSUME NEW r \in OrgRequests, Invites(r)
      PROVE  OrgInv'
  <2>1. CASE \E p, q \in People : BeginInvite(r, p, q)
    BY <2>1, AuthenticateInv DEF BeginInvite
  <2>2. CASE \E p \in People, i \in Invitations : BeginRevoke(r, p, i)
    BY <2>2, AuthenticateInv DEF BeginRevoke
  <2>. QED
    BY <1>3, <2>1, <2>2, InviteInv, SettleInv DEF Invites
<1>4. ASSUME NEW r \in OrgRequests, Joins(r)
      PROVE  OrgInv'
  <2>1. CASE \E p \in People, hint \in Invitations \union {NoRow} : BeginAccept(r, p, hint)
    BY <2>1, AuthenticateInv DEF BeginAccept
  <2>. QED
    BY <1>4, <2>1, SettleInv DEF Joins
<1>5. ASSUME NEW r \in OrgRequests, OrgRequestEnds(r)
      PROVE  OrgInv'
  BY <1>5, AnswerInv DEF OrgRequestEnds, members, invitations
<1>6. CASE (\E i \in Invitations : InvitationExpires(i)) \/ UNCHANGED orgVars
  <2>1. UNCHANGED <<role, status, invitedRole, invitation, step, subject, row>>
    BY <1>6 DEF InvitationExpires, orgVars, members, invitations, requests
  <2>. QED
    BY <2>1 DEF OrgInv, OrgTypes, AdministratorRemains, MayManage, Active, UpdatesAMember,
                InsertedIsOwn, Inserting
<1>. QED
  BY <1>1, <1>2, <1>3, <1>4, <1>5, <1>6 DEF OrgStep, MembersNext, SettingsNext

\* What InvitationsSettle says of a step.
Settles ==
  /\ \A i \in Invitations : invitation[i] \in {"accepted", "revoked"} => invitation'[i] = invitation[i]
  /\ \A p \in People : status[p] = "absent" /\ status'[p] # "absent" =>
       \E i \in Invitations : /\ Pending(i, p) /\ ~expired[i]
                              /\ invitation'[i] = "accepted" /\ role'[p] = invitedRole[i]

LEMMA OrgStepSettles ==
  ASSUME OrgInv, OrgStep
  PROVE  Settles
<1>1. CASE UNCHANGED <<status, invitation>>
  BY <1>1 DEF Settles
<1>2. ASSUME NEW r \in OrgRequests, NEW newRole, NEW newStatus, UpdateMember(r, newRole, newStatus)
      PROVE  Settles
  <2>1. /\ subject[r] \in People /\ status[subject[r]] # "absent"
        /\ status' = [status EXCEPT ![subject[r]] = newStatus] /\ UNCHANGED invitation
    BY <1>2 DEF UpdateMember, invitations, OrgInv, UpdatesAMember
  <2>. QED
    BY <2>1 DEF Settles, OrgInv, OrgTypes
<1>3. ASSUME NEW r \in OrgRequests, CommitInvitation(r)
      PROVE  Settles
  <2>1. /\ Inserting(r) /\ invitation' = [invitation EXCEPT ![row[r]] = "pending"]
        /\ UNCHANGED status
    BY <1>3 DEF CommitInvitation, Inserting, members
  <2>2. invitation[row[r]] = "unused"
    BY <2>1 DEF OrgInv, InsertedIsOwn
  <2>. QED
    BY <2>1, <2>2 DEF Settles, OrgInv, OrgTypes
<1>4. ASSUME NEW r \in OrgRequests, RevokeInvitation(r)
      PROVE  Settles
  BY <1>4 DEF RevokeInvitation, members, Settles, OrgInv, OrgTypes
<1>5. ASSUME NEW r \in OrgRequests, AcceptInvitation(r)
      PROVE  Settles
  <2>1. PICK p : p = actor[r]
    OBVIOUS
  <2>2. PICK i \in Chosen(r) :
          /\ ~expired[i]
          /\ invitation' = [invitation EXCEPT ![i] = "accepted"]
          /\ role' = [role EXCEPT ![p] = invitedRole[i]]
          /\ status' = [status EXCEPT ![p] = "active"]
    BY <1>5, <2>1 DEF AcceptInvitation
  <2>3. i \in Invitations /\ Pending(i, p)
    BY <2>1 DEF Chosen, Offered
  <2>4. invitation[i] = "pending" /\ invitation'[i] = "accepted"
    BY <2>2, <2>3 DEF Pending, OrgInv, OrgTypes
  <2>5. \A j \in Invitations : j # i => invitation'[j] = invitation[j]
    BY <2>2 DEF OrgInv, OrgTypes
  <2>6. \A q \in People : status'[q] # status[q] => q = p /\ role'[q] = invitedRole[i]
    BY <2>2 DEF OrgInv, OrgTypes
  <2>. QED
    BY <2>2, <2>3, <2>4, <2>5, <2>6 DEF Settles
<1>6. ASSUME NEW r \in OrgRequests,
             UpdatesMember(r) \/ UpdatesSettings(r) \/ Invites(r) \/ Joins(r) \/ OrgRequestEnds(r)
      PROVE  Settles
  <2>1. \/ UNCHANGED <<status, invitation>>
        \/ \E newRole, newStatus : UpdateMember(r, newRole, newStatus)
        \/ CommitInvitation(r) \/ RevokeInvitation(r) \/ AcceptInvitation(r)
    <3>1. CASE UpdatesMember(r) \/ UpdatesSettings(r)
      BY <3>1 DEF UpdatesMember, UpdatesSettings, BeginUpdateMember, BeginUpdateSettings, UpdateSettings,
                  Authenticate, members, invitations
    <3>2. CASE Invites(r)
      BY <3>2 DEF Invites, BeginInvite, InsertInvitation, SendInvitation, InvitationRolledBack,
                  BeginRevoke, WithdrawInvitation, Authenticate, members, invitations
    <3>3. CASE Joins(r) \/ OrgRequestEnds(r)
      BY <3>3 DEF Joins, BeginAccept, OrgRequestEnds, Authenticate, members, invitations
    <3>. QED
      BY <1>6, <3>1, <3>2, <3>3
  <2>. QED
    BY <1>1, <1>2, <1>3, <1>4, <1>5, <2>1
<1>7. CASE (\E i \in Invitations : InvitationExpires(i)) \/ UNCHANGED orgVars
  BY <1>1, <1>7 DEF InvitationExpires, orgVars, members, invitations
<1>. QED
  BY <1>6, <1>7 DEF OrgStep, MembersNext, SettingsNext

\* Only an update of the settings writes them.
LEMMA OrgStepBuilds ==
  ASSUME OrgStep, settings' # settings
  PROVE  \E r \in OrgRequests : step[r] = "configuring" /\ seen[r] = settings
<1>1. ASSUME NEW r \in OrgRequests, ~UpdateSettings(r),
             UpdatesMember(r) \/ UpdatesSettings(r) \/ Invites(r) \/ Joins(r) \/ OrgRequestEnds(r)
      PROVE  settings' = settings
  <2>1. CASE UpdatesMember(r) \/ UpdatesSettings(r)
    BY <1>1, <2>1 DEF UpdatesMember, UpdatesSettings, BeginUpdateMember, BeginUpdateSettings, UpdateMember,
                Authenticate
  <2>2. CASE Invites(r)
    BY <2>2 DEF Invites, BeginInvite, InsertInvitation, SendInvitation, CommitInvitation,
                InvitationRolledBack, BeginRevoke, RevokeInvitation, WithdrawInvitation, Authenticate
  <2>3. CASE Joins(r) \/ OrgRequestEnds(r)
    BY <2>3 DEF Joins, BeginAccept, AcceptInvitation, OrgRequestEnds, Authenticate
  <2>. QED
    BY <1>1, <2>1, <2>2, <2>3
<1>2. (\E i \in Invitations : InvitationExpires(i)) \/ UNCHANGED orgVars => settings' = settings
  BY DEF InvitationExpires, orgVars
<1>3. PICK r \in OrgRequests : UpdateSettings(r)
  BY <1>1, <1>2 DEF OrgStep, MembersNext, SettingsNext
<1>. QED
  BY <1>3 DEF UpdateSettings, SettingsCurrent

\* In the workspace a step of the organization's rows is one of its own.
LEMMA OrgRuns == Spec => OrgInit /\ [][MembersNext \/ SettingsNext]_orgVars
<1>1. Init => OrgInit
  BY DEF Init
<1>2. [Next]_workspaceVars => [MembersNext \/ SettingsNext]_orgVars
  BY DEF Next, workspaceVars
<1>. QED
  BY <1>1, <1>2, PTL DEF Spec

LEMMA OrgInvariance == Spec => []OrgInv
<1>1. OrgInv /\ [MembersNext \/ SettingsNext]_orgVars => OrgInv'
  BY OrgStepInv DEF OrgStep
<1>. QED
  BY OrgRuns, OrgInitInv, <1>1, PTL

\* However the administrators' commands against one another interleave, the
\* organization keeps an active administrator.
THEOREM AdministratorRemainsHolds == Spec => []AdministratorRemains
<1>1. OrgInv => AdministratorRemains
  BY DEF OrgInv
<1>. QED
  BY OrgInvariance, <1>1, PTL

\* Whoever joins does so by a pending invitation of that address, with the
\* role it names, and an accepted or revoked invitation stays so.
THEOREM InvitationsSettleHolds == Spec => InvitationsSettle
<1>1. OrgInv /\ [MembersNext \/ SettingsNext]_orgVars =>
        [/\ \A i \in Invitations : invitation[i] \in {"accepted", "revoked"} => invitation'[i] = invitation[i]
         /\ \A p \in People : status[p] = "absent" /\ status'[p] # "absent" =>
              \E i \in Invitations : /\ Pending(i, p) /\ ~expired[i]
                                     /\ invitation'[i] = "accepted" /\ role'[p] = invitedRole[i]]_orgVars
  BY OrgStepSettles DEF OrgStep, Settles
<1>2. Spec =>
        [][/\ \A i \in Invitations : invitation[i] \in {"accepted", "revoked"} => invitation'[i] = invitation[i]
           /\ \A p \in People : status[p] = "absent" /\ status'[p] # "absent" =>
                \E i \in Invitations : /\ Pending(i, p) /\ ~expired[i]
                                       /\ invitation'[i] = "accepted" /\ role'[p] = invitedRole[i]]_orgVars
  BY <1>1, OrgRuns, OrgInvariance, PTL
<1>. QED
  BY <1>2, PTL DEF InvitationsSettle

\* No administrator's change of the settings is overwritten unseen.
THEOREM SettingsBuildOnSeenHolds == Spec => SettingsBuildOnSeen
<1>1. [MembersNext \/ SettingsNext]_orgVars =>
        [settings' # settings =>
           \E r \in OrgRequests : step[r] = "configuring" /\ seen[r] = settings]_orgVars
  BY OrgStepBuilds DEF OrgStep
<1>2. Spec => [][settings' # settings =>
                   \E r \in OrgRequests : step[r] = "configuring" /\ seen[r] = settings]_orgVars
  BY <1>1, OrgRuns, PTL
<1>. QED
  BY <1>2, PTL DEF SettingsBuildOnSeen

-----------------------------------------------------------------------------
(* Proofs: connections *)

LEMMA ConnectionsInitInv == ConnectionsInit => InboxInv /\ RuntimeInv
<1>. SUFFICES ASSUME ConnectionsInit
              PROVE  InboxInv /\ RuntimeInv
  OBVIOUS
<1>. USE DEF ConnectionsInit, InboxConnectionsInit, RuntimeConnectionInit
<1>1. InboxTypes
  BY DEF InboxTypes
<1>2. GrantsAreHeldOnce /\ CredentialsWereCompleted
  BY DEF GrantsAreHeldOnce, HoldsGrant, CredentialsWereCompleted
<1>3. CredentialMatchesConnection
  <2>1. \A c \in InboxRows : credential[c] = None /\ linked[c] = FALSE
    OBVIOUS
  <2>2. \A s \in SignIns : completions[s] <= 1
    OBVIOUS
  <2>. QED
    BY <2>1, <2>2 DEF CredentialMatchesConnection
<1>4. RuntimeInv
  BY DEF RuntimeInv, TestsKnowTheirVersion, HealthIsOfTheConfiguration
<1>. QED
  BY <1>1, <1>2, <1>3, <1>4 DEF InboxInv

InboxStages == {"idle", "exchanging", "granted", "storing", "resuming", "revoking", "deleting"}

\* A command moves to another stage.
LEMMA BecomesIs ==
  ASSUME InboxInv, NEW r \in InboxCommands, NEW stage \in InboxStages,
         NEW s \in SignIns \union {None}, NEW a, NEW c, Becomes(r, stage, s, a, c)
  PROVE  /\ connecting' \in [InboxCommands -> InboxStages]
         /\ using' \in [InboxCommands -> SignIns \union {None}]
         /\ connecting'[r] = stage /\ using'[r] = s
         /\ \A q \in InboxCommands : q # r => connecting'[q] = connecting[q] /\ using'[q] = using[q]
BY DEF Becomes, InboxInv, InboxTypes, InboxStages

\* Steps that store no credential and consume no sign-in: a command keeps
\* the grant it holds, or leaves it.
LEMMA LeavesInv ==
  ASSUME InboxInv, NEW r \in InboxCommands, NEW stage \in InboxStages,
         NEW s \in SignIns \union {None}, NEW a, NEW c, Becomes(r, stage, s, a, c),
         stage \in {"exchanging", "granted", "storing"} => HoldsGrant(r) /\ s = using[r],
         UNCHANGED <<signIn, completions, credential, linked>>
  PROVE  InboxInv'
<1>1. InboxTypes'
  BY BecomesIs DEF InboxInv, InboxTypes, InboxStages
<1>2. \A q \in InboxCommands : HoldsGrant(q)' => HoldsGrant(q) /\ using'[q] = using[q]
  BY BecomesIs DEF HoldsGrant
<1>3. GrantsAreHeldOnce'
  BY <1>2 DEF InboxInv, GrantsAreHeldOnce
<1>4. CredentialsWereCompleted' /\ CredentialMatchesConnection'
  BY DEF InboxInv, CredentialsWereCompleted, CredentialMatchesConnection
<1>. QED
  BY <1>1, <1>3, <1>4 DEF InboxInv

\* A sign-in is started, expires, or is consumed by one command.
LEMMA SignInInv ==
  ASSUME InboxInv, NEW s \in SignIns,
         \/ StartSignIn(s) \/ SignInExpires(s)
         \/ \E r \in InboxCommands : ConsumeSignIn(r, s)
  PROVE  InboxInv'
<1>1. CASE StartSignIn(s) \/ SignInExpires(s)
  <2>1. /\ \E new \in {"open", "gone"} : signIn' = [signIn EXCEPT ![s] = new]
        /\ signIn[s] # "consumed"
        /\ UNCHANGED <<completions, credential, linked, connecting, using>>
    BY <1>1 DEF StartSignIn, SignInExpires, inboxRows, inboxCommands
  <2>2. InboxTypes'
    BY <2>1 DEF InboxInv, InboxTypes
  <2>3. \A u \in SignIns : signIn'[u] = "consumed" <=> signIn[u] = "consumed"
    BY <2>1 DEF InboxInv, InboxTypes
  <2>4. GrantsAreHeldOnce'
    BY <2>1, <2>3 DEF InboxInv, GrantsAreHeldOnce, HoldsGrant
  <2>5. CredentialsWereCompleted' /\ CredentialMatchesConnection'
    BY <2>1 DEF InboxInv, CredentialsWereCompleted, CredentialMatchesConnection
  <2>. QED
    BY <2>2, <2>4, <2>5 DEF InboxInv
<1>2. ASSUME NEW r \in InboxCommands, ConsumeSignIn(r, s)
      PROVE  InboxInv'
  <2>1. /\ signIn[s] = "open" /\ signIn' = [signIn EXCEPT ![s] = "consumed"]
        /\ Becomes(r, "exchanging", s, None, None)
        /\ UNCHANGED <<completions, credential, linked>>
    BY <1>2 DEF ConsumeSignIn, Consumable, inboxRows
  <2>2. /\ connecting' \in [InboxCommands -> InboxStages]
        /\ using' \in [InboxCommands -> SignIns \union {None}]
        /\ connecting'[r] = "exchanging" /\ using'[r] = s
        /\ \A q \in InboxCommands : q # r => connecting'[q] = connecting[q] /\ using'[q] = using[q]
    BY <2>1, BecomesIs DEF InboxStages
  <2>3. InboxTypes'
    BY <2>1, <2>2 DEF InboxInv, InboxTypes, InboxStages
  <2>4. /\ signIn'[s] = "consumed" /\ completions[s] = 0
        /\ \A u \in SignIns : u # s => signIn'[u] = signIn[u]
    BY <2>1 DEF InboxInv, InboxTypes, GrantsAreHeldOnce
  <2>5. \A q \in InboxCommands : HoldsGrant(q) => using[q] # s
    BY <2>1 DEF InboxInv, GrantsAreHeldOnce
  <2>6. GrantsAreHeldOnce'
    BY <2>1, <2>2, <2>4, <2>5 DEF InboxInv, GrantsAreHeldOnce, HoldsGrant
  <2>7. CredentialsWereCompleted' /\ CredentialMatchesConnection'
    BY <2>1 DEF InboxInv, CredentialsWereCompleted, CredentialMatchesConnection
  <2>. QED
    BY <2>3, <2>6, <2>7 DEF InboxInv
<1>. QED
  BY <1>1, <1>2

\* The credential stored is of a sign-in that no connection has yet.
LEMMA EstablishInv ==
  ASSUME InboxInv, NEW r \in InboxCommands, NEW c, HoldsGrant(r), Establish(r, c)
  PROVE  InboxInv'
<1>1. PICK s \in SignIns : s = using[r]
  BY DEF InboxInv, GrantsAreHeldOnce
<1>2. /\ credential' = [credential EXCEPT ![c] = s]
      /\ linked' = [linked EXCEPT ![c] = TRUE]
      /\ completions' = [completions EXCEPT ![s] = @ + 1]
      /\ Becomes(r, "idle", None, None, None)
      /\ UNCHANGED signIn
  BY <1>1 DEF Establish
<1>3. signIn[s] = "consumed" /\ completions[s] = 0
  BY <1>1 DEF InboxInv, GrantsAreHeldOnce
<1>4. /\ completions' = [completions EXCEPT ![s] = 1]
      /\ completions'[s] = 1
      /\ \A u \in SignIns : u # s => completions'[u] = completions[u]
  BY <1>2, <1>3 DEF InboxInv, InboxTypes
<1>5. /\ connecting' \in [InboxCommands -> InboxStages]
      /\ using' \in [InboxCommands -> SignIns \union {None}]
      /\ connecting'[r] = "idle"
      /\ \A q \in InboxCommands : q # r => connecting'[q] = connecting[q] /\ using'[q] = using[q]
  BY <1>2, BecomesIs DEF InboxStages
<1>6. InboxTypes'
  BY <1>2, <1>4, <1>5 DEF InboxInv, InboxTypes, InboxStages
<1>7. \A q \in InboxCommands : HoldsGrant(q)' =>
        HoldsGrant(q) /\ q # r /\ using'[q] = using[q] /\ using[q] # s
  BY <1>1, <1>5 DEF HoldsGrant, InboxInv, GrantsAreHeldOnce
<1>8. GrantsAreHeldOnce'
  BY <1>2, <1>3, <1>4, <1>7 DEF InboxInv, GrantsAreHeldOnce
<1>9. \A d \in InboxRows : /\ credential[d] # s
                           /\ d = c => credential'[d] = s /\ linked'[d] = TRUE
                           /\ d # c => credential'[d] = credential[d] /\ linked'[d] = linked[d]
  <2>1. \A d \in InboxRows : credential[d] # s
    <3>1. s # None
      BY SignInsAssumption
    <3>2. completions[s] # 1
      BY <1>3
    <3>. QED
      BY <3>1, <3>2 DEF InboxInv, CredentialsWereCompleted
  <2>. QED
    BY <1>2, <2>1 DEF InboxInv, InboxTypes
<1>10. CredentialsWereCompleted'
  <2>. SUFFICES ASSUME NEW d \in InboxRows, credential'[d] # None
                PROVE  completions'[credential'[d]] = 1
    BY DEF CredentialsWereCompleted
  <2>1. CASE d = c
    BY <1>4, <1>9, <2>1
  <2>2. CASE d # c
    BY <1>4, <1>9, <2>2 DEF InboxInv, InboxTypes, CredentialsWereCompleted
  <2>. QED
    BY <2>1, <2>2
<1>11. CredentialMatchesConnection'
  <2>1. \A d \in InboxRows : linked'[d] = (credential'[d] # None)
    BY <1>9, SignInsAssumption DEF InboxInv, CredentialMatchesConnection
  <2>2. \A u \in SignIns : completions'[u] <= 1
    BY <1>6 DEF InboxTypes
  <2>3. \A d, e \in InboxRows : credential'[d] # None /\ credential'[d] = credential'[e] => d = e
    BY <1>9 DEF InboxInv, CredentialMatchesConnection
  <2>. QED
    BY <2>1, <2>2, <2>3 DEF CredentialMatchesConnection
<1>. QED
  BY <1>6, <1>8, <1>10, <1>11 DEF InboxInv

LEMMA DisconnectInv ==
  ASSUME InboxInv, NEW r \in InboxCommands, Disconnect(r)
  PROVE  InboxInv'
<1>1. PICK c : c = onRow[r]
  OBVIOUS
<1>2. /\ credential' = [credential EXCEPT ![c] = None]
      /\ linked' = [linked EXCEPT ![c] = FALSE]
      /\ Becomes(r, "idle", None, None, None)
      /\ UNCHANGED <<signIn, completions>>
  BY <1>1 DEF Disconnect, DeleteCredential
<1>3. /\ connecting' \in [InboxCommands -> InboxStages]
      /\ using' \in [InboxCommands -> SignIns \union {None}]
      /\ connecting'[r] = "idle"
      /\ \A q \in InboxCommands : q # r => connecting'[q] = connecting[q] /\ using'[q] = using[q]
  BY <1>2, BecomesIs DEF InboxStages
<1>4. InboxTypes'
  BY <1>2, <1>3 DEF InboxInv, InboxTypes, InboxStages
<1>5. \A q \in InboxCommands : HoldsGrant(q)' => HoldsGrant(q) /\ using'[q] = using[q]
  BY <1>3 DEF HoldsGrant
<1>6. GrantsAreHeldOnce'
  BY <1>2, <1>5 DEF InboxInv, GrantsAreHeldOnce
<1>7. \A d \in InboxRows : /\ d = c => credential'[d] = None /\ linked'[d] = FALSE
                           /\ d # c => credential'[d] = credential[d] /\ linked'[d] = linked[d]
  BY <1>2 DEF InboxInv, InboxTypes
<1>8. CredentialsWereCompleted'
  BY <1>2, <1>7 DEF InboxInv, CredentialsWereCompleted
<1>9. CredentialMatchesConnection'
  BY <1>2, <1>7 DEF InboxInv, CredentialMatchesConnection
<1>. QED
  BY <1>4, <1>6, <1>8, <1>9 DEF InboxInv

LEMMA InboxStepInv ==
  ASSUME InboxInv, InboxConnectionNext \/ UNCHANGED inboxVars
  PROVE  InboxInv'
<1>1. CASE UNCHANGED <<signIn, completions, credential, linked, connecting, using>>
  BY <1>1 DEF InboxInv, InboxTypes, GrantsAreHeldOnce, HoldsGrant, CredentialsWereCompleted,
              CredentialMatchesConnection
<1>2. CASE UNCHANGED inboxVars
  BY <1>1, <1>2 DEF inboxVars, inboxRows, inboxCommands
<1>3. ASSUME NEW c \in InboxRows, Pause(c)
      PROVE  InboxInv'
  BY <1>1, <1>3 DEF Pause, inboxCommands
<1>4. ASSUME NEW r \in InboxCommands, NEW a \in Accounts, ExchangeCode(r, a)
      PROVE  InboxInv'
  <2>1. PICK s \in SignIns \union {None} : s = using[r]
    BY DEF InboxInv, InboxTypes
  <2>2. /\ HoldsGrant(r) /\ Becomes(r, "granted", s, a, None)
        /\ UNCHANGED <<signIn, completions, credential, linked>>
    BY <1>4, <2>1 DEF ExchangeCode, HoldsGrant, inboxRows
  <2>. QED
    BY <2>1, <2>2, LeavesInv DEF InboxStages
<1>5. ASSUME NEW r \in InboxCommands, NEW c \in InboxRows,
             Reconnect(r, c) \/ ConnectFirst(r, c) \/ BeginResume(r, c) \/ BeginDisconnect(r, c)
      PROVE  InboxInv'
  <2>1. CASE Reconnect(r, c)
    BY <2>1, EstablishInv DEF Reconnect, HoldsGrant
  <2>2. CASE ConnectFirst(r, c)
    <3>1. PICK s \in SignIns \union {None} : s = using[r]
      BY DEF InboxInv, InboxTypes
    <3>2. /\ HoldsGrant(r) /\ \E b : Becomes(r, "storing", s, b, c)
          /\ UNCHANGED <<signIn, completions, credential, linked>>
      BY <2>2, <3>1 DEF ConnectFirst, HoldsGrant, inboxRows
    <3>. QED
      BY <3>1, <3>2, LeavesInv DEF InboxStages
  <2>3. CASE BeginResume(r, c) \/ BeginDisconnect(r, c)
    <3>1. PICK s \in SignIns \union {None} : s = credential[c]
      BY DEF InboxInv, InboxTypes
    <3>2. \E stage \in {"resuming", "revoking"} : \E a : Becomes(r, stage, s, a, c)
      BY <2>3, <3>1 DEF BeginResume, BeginDisconnect
    <3>3. UNCHANGED <<signIn, completions, credential, linked>>
      BY <2>3 DEF BeginResume, BeginDisconnect, inboxRows
    <3>4. PICK stage \in {"resuming", "revoking"} : \E a : Becomes(r, stage, s, a, c)
      BY <3>2
    <3>. QED
      BY <3>3, <3>4, LeavesInv DEF InboxStages
  <2>. QED
    BY <1>5, <2>1, <2>2, <2>3
<1>6. ASSUME NEW r \in InboxCommands,
             CommitFirst(r) \/ Resume(r) \/ RevokeGrant(r) \/ Disconnect(r) \/ InboxCommandEnds(r)
      PROVE  InboxInv'
  <2>1. CASE CommitFirst(r)
    <3>1. PICK c : c = onRow[r]
      OBVIOUS
    <3>2. HoldsGrant(r) /\ Establish(r, c)
      BY <2>1, <3>1 DEF CommitFirst, HoldsGrant
    <3>. QED
      BY <3>2, EstablishInv
  <2>2. CASE Resume(r) \/ InboxCommandEnds(r)
    <3>1. Becomes(r, "idle", None, None, None) /\ UNCHANGED <<signIn, completions, credential, linked>>
      BY <2>2 DEF Resume, InboxCommandEnds, inboxRows
    <3>. QED
      BY <3>1, LeavesInv DEF InboxStages
  <2>3. CASE RevokeGrant(r)
    <3>1. PICK s \in SignIns \union {None} : s = using[r]
      BY DEF InboxInv, InboxTypes
    <3>2. (\E c : Becomes(r, "deleting", s, None, c)) /\ UNCHANGED <<signIn, completions, credential, linked>>
      BY <2>3, <3>1 DEF RevokeGrant, inboxRows
    <3>. QED
      BY <3>2, LeavesInv DEF InboxStages
  <2>4. CASE Disconnect(r)
    BY <2>4, DisconnectInv
  <2>. QED
    BY <1>6, <2>1, <2>2, <2>3, <2>4
<1>. QED
  BY <1>2, <1>3, <1>4, <1>5, <1>6, SignInInv DEF InboxConnectionNext

\* Health is recorded of the version that was tested.
LEMMA RuntimeStepInv ==
  ASSUME RuntimeInv, RuntimeConnectionNext \/ UNCHANGED runtimeVars
  PROVE  RuntimeInv'
<1>1. ASSUME NEW f, BeginSynchronize(f)
      PROVE  RuntimeInv'
  <2>1. starting' = <<f, config, connectionVersion>> /\ starting'[3] = connectionVersion
    BY <1>1 DEF BeginSynchronize
  <2>2. UNCHANGED <<config, health, tested, connectionVersion, overwrote, testing>>
    BY <1>1 DEF BeginSynchronize
  <2>. QED
    BY <2>1, <2>2 DEF RuntimeInv, TestsKnowTheirVersion, HealthIsOfTheConfiguration
<1>2. ASSUME starting' = <<>>, testing' = testing, overwrote' \in BOOLEAN, connectionVersion' \in Nat,
             ~overwrote' => ~overwrote /\ connectionVersion' > connectionVersion,
             health' = "not_configured"
      PROVE  RuntimeInv'
  <2>1. TestsKnowTheirVersion'
    <3>. SUFFICES ASSUME ~overwrote', NEW t \in Testers, testing[t] # <<>>
                  PROVE  /\ testing[t][2] \in Nat /\ testing[t][2] <= connectionVersion'
                         /\ testing[t][2] = connectionVersion' => testing[t][1] = config'
      BY <1>2 DEF TestsKnowTheirVersion
    <3>1. testing[t][2] \in Nat /\ testing[t][2] <= connectionVersion /\ connectionVersion \in Nat
      BY <1>2 DEF RuntimeInv, TestsKnowTheirVersion
    <3>2. connectionVersion' > connectionVersion
      BY <1>2
    <3>. QED
      BY <1>2, <3>1, <3>2
  <2>. QED
    BY <1>2, <2>1 DEF RuntimeInv, HealthIsOfTheConfiguration
<1>3. CASE Synchronize
  <2>1. starting # <<>> /\ starting' = <<>> /\ testing' = testing
    BY <1>3 DEF Synchronize
  <2>2. CASE UNCHANGED <<config, health, tested, connectionVersion, overwrote>>
    BY <2>1, <2>2 DEF RuntimeInv, TestsKnowTheirVersion, HealthIsOfTheConfiguration
  <2>3. CASE /\ health' = "not_configured"
             /\ connectionVersion' = starting[3] + 1
             /\ overwrote' = (overwrote \/ connectionVersion # starting[3])
    <3>1. starting[3] \in Nat /\ connectionVersion \in Nat
      BY <2>1 DEF RuntimeInv
    <3>2. connectionVersion' \in Nat /\ (connectionVersion = starting[3] => connectionVersion' > connectionVersion)
      BY <2>3, <3>1
    <3>3. overwrote' \in BOOLEAN
      BY <2>3
    <3>4. ~overwrote' => ~overwrote /\ connectionVersion = starting[3]
      BY <2>3
    <3>. QED
      BY <1>2, <2>1, <2>3, <3>2, <3>3, <3>4
  <2>. QED
    BY <1>3, <2>2, <2>3 DEF Synchronize
<1>4. CASE DeactivateRuntime
  <2>1. /\ starting' = <<>> /\ testing' = testing /\ overwrote' = overwrote
        /\ health' = "not_configured" /\ connectionVersion' = connectionVersion + 1
    BY <1>4 DEF DeactivateRuntime
  <2>2. connectionVersion' \in Nat /\ connectionVersion' > connectionVersion
    BY <2>1 DEF RuntimeInv
  <2>3. overwrote' \in BOOLEAN
    BY <2>1 DEF RuntimeInv
  <2>. QED
    BY <1>2, <2>1, <2>2, <2>3
<1>5. ASSUME NEW t \in Testers, BeginTest(t)
      PROVE  RuntimeInv'
  <2>1. /\ testing' = [testing EXCEPT ![t] = <<config, connectionVersion>>]
        /\ UNCHANGED <<config, health, tested, connectionVersion, starting, overwrote>>
    BY <1>5 DEF BeginTest
  <2>2. /\ DOMAIN testing' = Testers
        /\ \A u \in Testers : testing'[u] = IF u = t THEN <<config, connectionVersion>> ELSE testing[u]
    BY <2>1 DEF RuntimeInv
  <2>3. TestsKnowTheirVersion'
    <3>1. connectionVersion \in Nat /\ connectionVersion <= connectionVersion
      BY DEF RuntimeInv
    <3>2. testing'[t][2] = connectionVersion /\ testing'[t][1] = config
      BY <2>2
    <3>3. \A u \in Testers : u # t => testing'[u] = testing[u]
      BY <2>2
    <3>. QED
      BY <2>1, <3>1, <3>2, <3>3 DEF RuntimeInv, TestsKnowTheirVersion
  <2>. QED
    BY <2>1, <2>2, <2>3 DEF RuntimeInv, HealthIsOfTheConfiguration
<1>6. ASSUME NEW t \in Testers, RecordHealthCheck(t) \/ TestEnds(t)
      PROVE  RuntimeInv'
  <2>1. /\ testing' = [testing EXCEPT ![t] = <<>>]
        /\ UNCHANGED <<config, starting, overwrote>>
    BY <1>6 DEF RecordHealthCheck, TestEnds
  <2>2. /\ DOMAIN testing' = Testers
        /\ \A u \in Testers : testing'[u] # <<>> => testing'[u] = testing[u] /\ testing[u] # <<>>
    BY <2>1 DEF RuntimeInv
  <2>3. CASE TestEnds(t)
    <3>1. UNCHANGED <<health, tested, connectionVersion>>
      BY <2>3 DEF TestEnds
    <3>. QED
      BY <2>1, <2>2, <3>1 DEF RuntimeInv, TestsKnowTheirVersion, HealthIsOfTheConfiguration
  <2>4. CASE RecordHealthCheck(t)
    <3>1. /\ testing[t] # <<>> /\ connectionVersion = testing[t][2]
          /\ tested' = testing[t][1] /\ connectionVersion' = connectionVersion + 1
      BY <2>4 DEF RecordHealthCheck, TestStands
    <3>2. connectionVersion \in Nat /\ connectionVersion' \in Nat
      BY <3>1 DEF RuntimeInv
    <3>3. HealthIsOfTheConfiguration'
      BY <2>1, <3>1 DEF RuntimeInv, TestsKnowTheirVersion, HealthIsOfTheConfiguration
    <3>4. ASSUME ~overwrote, NEW u \in Testers, testing'[u] # <<>>
          PROVE  testing'[u][2] \in Nat /\ testing'[u][2] < connectionVersion'
      <4>1. testing[u][2] \in Nat /\ testing[u][2] <= connectionVersion /\ testing'[u] = testing[u]
        BY <2>2, <3>4 DEF RuntimeInv, TestsKnowTheirVersion
      <4>. QED
        BY <3>1, <3>2, <4>1
    <3>5. TestsKnowTheirVersion'
      <4>. SUFFICES ASSUME ~overwrote', NEW u \in Testers, testing'[u] # <<>>
                    PROVE  /\ testing'[u][2] \in Nat /\ testing'[u][2] <= connectionVersion'
                           /\ testing'[u][2] = connectionVersion' => testing'[u][1] = config'
        BY DEF TestsKnowTheirVersion
      <4>1. testing'[u][2] \in Nat /\ testing'[u][2] < connectionVersion'
        BY <2>1, <3>4
      <4>. QED
        BY <3>2, <4>1
    <3>. QED
      BY <2>1, <2>2, <3>2, <3>3, <3>5 DEF RuntimeInv
  <2>. QED
    BY <1>6, <2>3, <2>4
<1>7. CASE UNCHANGED runtimeVars
  BY <1>7 DEF runtimeVars, RuntimeInv, TestsKnowTheirVersion, HealthIsOfTheConfiguration
<1>. QED
  BY <1>1, <1>3, <1>4, <1>5, <1>6, <1>7 DEF RuntimeConnectionNext

LEMMA ConnectionsInvariance == Spec => [](InboxInv /\ RuntimeInv)
<1>1. Init => InboxInv /\ RuntimeInv
  BY ConnectionsInitInv DEF Init
<1>2. [Next]_workspaceVars =>
        /\ InboxConnectionNext \/ UNCHANGED inboxVars
        /\ RuntimeConnectionNext \/ UNCHANGED runtimeVars
  BY DEF Next, workspaceVars, connectionVars, InboxConnectionNext, RuntimeConnectionNext
<1>3. InboxInv /\ RuntimeInv /\ [Next]_workspaceVars => (InboxInv /\ RuntimeInv)'
  BY <1>2, InboxStepInv, RuntimeStepInv
<1>. QED
  BY <1>1, <1>3, PTL DEF Spec

\* A connection is shown connected exactly when it has a credential of its
\* own sign-in, no sign-in is stored twice, and health is of the
\* configuration shown unless a starting process gave a version out twice.
THEOREM ConnectionShowsTruthHolds == Spec => []ConnectionShowsTruth
<1>1. InboxInv /\ RuntimeInv => ConnectionShowsTruth
  BY DEF InboxInv, RuntimeInv, ConnectionShowsTruth
<1>. QED
  BY ConnectionsInvariance, <1>1, PTL

-----------------------------------------------------------------------------
(* Proofs: cases *)

LEMMA CaseInitInv == CaseInit => CaseInv
BY DEF CaseInit, CaseInv, CaseTypes, NothingBeforeIntake, ChecksStand

\* Steps that move the version on, so that no earlier check stands, and keep
\* or answer the requests.
LEMMA MovesOnInv ==
  ASSUME CaseInv, caseStatus # "absent", caseStatus' \in CaseStatuses, caseVersion' = caseVersion + 1,
         command' \in [Colleagues -> CheckedCommands \union {"none"}], expected' \in [Colleagues -> Nat],
         \A m \in Colleagues : command'[m] # "none" => command'[m] = command[m] /\ expected'[m] = expected[m]
  PROVE  CaseInv'
<1>1. caseVersion \in Nat /\ caseVersion' \in Nat
  BY DEF CaseInv, CaseTypes
<1>2. caseStatus' # "absent"
  BY DEF CaseStatuses
<1>3. ASSUME NEW m \in Colleagues, command'[m] # "none"
      PROVE  expected'[m] \in Nat /\ expected'[m] < caseVersion'
  <2>1. expected[m] \in Nat /\ expected[m] <= caseVersion /\ expected'[m] = expected[m]
    BY <1>3 DEF CaseInv, CaseTypes, ChecksStand
  <2>. QED
    BY <1>1, <2>1
<1>4. \A m \in Colleagues : command'[m] # "none" =>
        expected'[m] <= caseVersion' /\ expected'[m] # caseVersion'
  BY <1>1, <1>3
<1>. QED
  BY <1>1, <1>2, <1>4 DEF CaseInv, CaseTypes, NothingBeforeIntake, ChecksStand

LEMMA Answered ==
  ASSUME CaseInv, NEW m \in Colleagues, Answer(m)
  PROVE  /\ command' \in [Colleagues -> CheckedCommands \union {"none"}] /\ expected' \in [Colleagues -> Nat]
         /\ command'[m] = "none"
         /\ \A n \in Colleagues : n # m => command'[n] = command[n] /\ expected'[n] = expected[n]
BY DEF Answer, CaseInv, CaseTypes

\* What CommandsFitTheCase says of a step.
Fits ==
  /\ \A m \in Colleagues :
       command[m] # "none" /\ command'[m] = "none" /\ caseStatus' # caseStatus =>
         caseStatus' \in Transitions[caseStatus]
  /\ contexts' # contexts => caseStatus # "completed" /\ contexts \subseteq contexts'

\* The version a command was checked for stands, so its check does.
LEMMA CaseStepInv ==
  ASSUME CaseInv, [CaseWorkNext]_caseVars
  PROVE  CaseInv' /\ Fits
<1>1. /\ command \in [Colleagues -> CheckedCommands \union {"none"}] /\ expected \in [Colleagues -> Nat]
      /\ caseVersion \in Nat /\ caseStatus \in CaseStatuses \union {"absent"}
  BY DEF CaseInv, CaseTypes
<1>2. ASSUME NEW event \in SignedEvents, ReceiveCase(event)
      PROVE  CaseInv' /\ Fits
  <2>1. /\ caseStatus = "absent" /\ caseStatus' = "new" /\ caseVersion' = 1
        /\ contexts = {} /\ \A m \in Colleagues : command[m] = "none"
        /\ UNCHANGED <<command, expected>>
    BY <1>2 DEF ReceiveCase, SeedCase, caseRequests, CaseInv, NothingBeforeIntake
  <2>2. CaseInv'
    BY <1>1, <2>1 DEF CaseInv, CaseTypes, CaseStatuses, NothingBeforeIntake, ChecksStand
  <2>. QED
    BY <2>1, <2>2 DEF Fits
<1>3. ASSUME NEW v \in VersionsRead
      PROVE  caseStatus # "absent" /\ v \in Nat /\ v <= caseVersion
  BY <1>1, <1>3 DEF VersionsRead, CaseInv, NothingBeforeIntake
<1>4. ASSUME caseStatus # "absent", caseStatus' \in CaseStatuses, caseVersion' = caseVersion + 1,
             UNCHANGED <<contexts, command, expected>>
      PROVE  CaseInv' /\ Fits
  <2>1. CaseInv'
    BY <1>1, <1>4, MovesOnInv
  <2>. QED
    BY <1>4, <2>1 DEF Fits
<1>5. ASSUME NEW v \in VersionsRead,
             (\E m \in Colleagues : AssignToMe(m, v)) \/ AddMessage(v) \/ SubmitForReview(v)
      PROVE  CaseInv' /\ Fits
  <2>1. /\ caseStatus' \in CaseStatuses /\ caseVersion' = caseVersion + 1
        /\ UNCHANGED <<contexts, command, expected>>
    BY <1>1, <1>3, <1>5 DEF AssignToMe, AddMessage, SubmitForReview, caseRequests, CaseStatuses
  <2>. QED
    BY <1>3, <1>4, <2>1
<1>6. ASSUME (\E decision \in {"request_changes", "reject", "escalate"} : ReviewDecided(decision))
             \/ ActionCompleted
      PROVE  CaseInv' /\ Fits
  <2>1. /\ caseStatus # "absent" /\ caseStatus' \in CaseStatuses /\ caseVersion' = caseVersion + 1
        /\ UNCHANGED <<contexts, command, expected>>
    BY <1>6 DEF ReviewDecided, ActionCompleted, caseRequests, CaseStatuses
  <2>. QED
    BY <1>4, <2>1
<1>7. ASSUME NEW v \in VersionsRead, NEW m \in Colleagues, NEW c \in CheckedCommands, CheckCase(m, c, v)
      PROVE  CaseInv' /\ Fits
  <2>1. /\ Passes(c) /\ command' = [command EXCEPT ![m] = c] /\ expected' = [expected EXCEPT ![m] = v]
        /\ UNCHANGED <<caseStatus, caseVersion, contexts>>
    BY <1>7 DEF CheckCase, caseRow
  <2>2. /\ command'[m] = c /\ expected'[m] = v
        /\ \A n \in Colleagues : n # m => command'[n] = command[n] /\ expected'[n] = expected[n]
    BY <1>1, <2>1
  <2>3. CaseTypes' /\ NothingBeforeIntake'
    BY <1>1, <1>3, <2>1 DEF CaseTypes, NothingBeforeIntake
  <2>4. Passes(c)' /\ \A n \in Colleagues : Passes(command[n]) => Passes(command[n])'
    BY <1>1, <2>1, <2>2 DEF Passes
  <2>5. ChecksStand'
    <3>. SUFFICES ASSUME NEW n \in Colleagues, command'[n] # "none"
                  PROVE  /\ expected'[n] <= caseVersion
                         /\ expected'[n] = caseVersion => Passes(command[n])'
      BY <2>1 DEF ChecksStand
    <3>1. CASE n = m
      BY <1>3, <2>1, <2>2, <3>1 DEF Passes
    <3>2. CASE n # m
      BY <2>1, <2>2, <3>2 DEF CaseInv, ChecksStand, Passes
    <3>. QED
      BY <3>1, <3>2
  <2>. QED
    BY <2>1, <2>3, <2>5 DEF CaseInv, Fits
<1>8. ASSUME NEW v \in VersionsRead, NEW finding \in Findings, ReviseResolution(v, finding)
      PROVE  CaseInv' /\ Fits
  BY <1>8 DEF ReviseResolution, caseRow, caseRequests, CaseInv, CaseTypes, NothingBeforeIntake, ChecksStand,
              Passes, Fits
<1>9. ASSUME NEW m \in Colleagues, command[m] # "none", VersionStands(expected[m])
      PROVE  caseStatus # "absent" /\ Passes(command[m])
  BY <1>9 DEF VersionStands, CaseInv, NothingBeforeIntake, ChecksStand
<1>10. ASSUME NEW m \in Colleagues, ChangeStatus(m)
       PROVE  CaseInv' /\ Fits
  <2>1. /\ command[m] \in CaseStatuses /\ VersionStands(expected[m]) /\ caseStatus' = command[m]
        /\ caseVersion' = caseVersion + 1 /\ Answer(m) /\ UNCHANGED contexts
    BY <1>10 DEF ChangeStatus
  <2>2. caseStatus # "absent" /\ caseStatus' \in Transitions[caseStatus]
    BY <1>9, <2>1 DEF Passes, CaseStatuses
  <2>3. CaseInv'
    BY <2>1, <2>2, Answered, MovesOnInv
  <2>. QED
    BY <2>1, <2>2, <2>3 DEF Fits
<1>11. ASSUME NEW m \in Colleagues, NEW ref, NEW text, AddBusinessEvidence(m, ref, text)
       PROVE  CaseInv' /\ Fits
  <2>1. /\ command[m] = "add_evidence" /\ VersionStands(expected[m]) /\ caseStatus' = caseStatus
        /\ caseVersion' = caseVersion + 1 /\ Answer(m) /\ contexts \subseteq contexts'
    BY <1>11 DEF AddBusinessEvidence
  <2>2. caseStatus # "absent" /\ caseStatus # "completed"
    BY <1>9, <2>1 DEF Passes
  <2>3. CaseInv'
    BY <1>1, <2>1, <2>2, Answered, MovesOnInv
  <2>. QED
    BY <2>1, <2>2, <2>3 DEF Fits
<1>12. ASSUME NEW m \in Colleagues, CommandRefused(m)
       PROVE  CaseInv' /\ Fits
  <2>1. Answer(m) /\ UNCHANGED <<caseStatus, caseVersion, contexts>>
    BY <1>12 DEF CommandRefused, caseRow
  <2>2. CaseTypes' /\ NothingBeforeIntake'
    BY <2>1, Answered DEF CaseInv, CaseTypes, NothingBeforeIntake
  <2>3. ChecksStand'
    <3>. SUFFICES ASSUME NEW n \in Colleagues, command'[n] # "none"
                  PROVE  /\ expected'[n] <= caseVersion
                         /\ expected'[n] = caseVersion => Passes(command[n])'
      BY <2>1 DEF ChecksStand
    <3>1. n # m /\ command'[n] = command[n] /\ expected'[n] = expected[n]
      BY <2>1, Answered
    <3>. QED
      BY <2>1, <3>1 DEF CaseInv, ChecksStand, Passes
  <2>. QED
    BY <2>1, <2>2, <2>3 DEF CaseInv, Fits
<1>13. CASE UNCHANGED caseVars
  BY <1>13 DEF caseVars, caseRow, caseRequests, CaseInv, CaseTypes, NothingBeforeIntake, ChecksStand, Passes, Fits
<1>. QED
  BY <1>2, <1>5, <1>6, <1>7, <1>8, <1>10, <1>11, <1>12, <1>13 DEF CaseWorkNext

LEMMA CaseRuns == Spec => CaseInit /\ [][CaseWorkNext]_caseVars
<1>1. Init => CaseInit
  BY DEF Init
<1>2. [Next]_workspaceVars => [CaseWorkNext]_caseVars
  BY DEF Next, workspaceVars
<1>. QED
  BY <1>1, <1>2, PTL DEF Spec

LEMMA CaseInvariance == Spec => []CaseInv
<1>1. CaseInv /\ [CaseWorkNext]_caseVars => CaseInv'
  BY CaseStepInv
<1>. QED
  BY CaseRuns, CaseInitInv, <1>1, PTL

\* A status change is one of CASE_TRANSITIONS and no record is added to a
\* completed case, although the check read the case without a lock.
THEOREM CommandsFitTheCaseHolds == Spec => CommandsFitTheCase
<1>1. CaseInv /\ [CaseWorkNext]_caseVars =>
        [/\ \A m \in Colleagues :
              command[m] # "none" /\ command'[m] = "none" /\ caseStatus' # caseStatus =>
                caseStatus' \in Transitions[caseStatus]
         /\ contexts' # contexts => caseStatus # "completed" /\ contexts \subseteq contexts']_caseVars
  BY CaseStepInv DEF Fits
<1>2. Spec =>
        [][/\ \A m \in Colleagues :
                command[m] # "none" /\ command'[m] = "none" /\ caseStatus' # caseStatus =>
                  caseStatus' \in Transitions[caseStatus]
           /\ contexts' # contexts => caseStatus # "completed" /\ contexts \subseteq contexts']_caseVars
  BY <1>1, CaseRuns, CaseInvariance, PTL
<1>. QED
  BY <1>2, PTL DEF CommandsFitTheCase

\* Every command the workspace offers is one its service accepts.
THEOREM OfferedIsAcceptedHolds == Spec => []OfferedIsAccepted
<1>1. CaseInv => OfferedIsAccepted
  <2>. SUFFICES ASSUME CaseInv, caseStatus # "absent"
                PROVE  OfferedIsAccepted
    BY DEF OfferedIsAccepted
  <2>1. caseStatus \in CaseStatuses
    BY DEF CaseInv, CaseTypes
  <2>2. ASSUME "start_investigation" \in AvailableCommands
        PROVE  "investigating" \in Transitions[caseStatus]
    <3>1. caseStatus = "new"
      BY <2>2 DEF AvailableCommands
    <3>. QED
      BY <3>1 DEF Transitions, CaseStatuses
  <2>3. "resume_investigation" \in AvailableCommands => "investigating" \in Transitions[caseStatus]
    BY DEF AvailableCommands, OffersResumption
  <2>4. "request_information" \in AvailableCommands => "information_needed" \in Transitions[caseStatus]
    BY DEF AvailableCommands, OffersRequest
  <2>5. "add_evidence" \in AvailableCommands => Passes("add_evidence")
    BY DEF AvailableCommands, Passes
  <2>6. "revise_resolution" \in AvailableCommands => MayRevise(caseVersion)
    BY DEF AvailableCommands, MayRevise
  <2>7. "submit_for_review" \in AvailableCommands \/ "escalate" \in AvailableCommands =>
          MaySubmit(caseVersion)
    BY DEF AvailableCommands, OffersSubmission, OffersEscalation, CanSubmitOrEscalate, BriefIsCurrent,
           MaySubmit
  <2>. QED
    BY <2>2, <2>3, <2>4, <2>5, <2>6, <2>7 DEF OfferedIsAccepted
<1>. QED
  BY CaseInvariance, <1>1, PTL

-----------------------------------------------------------------------------
(* Proofs: notices *)

LEMMA NoticeInitInv == NoticeInit => NoticeInv
BY DEF NoticeInit, NoticeInv, NoticeTypes, KeysAreUnique

\* A row that is marked read keeps its key.
LEMMA ReadKeepsKey ==
  ASSUME NEW n \in NoticeRows
  PROVE  LET o == [n EXCEPT !.status = "read"] IN o \in NoticeRows /\ SameKey(o, n) /\ o.status = "read"
BY DEF NoticeRows, SameKey

\* Rows that are marked read are replaced one by one.
LEMMA MarkedInv ==
  ASSUME NoticeInv, NEW mine \in SUBSET notices,
         notices' = (notices \ mine) \union Read(mine), UNCHANGED <<unsaved, mailed>>
  PROVE  /\ NoticeInv'
         /\ \A n \in notices : n \notin mine => n \in notices'
         /\ \A o \in notices' : o \in notices \/ \E n \in mine : SameKey(o, n)
<1>1. notices \subseteq NoticeRows
  BY DEF NoticeInv, NoticeTypes
<1>2. \A o \in Read(mine) : /\ o \in NoticeRows
                            /\ \E n \in mine : SameKey(o, n) /\ o = [n EXCEPT !.status = "read"]
  BY <1>1, ReadKeepsKey DEF Read
<1>3. \A n \in mine : \E o \in Read(mine) : SameKey(o, n)
  BY <1>1, ReadKeepsKey DEF Read
<1>4. \A o \in notices' : \E n \in notices : /\ SameKey(o, n)
                                             /\ \/ n \notin mine /\ o = n
                                                \/ n \in mine /\ o = [n EXCEPT !.status = "read"]
  BY <1>2 DEF SameKey
<1>5. \A n \in notices : \E o \in notices' : SameKey(o, n)
  BY <1>3 DEF SameKey
<1>6. NoticeTypes'
  BY <1>1, <1>2 DEF NoticeInv, NoticeTypes
<1>7. \A n, o \in notices' : SameKey(n, o) => n = o
  <2>. SUFFICES ASSUME NEW n \in notices', NEW o \in notices', SameKey(n, o)
                PROVE  n = o
    OBVIOUS
  <2>1. PICK n1 \in notices : /\ SameKey(n, n1)
                              /\ \/ n1 \notin mine /\ n = n1
                                 \/ n1 \in mine /\ n = [n1 EXCEPT !.status = "read"]
    BY <1>4
  <2>2. PICK o1 \in notices : /\ SameKey(o, o1)
                              /\ \/ o1 \notin mine /\ o = o1
                                 \/ o1 \in mine /\ o = [o1 EXCEPT !.status = "read"]
    BY <1>4
  <2>3. SameKey(n1, o1)
    BY <2>1, <2>2 DEF SameKey
  <2>4. n1 = o1
    BY <2>3 DEF NoticeInv, KeysAreUnique
  <2>. QED
    BY <2>1, <2>2, <2>4
<1>8. \A n \in mailed' : \E o \in notices' : SameKey(n, o)
  BY <1>5 DEF SameKey, NoticeInv, KeysAreUnique
<1>9. \A p \in Projections : \A n \in unsaved'[p], o \in notices' : ~SameKey(n, o)
  BY <1>4 DEF SameKey, NoticeInv, KeysAreUnique
<1>10. KeysAreUnique'
  BY <1>7, <1>8, <1>9 DEF NoticeInv, KeysAreUnique
<1>. QED
  BY <1>2, <1>6, <1>10 DEF NoticeInv

\* What ToldOnce says of a row that was read.
ReadStays ==
  \A m \in Alerted, e \in Happenings :
    (\E n \in For(notices, m, e) : n.status = "read") => For(notices', m, e) = For(notices, m, e)

LEMMA NoticeStepInv ==
  ASSUME NoticeInv, [NotificationsNext]_noticeVars
  PROVE  NoticeInv' /\ ReadStays
<1>1. NoticeTypes /\ KeysAreUnique
  BY DEF NoticeInv
<1>2. CASE UNCHANGED <<notices, unsaved, mailed>>
  BY <1>1, <1>2 DEF NoticeInv, NoticeTypes, KeysAreUnique, ReadStays
<1>3. ASSUME NEW p \in Projections, NEW m \in Alerted, NEW e \in Happenings, Enqueue(p, m, e)
      PROVE  NoticeInv' /\ ReadStays
  <2>1. PICK new : new = Notice(m, e, p)
    OBVIOUS
  <2>2. new \in NoticeRows /\ new.recipient = m /\ new.event = e
    BY <2>1 DEF Notice, NoticeRows
  <2>3. /\ unsaved' = [unsaved EXCEPT ![p] = unsaved[p] \union {new}]
        /\ UNCHANGED <<notices, mailed>>
    BY <1>3, <2>1 DEF Enqueue
  <2>4. /\ \A n \in notices : ~SameKey(n, new) /\ ~SameKey(new, n)
        /\ \A q \in Projections : \A n \in unsaved[q] : ~SameKey(n, new) /\ ~SameKey(new, n)
    BY <1>3, <2>2 DEF Enqueue, KeyFree, For, SameKey
  <2>5. /\ unsaved'[p] = unsaved[p] \union {new}
        /\ \A q \in Projections : q # p => unsaved'[q] = unsaved[q]
    BY <1>1, <2>3 DEF NoticeTypes
  <2>6. NoticeTypes'
    BY <1>1, <2>2, <2>3 DEF NoticeTypes
  <2>7. \A q \in Projections : \A n \in unsaved'[q] : n \in unsaved[q] \/ (n = new /\ q = p)
    <3>. TAKE q \in Projections
    <3>1. CASE q = p
      BY <2>5, <3>1
    <3>2. CASE q # p
      BY <2>5, <3>2
    <3>. QED
      BY <3>1, <3>2
  <2>8. KeysAreUnique'
    BY <1>1, <2>3, <2>4, <2>7 DEF KeysAreUnique
  <2>. QED
    BY <2>3, <2>6, <2>8 DEF NoticeInv, ReadStays
<1>4. ASSUME NEW p \in Projections, CommitProjection(p)
      PROVE  NoticeInv' /\ ReadStays
  <2>1. /\ notices' = notices \union unsaved[p]
        /\ mailed' \in {mailed, mailed \union unsaved[p]}
        /\ unsaved' = [unsaved EXCEPT ![p] = {}]
    BY <1>4 DEF CommitProjection
  <2>2. NoticeTypes'
    BY <1>1, <2>1 DEF NoticeTypes
  <2>3. \A q \in Projections : \A n \in unsaved'[q] : n \in unsaved[q] /\ q # p
    BY <1>1, <2>1 DEF NoticeTypes
  <2>4. \A n \in unsaved[p], o \in notices : ~SameKey(n, o) /\ ~SameKey(o, n)
    BY <1>1 DEF KeysAreUnique, SameKey
  <2>5. \A n \in unsaved[p], o \in mailed : ~SameKey(n, o) /\ ~SameKey(o, n)
    BY <1>1, <2>4 DEF KeysAreUnique, SameKey
  <2>6. KeysAreUnique'
    <3>1. \A n, o \in notices' : SameKey(n, o) => n = o
      BY <1>1, <2>1, <2>4 DEF KeysAreUnique
    <3>2. \A n, o \in mailed' : SameKey(n, o) => n = o
      BY <1>1, <2>1, <2>5 DEF KeysAreUnique
    <3>3. \A n \in mailed' : \E o \in notices' : SameKey(n, o)
      BY <1>1, <2>1 DEF KeysAreUnique, SameKey
    <3>4. \A q \in Projections : \A n, o \in unsaved'[q] : SameKey(n, o) => n = o
      BY <1>1, <2>3 DEF KeysAreUnique
    <3>5. \A q \in Projections : \A n \in unsaved'[q], o \in notices' : ~SameKey(n, o)
      BY <1>1, <2>1, <2>3 DEF KeysAreUnique
    <3>6. \A q, r \in Projections : q # r => \A n \in unsaved'[q], o \in unsaved'[r] : ~SameKey(n, o)
      BY <1>1, <2>3 DEF KeysAreUnique
    <3>. QED
      BY <3>1, <3>2, <3>3, <3>4, <3>5, <3>6 DEF KeysAreUnique
  <2>7. ReadStays
    <3>. SUFFICES ASSUME NEW m \in Alerted, NEW e \in Happenings, NEW n \in For(notices, m, e)
                  PROVE  For(notices', m, e) = For(notices, m, e)
      BY DEF ReadStays
    <3>1. \A o \in unsaved[p] : ~(o.recipient = m /\ o.event = e)
      BY <2>4 DEF For, SameKey
    <3>. QED
      BY <2>1, <3>1 DEF For
  <2>. QED
    BY <2>2, <2>6, <2>7 DEF NoticeInv
<1>5. ASSUME NEW p \in Projections, ProjectionFails(p)
      PROVE  NoticeInv' /\ ReadStays
  <2>1. unsaved' = [unsaved EXCEPT ![p] = {}] /\ UNCHANGED <<notices, mailed>>
    BY <1>5 DEF ProjectionFails
  <2>2. NoticeTypes'
    BY <1>1, <2>1 DEF NoticeTypes
  <2>3. \A q \in Projections : \A n \in unsaved'[q] : n \in unsaved[q]
    BY <1>1, <2>1 DEF NoticeTypes
  <2>4. KeysAreUnique'
    BY <1>1, <2>1, <2>3 DEF KeysAreUnique
  <2>. QED
    BY <2>1, <2>2, <2>4 DEF NoticeInv, ReadStays
<1>6. ASSUME NEW mine \in SUBSET notices,
             notices' = (notices \ mine) \union Read(mine), UNCHANGED <<unsaved, mailed>>,
             \A n \in mine : \A o \in notices : SameKey(o, n) => o.status # "read"
      PROVE  NoticeInv' /\ ReadStays
  <2>1. /\ NoticeInv'
        /\ \A n \in notices : n \notin mine => n \in notices'
        /\ \A o \in notices' : o \in notices \/ \E n \in mine : SameKey(o, n)
    BY <1>6, MarkedInv
  <2>2. ReadStays
    <3>. SUFFICES ASSUME NEW m \in Alerted, NEW e \in Happenings,
                         NEW n \in For(notices, m, e), n.status = "read"
                  PROVE  For(notices', m, e) = For(notices, m, e)
      BY DEF ReadStays
    <3>1. n \in notices /\ n.recipient = m /\ n.event = e
      BY DEF For
    <3>2. \A o \in mine : ~(o.recipient = m /\ o.event = e)
      BY <1>6, <3>1 DEF SameKey
    <3>3. \A o \in notices : o.recipient = m /\ o.event = e => o \in notices'
      BY <2>1, <3>2
    <3>4. \A o \in notices' : o.recipient = m /\ o.event = e => o \in notices
      BY <2>1, <3>2 DEF SameKey
    <3>. QED
      BY <3>3, <3>4 DEF For
  <2>. QED
    BY <2>1, <2>2
<1>7. ASSUME NEW m \in Alerted, NEW e \in Happenings, MarkRead(m, e)
      PROVE  NoticeInv' /\ ReadStays
  <2>1. PICK mine \in SUBSET notices : mine = For(notices, m, e)
    BY DEF For
  <2>2. /\ notices' = (notices \ mine) \union Read(mine) /\ UNCHANGED <<unsaved, mailed>>
        /\ \E n \in mine : n.status = "unread"
    BY <1>7, <2>1 DEF MarkRead
  <2>3. \A n \in mine : \A o \in notices : SameKey(o, n) => o.status # "read"
    BY <1>1, <2>1, <2>2 DEF For, KeysAreUnique, SameKey
  <2>. QED
    BY <1>6, <2>2, <2>3
<1>8. ASSUME NEW m \in Alerted, MarkAllRead(m)
      PROVE  NoticeInv' /\ ReadStays
  <2>1. PICK mine \in SUBSET notices : mine = {n \in notices : n.recipient = m /\ n.status = "unread"}
    OBVIOUS
  <2>2. notices' = (notices \ mine) \union Read(mine) /\ UNCHANGED <<unsaved, mailed>>
    BY <1>8, <2>1 DEF MarkAllRead
  <2>3. \A n \in mine : \A o \in notices : SameKey(o, n) => o.status # "read"
    BY <1>1, <2>1 DEF KeysAreUnique
  <2>. QED
    BY <1>6, <2>2, <2>3
<1>9. ASSUME \/ \E e \in Happenings : EventChanges(e)
             \/ \E p \in Projections : BeginProjection(p)
             \/ UNCHANGED noticeVars
      PROVE  UNCHANGED <<notices, unsaved, mailed>>
  BY <1>9 DEF EventChanges, BeginProjection, noticeVars
<1>. QED
  BY <1>2, <1>3, <1>4, <1>5, <1>7, <1>8, <1>9 DEF NotificationsNext

LEMMA NoticeRuns == Spec => NoticeInit /\ [][NotificationsNext]_noticeVars
<1>1. Init => NoticeInit
  BY DEF Init
<1>2. [Next]_workspaceVars => [NotificationsNext]_noticeVars
  BY DEF Next, workspaceVars
<1>. QED
  BY <1>1, <1>2, PTL DEF Spec

LEMMA NoticeInvariance == Spec => []NoticeInv
<1>1. NoticeInv /\ [NotificationsNext]_noticeVars => NoticeInv'
  BY NoticeStepInv
<1>. QED
  BY NoticeRuns, NoticeInitInv, <1>1, PTL

\* Rows of which no two share a recipient and an event hold one at most for each.
LEMMA OneForEach ==
  ASSUME NEW S, \A n, o \in S : SameKey(n, o) => n = o, NEW m, NEW e
  PROVE  Cardinality(For(S, m, e)) <= 1
<1>1. CASE For(S, m, e) = {}
  BY <1>1, FS_EmptySet
<1>2. CASE For(S, m, e) # {}
  <2>1. PICK n : n \in For(S, m, e)
    BY <1>2
  <2>2. For(S, m, e) = {n}
    BY <2>1 DEF For, SameKey
  <2>3. Cardinality({n}) = 1
    BY FS_Singleton
  <2>. QED
    BY <2>2, <2>3
<1>. QED
  BY <1>1, <1>2

\* Nobody is told or mailed twice about one event, and what was read stays
\* read, however many projections run at once.
THEOREM ToldOnceHolds == Spec => ToldOnce
<1>1. NoticeInv /\ [NotificationsNext]_noticeVars =>
        [\A m \in Alerted, e \in Happenings :
           /\ Cardinality(For(notices', m, e)) <= 1 /\ Cardinality(For(mailed', m, e)) <= 1
           /\ (\E n \in For(notices, m, e) : n.status = "read") =>
                For(notices', m, e) = For(notices, m, e)]_noticeVars
  <2>. SUFFICES ASSUME NoticeInv, [NotificationsNext]_noticeVars, NEW m \in Alerted, NEW e \in Happenings
                PROVE  /\ Cardinality(For(notices', m, e)) <= 1 /\ Cardinality(For(mailed', m, e)) <= 1
                       /\ (\E n \in For(notices, m, e) : n.status = "read") =>
                            For(notices', m, e) = For(notices, m, e)
    OBVIOUS
  <2>1. NoticeInv' /\ ReadStays
    BY NoticeStepInv
  <2>2. /\ \A n, o \in notices' : SameKey(n, o) => n = o
        /\ \A n, o \in mailed' : SameKey(n, o) => n = o
    BY <2>1 DEF NoticeInv, KeysAreUnique
  <2>3. PICK S, T : S = notices' /\ T = mailed'
    OBVIOUS
  <2>4. Cardinality(For(S, m, e)) <= 1 /\ Cardinality(For(T, m, e)) <= 1
    BY <2>2, <2>3, OneForEach
  <2>. QED
    BY <2>1, <2>3, <2>4 DEF ReadStays
<1>2. Spec =>
        [][\A m \in Alerted, e \in Happenings :
             /\ Cardinality(For(notices', m, e)) <= 1 /\ Cardinality(For(mailed', m, e)) <= 1
             /\ (\E n \in For(notices, m, e) : n.status = "read") =>
                  For(notices', m, e) = For(notices, m, e)]_noticeVars
  BY <1>1, NoticeRuns, NoticeInvariance, PTL
<1>. QED
  BY <1>2, PTL DEF ToldOnce

-----------------------------------------------------------------------------
(* Proofs: analysis *)

LEMMA TwoOfTwo ==
  ASSUME NEW S, NEW a, NEW b, a # b
  PROVE  Cardinality(S \intersect {a, b}) >= 2 <=> {a, b} \subseteq S
<1>. DEFINE both == {a} \union {b}
<1>1. IsFiniteSet({a}) /\ Cardinality({a}) = 1
  BY FS_Singleton
<1>2. IsFiniteSet(both) /\ Cardinality(both) = 2
  <2>1. /\ IsFiniteSet({a} \union {b})
        /\ Cardinality({a} \union {b}) = IF b \in {a} THEN Cardinality({a}) ELSE Cardinality({a}) + 1
    BY <1>1, FS_AddElement
  <2>. QED
    BY <1>1, <2>1
<1>3. both = {a, b}
  OBVIOUS
<1>. HIDE DEF both
<1>4. PICK T \in SUBSET both : T = S \intersect both
  OBVIOUS
<1>5. /\ IsFiniteSet(T) /\ Cardinality(T) <= Cardinality(both)
      /\ Cardinality(both) = Cardinality(T) => both = T
  BY <1>2, FS_Subset
<1>6. Cardinality(T) \in Nat
  BY <1>5, FS_CardinalityType
<1>7. Cardinality(T) >= 2 <=> both = T
  <2>1. Cardinality(T) >= 2 => Cardinality(both) = Cardinality(T)
    BY <1>2, <1>5, <1>6
  <2>2. both = T => Cardinality(T) >= 2
    BY <1>2
  <2>. QED
    BY <1>5, <2>1, <2>2
<1>. QED
  BY <1>3, <1>4, <1>7

LEMMA InputFields ==
  ASSUME NEW w \in Inputs
  PROVE  /\ w.category \in Categories /\ w.current \in BOOLEAN /\ w.more \in BOOLEAN
         /\ w.impact \in Impacts /\ w.policy \in PolicyStatuses
BY DEF Inputs

\* No category's gap is left exactly when its records prove the outcome.
LEMMA GapsAreWhatIsUnproven ==
  ASSUME NEW w \in Inputs
  PROVE  InformationGaps(w) = {} <=> w.policy = "relevant" /\ w.current /\ ~w.more /\ Proven(w)
<1>1. SettledPayments(w) <=> {"settled payment A", "settled payment B"} \subseteq w.records
  BY TwoOfTwo DEF SettledPayments
<1>2. CategoryGaps(w) = {} <=> Proven(w)
  <2>1. CASE w.category = "billing_dispute"
    BY <1>1, <2>1 DEF CategoryGaps, Proven
  <2>2. CASE w.category = "refund_request"
    BY <2>2 DEF CategoryGaps, Proven
  <2>3. CASE w.category = "account_access"
    BY <2>3 DEF CategoryGaps, Proven, ConflictingOwnership
  <2>4. CASE w.category = "service_exception"
    BY <2>4 DEF CategoryGaps, Proven
  <2>. QED
    BY <2>1, <2>2, <2>3, <2>4, InputFields DEF Categories
<1>. QED
  BY <1>2 DEF InformationGaps

\* The fields of an analysis that decide who may approve it.
SameVerdict(a, b) ==
  /\ a.policy = b.policy /\ a.state = b.state /\ a.risks = b.risks
  /\ a.response = b.response /\ a.impact = b.impact

\* A function on 1..n is a sequence of n elements.
LEMMA FunctionIsSequence ==
  ASSUME NEW n \in Nat, NEW S, NEW f \in [1..n -> S]
  PROVE  f \in Seq(S) /\ Len(f) = n
<1>1. f = [i \in 1..n |-> f[i]]
  OBVIOUS
<1>2. \A i \in 1..n : f[i] \in S
  OBVIOUS
<1>3. [i \in 1..n |-> f[i]] \in Seq(S)
  BY <1>2
<1>4. Len([i \in 1..n |-> f[i]]) = n
  OBVIOUS
<1>. QED
  BY <1>1, <1>3, <1>4

\* Each of the engine's own checkpoints goes on from the one before it.
LEMMA CheckpointsChain ==
  ASSUME NEW w, NEW gaps, NEW state, NEW cps, cps = Checkpoints(w, gaps, state)
  PROVE  /\ \E S : cps \in Seq(S)
         /\ Len(cps) = 4
         /\ \A i \in 1..4 : /\ cps[i].sequence = i
                            /\ cps[i].input = IF i = 1 THEN "input" ELSE cps[i - 1].output
<1>. DEFINE steps == <<"case_context", "policy_evidence", "risk_evaluation", "decision_brief">>
            outputs == [i \in 1..4 |-> <<steps[i], w.policy, gaps, state>>]
<1>1. cps = [i \in 1..4 |-> Checkpoint(i, IF i = 1 THEN "input" ELSE outputs[i - 1], outputs[i])]
  BY DEF Checkpoints
<1>. HIDE DEF outputs
<1>2. \A i \in 1..4 : cps[i] = [sequence |-> i, input |-> IF i = 1 THEN "input" ELSE outputs[i - 1],
                                output |-> outputs[i]]
  BY <1>1 DEF Checkpoint
<1>3. \A i \in 1..4 : /\ cps[i].sequence = i
                      /\ cps[i].input = IF i = 1 THEN "input" ELSE outputs[i - 1]
                      /\ cps[i].output = outputs[i]
  BY <1>2
<1>4. \A i \in 1..4 : i # 1 => i - 1 \in 1..4
  OBVIOUS
<1>5. \A i \in 1..4 : cps[i].input = IF i = 1 THEN "input" ELSE cps[i - 1].output
  BY <1>3, <1>4
<1>6. PICK S : S = {cps[i] : i \in 1..4}
  OBVIOUS
<1>7. cps \in [1..4 -> S]
  BY <1>1, <1>6
<1>8. cps \in Seq(S) /\ Len(cps) = 4
  BY <1>7, FunctionIsSequence
<1>. QED
  BY <1>3, <1>5, <1>8

\* One more checkpoint keeps the chain.
LEMMA ChainGoesOn ==
  ASSUME NEW w, NEW gaps, NEW state, NEW a, NEW b, NEW output,
         a.checkpoints = Checkpoints(w, gaps, state),
         b.checkpoints = Append(a.checkpoints, AiCheckpoint(a, output))
  PROVE  ChainHolds(a) /\ ChainHolds(b)
<1>1. PICK cps : cps = a.checkpoints
  OBVIOUS
<1>2. /\ \E S : cps \in Seq(S)
      /\ Len(cps) = 4
      /\ \A i \in 1..4 : /\ cps[i].sequence = i
                         /\ cps[i].input = IF i = 1 THEN "input" ELSE cps[i - 1].output
  BY <1>1, CheckpointsChain
<1>3. ChainHolds(a)
  BY <1>1, <1>2 DEF ChainHolds
<1>4. PICK last : last = AiCheckpoint(a, output)
  OBVIOUS
<1>5. last.sequence = 5 /\ last.input = cps[4].output
  <2>1. last = [sequence |-> 4 + 1, input |-> cps[4].output, output |-> output]
    BY <1>1, <1>2, <1>4 DEF AiCheckpoint, Checkpoint
  <2>. QED
    BY <2>1
<1>6. PICK S : cps \in Seq(S)
  BY <1>2
<1>7. PICK T : T = S \union {last}
  OBVIOUS
<1>8. cps \in Seq(T) /\ last \in T
  <2>1. S \subseteq T
    BY <1>7
  <2>. QED
    BY <1>6, <1>7, <2>1, SeqMonotonic
<1>9. PICK more : more = Append(cps, last)
  OBVIOUS
<1>10. /\ Len(more) = 4 + 1
       /\ \A i \in 1..4 : more[i] = cps[i]
       /\ more[4 + 1] = last
  <2>1. /\ Len(more) = Len(cps) + 1
        /\ \A i \in 1..Len(cps) : more[i] = cps[i]
        /\ more[Len(cps) + 1] = last
    BY <1>8, <1>9, AppendProperties
  <2>. QED
    BY <1>2, <2>1
<1>11. Len(more) = 5 /\ more[5] = last
  BY <1>10
<1>12. ASSUME NEW i \in 1..5
       PROVE  more[i].sequence = i /\ more[i].input = IF i = 1 THEN "input" ELSE more[i - 1].output
  <2>1. CASE i \in 1..4
    <3>1. more[i] = cps[i] /\ (i # 1 => i - 1 \in 1..4)
      BY <1>10, <2>1
    <3>2. i # 1 => more[i - 1] = cps[i - 1]
      BY <1>10, <3>1
    <3>. QED
      BY <1>2, <2>1, <3>1, <3>2
  <2>2. CASE i = 5
    <3>1. more[4] = cps[4] /\ i - 1 = 4 /\ i # 1
      BY <1>10, <2>2
    <3>. QED
      BY <1>5, <1>11, <2>2, <3>1
  <2>. QED
    BY <2>1, <2>2
<1>13. b.checkpoints = more
  BY <1>1, <1>4, <1>9
<1>. QED
  BY <1>3, <1>11, <1>12, <1>13 DEF ChainHolds

\* What the engine hands over carries the verdict of the analysis, governed or
\* aligned wording, and checkpoints that go on from one another.
LEMMA OutcomesKeepVerdict ==
  ASSUME NEW w, NEW a \in Outcomes(w)
  PROVE  /\ SameVerdict(a, Analysis(w))
         /\ a.wording \in {"governed", "aligned"}
         /\ ChainHolds(a)
<1>1. PICK base : base = Analysis(w)
  OBVIOUS
<1>2. /\ DOMAIN base = {"status", "policy", "gaps", "risks", "state", "confidence", "action", "impact",
                        "response", "wording", "checkpoints"}
      /\ base.wording = "governed"
      /\ \E gaps, state : base.checkpoints = Checkpoints(w, gaps, state)
  BY <1>1 DEF Analysis
<1>3. PICK gaps, state : base.checkpoints = Checkpoints(w, gaps, state)
  BY <1>2
<1>4. CASE a = base
  <2>1. PICK b : b = [base EXCEPT !.checkpoints = Append(base.checkpoints, AiCheckpoint(base, "any"))]
    OBVIOUS
  <2>2. b.checkpoints = Append(base.checkpoints, AiCheckpoint(base, "any"))
    BY <1>2, <2>1
  <2>3. ChainHolds(base)
    BY <1>3, <2>2, ChainGoesOn
  <2>. QED
    BY <1>1, <1>2, <1>4, <2>3 DEF SameVerdict
<1>5. ASSUME NEW n \in Narratives, Kept(n), a = Worded(base, n)
      PROVE  SameVerdict(a, base) /\ a.wording \in {"governed", "aligned"} /\ ChainHolds(a)
  <2>1. PICK cps : cps = Append(base.checkpoints, AiCheckpoint(base, <<"ai_narrative", n>>))
    OBVIOUS
  <2>2. a = [base EXCEPT !.wording = n, !.checkpoints = cps]
    BY <1>5, <2>1 DEF Worded
  <2>3. /\ a.policy = base.policy /\ a.state = base.state /\ a.risks = base.risks
        /\ a.response = base.response /\ a.impact = base.impact
        /\ a.wording = n /\ a.checkpoints = cps
    BY <1>2, <2>2
  <2>4. n = "aligned"
    BY <1>5 DEF Kept, Narratives
  <2>5. ChainHolds(a)
    BY <1>3, <2>1, <2>3, ChainGoesOn
  <2>. QED
    BY <2>3, <2>4, <2>5 DEF SameVerdict
<1>6. ASSUME NEW n \in Narratives, a = Retained(base, n)
      PROVE  SameVerdict(a, base) /\ a.wording \in {"governed", "aligned"} /\ ChainHolds(a)
  <2>1. PICK cps : cps = Append(base.checkpoints, AiCheckpoint(base, <<"ai_narrative", n>>))
    OBVIOUS
  <2>2. a = [base EXCEPT !.checkpoints = cps]
    BY <1>6, <2>1 DEF Retained
  <2>3. /\ a.policy = base.policy /\ a.state = base.state /\ a.risks = base.risks
        /\ a.response = base.response /\ a.impact = base.impact
        /\ a.wording = base.wording /\ a.checkpoints = cps
    BY <1>2, <2>2
  <2>4. ChainHolds(a)
    BY <1>3, <2>1, <2>3, ChainGoesOn
  <2>. QED
    BY <1>2, <2>3, <2>4 DEF SameVerdict
<1>. QED
  BY <1>1, <1>4, <1>5, <1>6 DEF Outcomes

\* An approval is offered exactly for a proven case and to those who may give it.
LEMMA VerdictIsEarned ==
  ASSUME NEW w \in Inputs, NEW a, SameVerdict(a, Analysis(w)), NEW reviewer \in Roles
  PROVE  "approve" \in AllowedDecisions(a, reviewer) <=>
           /\ w.policy = "relevant" /\ w.current /\ ~w.more /\ Proven(w)
           /\ \/ reviewer = "administrator"
              \/ /\ reviewer = "supervisor"
                 /\ w.category \in {"billing_dispute", "refund_request"} =>
                      w.impact \in {"none", "below limit"}
<1>1. PICK gaps : gaps = InformationGaps(w)
  OBVIOUS
<1>2. PICK state : state = StateOf(w, gaps)
  OBVIOUS
<1>3. /\ a.policy = w.policy /\ a.state = state /\ a.risks = RiskChecks(w, gaps)
      /\ a.response = ResponseOf(state) /\ a.impact = ImpactOf(w, state)
  BY <1>1, <1>2 DEF SameVerdict, Analysis
<1>4. gaps = {} <=> w.policy = "relevant" /\ w.current /\ ~w.more /\ Proven(w)
  BY <1>1, GapsAreWhatIsUnproven
<1>5. ApprovalIsSafe(a) <=> gaps = {}
  <2>1. ApprovalIsSafe(a) => gaps = {}
    BY <1>2, <1>3 DEF ApprovalIsSafe, StateOf
  <2>2. ASSUME gaps = {}
        PROVE  ApprovalIsSafe(a)
    <3>1. w.policy = "relevant" /\ w.current /\ state = "ready_for_review"
      BY <1>2, <1>4, <2>2 DEF StateOf
    <3>2. a.response # "blocked"
      BY <1>3, <3>1 DEF ResponseOf
    <3>3. \A r \in DOMAIN a.risks : a.risks[r] \in {"passed", "requires_review"}
      BY <1>3, <2>2, <3>1 DEF RiskChecks
    <3>. QED
      BY <1>3, <3>1, <3>2, <3>3 DEF ApprovalIsSafe
  <2>. QED
    BY <2>1, <2>2
<1>6. "approve" \in AllowedDecisions(a, reviewer) <=>
        RoleSatisfies(reviewer, RequiredRole(a)) /\ ApprovalIsSafe(a)
  BY DEF AllowedDecisions
<1>7. ASSUME gaps = {}
      PROVE  RoleSatisfies(reviewer, RequiredRole(a)) <=>
               \/ reviewer = "administrator"
               \/ /\ reviewer = "supervisor"
                  /\ w.category \in {"billing_dispute", "refund_request"} =>
                       w.impact \in {"none", "below limit"}
  <2>1. w.policy = "relevant" /\ state = "ready_for_review" /\ w.impact \in Impacts
    BY <1>2, <1>4, <1>7, InputFields DEF StateOf
  <2>2. RequiredRole(a) = IF w.category \in {"billing_dispute", "refund_request"}
                             /\ w.impact \in {"at limit", "no limit"} THEN "administrator" ELSE "supervisor"
    BY <1>3, <2>1 DEF RequiredRole, FinancialAdminRequired, ImpactOf
  <2>. QED
    BY <2>1, <2>2 DEF RoleSatisfies, Impacts
<1>. QED
  BY <1>4, <1>5, <1>6, <1>7

LEMMA EngineStepInv ==
  ASSUME EngineInv, [EngineNext]_engineVars
  PROVE  EngineInv'
<1>1. CASE PrepareInput
  BY <1>1 DEF PrepareInput, EngineInv
<1>2. CASE Analyze
  BY <1>2 DEF Analyze, EngineInv
<1>3. ASSUME NEW n \in Narratives, Refine(n)
      PROVE  EngineInv'
  <2>1. /\ phase = "analysed" /\ phase' = "worded" /\ UNCHANGED input /\ input \in Inputs
        /\ analysis = Analysis(input)
    BY <1>3 DEF Refine, EngineInv
  <2>2. analysis.status = "completed" => input.policy = "relevant"
    BY <2>1 DEF Analysis
  <2>3. analysis' \in Outcomes(input)
    BY <1>3, <2>1, <2>2 DEF Refine, Outcomes
  <2>. QED
    BY <2>1, <2>3 DEF EngineInv
<1>4. CASE VerifyCheckpointChain
  <2>1. /\ phase \in {"analysed", "worded"} /\ UNCHANGED <<input, analysis>> /\ input \in Inputs
        /\ phase' = IF ChainHolds(analysis) THEN "verified" ELSE "refused"
    BY <1>4 DEF VerifyCheckpointChain, EngineInv
  <2>2. analysis \in Outcomes(input)
    BY <2>1 DEF EngineInv, Outcomes
  <2>3. ChainHolds(analysis)
    <3>1. PICK w, a : w = input /\ a = analysis
      OBVIOUS
    <3>. QED
      BY <2>2, <3>1, OutcomesKeepVerdict
  <2>. QED
    BY <2>1, <2>2, <2>3 DEF EngineInv
<1>5. CASE UNCHANGED engineVars
  BY <1>5 DEF engineVars, EngineInv
<1>. QED
  BY <1>1, <1>2, <1>3, <1>4, <1>5 DEF EngineNext

\* Approval is offered exactly to those who may give it, for a case whose
\* records prove its outcome under current policy, and a model's wording
\* never claims what was not done or breaks the chain of checkpoints.
THEOREM ApprovalIsEarnedHolds == Spec => []ApprovalIsEarned
<1>1. Init => EngineInv
  BY DEF Init, EngineInit, EngineInv
<1>2. EngineInv /\ [Next]_workspaceVars => EngineInv'
  <2>1. [Next]_workspaceVars => [EngineNext]_engineVars
    BY DEF Next, workspaceVars
  <2>. QED
    BY <2>1, EngineStepInv
<1>3. EngineInv => ApprovalIsEarned
  <2>. SUFFICES ASSUME EngineInv, phase = "verified"
                PROVE  ApprovalIsEarned
    BY DEF EngineInv, ApprovalIsEarned
  <2>1. PICK w \in Inputs : \E a \in Outcomes(w) : w = input /\ a = analysis
    BY DEF EngineInv
  <2>2. PICK a \in Outcomes(w) : w = input /\ a = analysis
    BY <2>1
  <2>3. SameVerdict(a, Analysis(w)) /\ a.wording \in {"governed", "aligned"}
    BY OutcomesKeepVerdict
  <2>4. \A reviewer \in Roles :
          "approve" \in AllowedDecisions(a, reviewer) <=>
            /\ w.policy = "relevant" /\ w.current /\ ~w.more /\ Proven(w)
            /\ \/ reviewer = "administrator"
               \/ /\ reviewer = "supervisor"
                  /\ w.category \in {"billing_dispute", "refund_request"} =>
                       w.impact \in {"none", "below limit"}
    BY <2>3, VerdictIsEarned
  <2>. QED
    BY <2>2, <2>3, <2>4 DEF ApprovalIsEarned
<1>. QED
  BY <1>1, <1>2, <1>3, PTL DEF Spec

=============================================================================
