---------------------------- MODULE Organizations ----------------------------
(***************************************************************************)
(* One workspace: its members, its invitations and its settings            *)
(* (persistence/identity_repository.py, persistence/settings_repository.py *)
(* behind api/routes/organizations.py and settings.py).  A request reads   *)
(* its actor in one transaction and acts in a later one; what serialises   *)
(* the commands is the lock on the organization row.  An invitation is     *)
(* delivered by the identity provider while its transaction is open.       *)
(* supervisor, auditor and specialist manage neither members nor settings  *)
(* and are one role here.                                                  *)
(***************************************************************************)
EXTENDS Integers, FiniteSets

CONSTANTS
  People,       \* identities; each has one verified address
  Founders,     \* the administrators the workspace starts with
  Invitations,  \* invitation rows
  OrgRequests,  \* requests that may run at once
  MaxMemberVersion, MaxSettingsVersion  \* bounds: versions written

ASSUME FoundersAssumption == Founders \subseteq People /\ Founders # {}

VARIABLES
  role, status, version,  \* MembershipModel by person; status "absent" without a row
  invitee,                \* InvitationModel.email
  invitedRole,            \* .role
  invitation,             \* .status, "unused" before it is committed
  expired,                \* .expires_at has passed
  provider,               \* sign-in invitation at the identity provider
  settings,               \* OrganizationSettingModel.version
  gateway,                \* an invitation gateway is configured
  step,                   \* where each request is
  actor,                  \* whom it acts for
  subject,                \* the person it is about
  seen,                   \* the version its client read
  row,                    \* the invitation it writes, accepts or revokes
  shares                  \* requests whose insert holds the organization row FOR KEY SHARE

members == <<role, status, version>>
invitations == <<invitee, invitedRole, invitation, expired>>
requests == <<step, actor, subject, seen, row>>
orgVars == <<members, invitations, provider, settings, gateway, requests, shares>>

MemberRole == {"administrator", "specialist"}
MemberStatus == {"absent", "active", "deactivated"}
InvitationStatus == {"unused", "pending", "accepted", "revoked"}

Nobody == "nobody"
NoRow == "no row"

OrgInit ==
  /\ role = [p \in People |-> IF p \in Founders THEN "administrator" ELSE "specialist"]
  /\ status = [p \in People |-> IF p \in Founders THEN "active" ELSE "absent"]
  /\ version = [p \in People |-> 1]
  /\ invitee = [i \in Invitations |-> Nobody]
  /\ invitedRole = [i \in Invitations |-> "specialist"]
  /\ invitation = [i \in Invitations |-> "unused"]
  /\ expired = [i \in Invitations |-> FALSE]
  /\ provider = [i \in Invitations |-> "none"]
  /\ settings = 1
  /\ gateway \in BOOLEAN
  /\ step = [r \in OrgRequests |-> "idle"]
  /\ actor = [r \in OrgRequests |-> Nobody]
  /\ subject = [r \in OrgRequests |-> Nobody]
  /\ seen = [r \in OrgRequests |-> 0]
  /\ row = [r \in OrgRequests |-> NoRow]
  /\ shares = {}

-----------------------------------------------------------------------------
(* Authentication *)

\* resolve_actor_by_subject
Active(p) == status[p] = "active"

\* ROLE_PERMISSIONS: member:invite, member:manage and settings:manage.
MayManage(p) == Active(p) /\ role[p] = "administrator"

\* The actor and its permissions are read once, before the command's own
\* transaction; the client sends the version it read.
Authenticate(r, p, q, v, i, next) ==
  /\ step[r] = "idle"
  /\ step' = [step EXCEPT ![r] = next]
  /\ actor' = [actor EXCEPT ![r] = p]
  /\ subject' = [subject EXCEPT ![r] = q]
  /\ seen' = [seen EXCEPT ![r] = v]
  /\ row' = [row EXCEPT ![r] = i]
  /\ UNCHANGED <<members, invitations, provider, settings, gateway, shares>>

Respond(r) ==
  /\ step' = [step EXCEPT ![r] = "idle"]
  /\ actor' = [actor EXCEPT ![r] = Nobody]
  /\ subject' = [subject EXCEPT ![r] = Nobody]
  /\ seen' = [seen EXCEPT ![r] = 0]
  /\ row' = [row EXCEPT ![r] = NoRow]

\* The organization row can be locked FOR UPDATE.
OrganizationFree(r) == shares \subseteq {r}

-----------------------------------------------------------------------------
(* Members *)

BeginUpdateMember(r, p, q) ==
  /\ MayManage(p) /\ status[q] # "absent"
  /\ Authenticate(r, p, q, version[q], NoRow, "updating")

\* Mutant of OtherAdministrators: the member itself is counted.
CountedAdministrators(q) == {p \in People : MayManage(p)}

\* The count under the lock leaves the member itself out.
OtherAdministrators(q) == {p \in People \ {q} : MayManage(p)}

\* update_member: the actor must still be active; its role is not read again.
UpdateMember(r, newRole, newStatus) ==
  LET q == subject[r] IN
  /\ step[r] = "updating" /\ OrganizationFree(r)
  /\ Active(actor[r]) /\ version[q] = seen[r] /\ version[q] < MaxMemberVersion
  /\ q # actor[r]
  /\ MayManage(q) => OtherAdministrators(q) # {}
  /\ <<newRole, newStatus>> # <<role[q], status[q]>>
  /\ role' = [role EXCEPT ![q] = newRole]
  /\ status' = [status EXCEPT ![q] = newStatus]
  /\ version' = [version EXCEPT ![q] = @ + 1]
  /\ Respond(r)
  /\ UNCHANGED <<invitations, provider, settings, gateway, shares>>

-----------------------------------------------------------------------------
(* Settings *)

BeginUpdateSettings(r, p) ==
  /\ MayManage(p)
  /\ Authenticate(r, p, Nobody, settings, NoRow, "configuring")

\* Mutant of SettingsCurrent: the last writer wins.
SettingsOverwritten(r) == settings < MaxSettingsVersion

\* A section without a row is at version 1.
SettingsCurrent(r) == settings = seen[r] /\ settings < MaxSettingsVersion

UpdateSettings(r) ==
  /\ step[r] = "configuring" /\ OrganizationFree(r)
  /\ Active(actor[r]) /\ SettingsCurrent(r)
  /\ settings' = settings + 1
  /\ Respond(r)
  /\ UNCHANGED <<members, invitations, provider, gateway, shares>>

-----------------------------------------------------------------------------
(* Invitations *)

BeginInvite(r, p, q) ==
  /\ MayManage(p)
  /\ Authenticate(r, p, q, 0, NoRow, "inviting")

Pending(i, q) == invitation[i] = "pending" /\ invitee[i] = q

\* create_invitation: the checks take no lock; the insert shares the
\* organization row and nobody else sees the new row yet.
InsertInvitation(r, i, newRole) ==
  LET q == subject[r] IN
  /\ step[r] = "inviting"
  /\ Active(actor[r]) /\ status[q] = "absent"
  /\ \A j \in Invitations : ~Pending(j, q)
  /\ invitation[i] = "unused" /\ \A s \in OrgRequests : step[s] \in {"inserted", "sent"} => row[s] # i
  /\ invitee' = [invitee EXCEPT ![i] = q]
  /\ invitedRole' = [invitedRole EXCEPT ![i] = newRole]
  /\ step' = [step EXCEPT ![r] = "inserted"]
  /\ row' = [row EXCEPT ![r] = i]
  /\ shares' = shares \union {r}
  /\ UNCHANGED <<members, invitation, expired, provider, settings, gateway, actor, subject, seen>>

\* The provider takes the invitation, or fails; when its answer is lost the
\* transaction is rolled back and the sign-in invitation stays.
SendInvitation(r) ==
  /\ step[r] = "inserted" /\ gateway
  /\ \/ /\ provider' = [provider EXCEPT ![row[r]] = "sent"]
        /\ step' = [step EXCEPT ![r] = "sent"]
        /\ UNCHANGED <<actor, subject, seen, row, shares>>
     \/ /\ provider' \in {provider, [provider EXCEPT ![row[r]] = "sent"]}
        /\ shares' = shares \ {r}
        /\ Respond(r)
  /\ UNCHANGED <<members, invitations, settings, gateway>>

\* attach_invitation_delivery locks the organization row, then the commit.
CommitInvitation(r) ==
  /\ step[r] = (IF gateway THEN "sent" ELSE "inserted")
  /\ gateway => OrganizationFree(r)
  /\ invitation' = [invitation EXCEPT ![row[r]] = "pending"]
  /\ shares' = shares \ {r}
  /\ Respond(r)
  /\ UNCHANGED <<members, invitee, invitedRole, expired, provider, settings, gateway>>

\* Two of them wait for each other's share and the database ends one, or the
\* commit fails: the sign-in invitation is withdrawn if the provider answers.
InvitationRolledBack(r) ==
  /\ step[r] = "sent"
  /\ provider' \in {provider, [provider EXCEPT ![row[r]] = "withdrawn"]}
  /\ shares' = shares \ {r}
  /\ Respond(r)
  /\ UNCHANGED <<members, invitations, settings, gateway>>

\* get_invited_identity: the account at the provider may name the invitation
\* it was created from.
InvitedIdentity(p) == {i \in Invitations : provider[i] = "sent" /\ invitee[i] = p} \union {NoRow}

\* provision_actor
BeginAccept(r, p, hint) ==
  /\ ~Active(p)
  /\ hint \in InvitedIdentity(p)
  /\ Authenticate(r, p, p, 0, hint, "joining")

\* Mutant of Offered: a revoked invitation still matches its address.
OfferedOnce(r) == {i \in Invitations : invitation[i] \in {"pending", "revoked"} /\ invitee[i] = actor[r]}

\* The pending invitations of the verified address, locked with the
\* organization row.
Offered(r) == {i \in Invitations : Pending(i, actor[r])}

\* The hinted invitation when it is among them, else the only one.
Chosen(r) == IF row[r] \in Offered(r) THEN {row[r]} ELSE Offered(r)

AcceptInvitation(r) ==
  LET p == actor[r] IN
  /\ step[r] = "joining" /\ OrganizationFree(r)
  /\ ~Active(p)
  /\ \E i \in Chosen(r) :
       /\ Chosen(r) = {i} /\ ~expired[i]
       /\ status[p] = "absent"
       /\ invitation' = [invitation EXCEPT ![i] = "accepted"]
       /\ role' = [role EXCEPT ![p] = invitedRole[i]]
       /\ status' = [status EXCEPT ![p] = "active"]
  /\ Respond(r)
  /\ UNCHANGED <<version, invitee, invitedRole, expired, provider, settings, gateway, shares>>

BeginRevoke(r, p, i) ==
  /\ MayManage(p) /\ invitation[i] = "pending"
  /\ Authenticate(r, p, Nobody, 0, i, "revoking")

\* revoke_invitation: a version that moved, or a status that is not pending,
\* is refused.
RevokeInvitation(r) ==
  LET i == row[r] IN
  /\ step[r] = "revoking" /\ OrganizationFree(r)
  /\ Active(actor[r]) /\ invitation[i] = "pending"
  /\ invitation' = [invitation EXCEPT ![i] = "revoked"]
  /\ step' = [step EXCEPT ![r] = "withdrawing"]
  /\ UNCHANGED <<members, invitee, invitedRole, expired, provider, settings, gateway, actor, subject, seen, row, shares>>

\* After the commit: the provider may fail to withdraw it.
WithdrawInvitation(r) ==
  /\ step[r] = "withdrawing"
  /\ provider' \in IF gateway THEN {provider, [provider EXCEPT ![row[r]] = "withdrawn"]} ELSE {provider}
  /\ Respond(r)
  /\ UNCHANGED <<members, invitations, settings, gateway, shares>>

InvitationExpires(i) ==
  /\ invitation[i] = "pending" /\ ~expired[i]
  /\ expired' = [expired EXCEPT ![i] = TRUE]
  /\ UNCHANGED <<members, invitee, invitedRole, invitation, provider, settings, gateway, requests, shares>>

\* Every other end of a command: refused, nothing changed, or its process
\* is gone and its transaction rolled back.
OrgRequestEnds(r) ==
  /\ step[r] \notin {"idle", "sent"}
  /\ shares' = shares \ {r}
  /\ Respond(r)
  /\ UNCHANGED <<members, invitations, provider, settings, gateway>>

-----------------------------------------------------------------------------
UpdatesMember(r) ==
  \/ \E p, q \in People : BeginUpdateMember(r, p, q)
  \/ \E newRole \in MemberRole, newStatus \in {"active", "deactivated"} : UpdateMember(r, newRole, newStatus)

UpdatesSettings(r) == (\E p \in People : BeginUpdateSettings(r, p)) \/ UpdateSettings(r)

Invites(r) ==
  \/ \E p, q \in People : BeginInvite(r, p, q)
  \/ \E i \in Invitations, newRole \in MemberRole : InsertInvitation(r, i, newRole)
  \/ SendInvitation(r) \/ CommitInvitation(r) \/ InvitationRolledBack(r)
  \/ \E p \in People, i \in Invitations : BeginRevoke(r, p, i)
  \/ RevokeInvitation(r) \/ WithdrawInvitation(r)

Joins(r) ==
  \/ \E p \in People, hint \in Invitations \union {NoRow} : BeginAccept(r, p, hint)
  \/ AcceptInvitation(r)

MembersNext ==
  \/ \E i \in Invitations : InvitationExpires(i)
  \/ \E r \in OrgRequests : UpdatesMember(r) \/ Invites(r) \/ Joins(r) \/ OrgRequestEnds(r)

\* Settings are changed while the authors' memberships change.
SettingsNext == \E r \in OrgRequests : UpdatesSettings(r) \/ UpdatesMember(r) \/ OrgRequestEnds(r)

-----------------------------------------------------------------------------
(* Properties *)

\* "At least one active administrator must remain in the organization",
\* however the administrators' commands against each other interleave.
AdministratorRemains == \E p \in People : MayManage(p)

\* Nobody joins but by a pending invitation of that address and with its
\* role, and an invitation that was accepted or revoked stays so.
InvitationsSettle ==
  [][/\ \A i \in Invitations : invitation[i] \in {"accepted", "revoked"} => invitation'[i] = invitation[i]
     /\ \A p \in People : status[p] = "absent" /\ status'[p] # "absent" =>
          \E i \in Invitations : /\ Pending(i, p) /\ ~expired[i]
                                 /\ invitation'[i] = "accepted" /\ role'[p] = invitedRole[i]]_orgVars

\* A version of the settings is written from the version before it: two
\* administrators never overwrite each other's change unseen.
SettingsBuildOnSeen ==
  [][settings' # settings => \E r \in OrgRequests : step[r] = "configuring" /\ seen[r] = settings]_orgVars

=============================================================================
