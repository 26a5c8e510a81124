------------------------------ MODULE MCWorkspace ------------------------------
(***************************************************************************)
(* The parts of a workspace that share no row with one another, each       *)
(* explored by itself: a behaviour is one of one part, the others rest.    *)
(***************************************************************************)
EXTENDS Organizations, Connections, CaseWork, DecisionEngine, Listings, Notifications, TLC

VARIABLE part  \* the part that runs

Parts == {"members", "settings", "inbox", "runtime", "cases", "analysis", "lists", "notices"}

workspaceVars == <<part, orgVars, connectionVars, caseVars, engineVars, listVars, noticeVars>>

\* The choices of a part at rest are fixed.
Init ==
  /\ part \in Parts
  /\ OrgInit /\ (gateway => part = "members")
  /\ NoticeInit /\ (mail => part = "notices")
  /\ ListInit /\ (part # "lists" => \A r \in Rows : rank[r] = 1 /\ due[r] = 1)
  /\ ConnectionsInit /\ CaseInit /\ EngineInit

Next ==
  /\ UNCHANGED part
  /\ \/ /\ \/ part = "members" /\ MembersNext
           \/ part = "settings" /\ SettingsNext
        /\ UNCHANGED <<connectionVars, caseVars, engineVars, listVars, noticeVars>>
     \/ /\ \/ part = "inbox" /\ InboxConnectionNext
           \/ part = "runtime" /\ RuntimeConnectionNext
        /\ UNCHANGED <<orgVars, caseVars, engineVars, listVars, noticeVars>>
     \/ /\ part = "cases" /\ CaseWorkNext
        /\ UNCHANGED <<orgVars, connectionVars, engineVars, listVars, noticeVars>>
     \/ /\ part = "analysis" /\ EngineNext
        /\ UNCHANGED <<orgVars, connectionVars, caseVars, listVars, noticeVars>>
     \/ /\ part = "lists" /\ ListingsNext
        /\ UNCHANGED <<orgVars, connectionVars, caseVars, engineVars, noticeVars>>
     \/ /\ part = "notices" /\ NotificationsNext
        /\ UNCHANGED <<orgVars, connectionVars, caseVars, engineVars, listVars>>

Spec == Init /\ [][Next]_workspaceVars

\* The parts never meet, so their sets share model values and permutations.
WorkspaceSymmetry ==
  Permutations(OrgRequests) \union Permutations(Invitations) \union Permutations(Founders)

=============================================================================
