SPECIFICATION Spec
CONSTANTS
  People = {a, b, c}
  Founders = {a, b}
  Invitations = {i, j}
  OrgRequests = {r, s}
  MaxMemberVersion = 2
  MaxSettingsVersion = 3
  Accounts = {a, b}
  InboxRows = {i, j}
  SignIns = {u, v, w}
  InboxCommands = {r, s}
  Configs = {i, j}
  Testers = {r, s}
  MaxConnectionVersion = 5
  Colleagues = {r, s}
  EvidenceRefs = {i, j}
  EvidenceTexts = {x}
  MaxCaseVersion = 4
  Rows = {1, 2, 3, 4}
  PageSize = 2
  MaxClock = 3
  Alerted = {a, b}
  Happenings = {i, j}
  Projections = {r, s}
SYMMETRY WorkspaceSymmetry
CHECK_DEADLOCK FALSE
INVARIANTS
  AdministratorRemains
  
  OfferedIsAccepted
  ApprovalIsEarned
PROPERTIES
  InvitationsSettle
  
  CommandsFitTheCase
  ListIsWalkedWhole
  ToldOnce
