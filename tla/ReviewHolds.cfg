SPECIFICATION FairSpec
CONSTANTS
  Members = {m1, m2, m3}
  NoMember = NoMember
  Authors = {m1}
  Demotable = {m2}
  MaxCaseVersion = 1
  MaxProposals = 1
  MaxReviewVersion = 3
  MaxRules = 1
  MaxPolicies = 1
  MaxMessages = 1
CHECK_DEADLOCK FALSE
INVARIANTS
  HoldsAreSound
PROPERTIES
  FinalStaysFinal
  HoldEnds
