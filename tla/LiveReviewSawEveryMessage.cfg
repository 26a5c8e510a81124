SPECIFICATION Spec
CONSTANTS
  Members = {m1, m2}
  NoMember = NoMember
  Authors = {m1, m2}
  Demotable = {}
  MaxCaseVersion = 3
  MaxProposals = 1
  MaxReviewVersion = 2
  MaxRules = 1
  MaxPolicies = 1
  MaxMessages = 1
CHECK_DEADLOCK FALSE
INVARIANT LiveReviewSawEveryMessage
