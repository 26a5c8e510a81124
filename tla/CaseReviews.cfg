SPECIFICATION Spec
CONSTANTS
  Members = {m1, m2}
  NoMember = NoMember
  Authors = {m1, m2}
  Demotable = {}
  MaxCaseVersion = 3
  MaxProposals = 2
  MaxReviewVersion = 1
  MaxRules = 2
  MaxPolicies = 2
  MaxMessages = 0
SYMMETRY Symmetry
CHECK_DEADLOCK FALSE
INVARIANTS
  TypeOK
  ProposalShowsReview
  

  
