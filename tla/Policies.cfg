SPECIFICATION Spec
CONSTANTS
  p1 = p1
  p2 = p2
  Policies = {p1, p2}
  Editors = {e1, e2}
  MaxVersion <- Limits
  MaxTime = 2
  DraftWindows <- Windows
SYMMETRY Symmetry
CHECK_DEADLOCK FALSE
INVARIANTS
  AuthorityIsSound
PROPERTIES
  ApprovedIsImmutable
  
