SPECIFICATION Spec
CONSTANTS
  Actions = {a1}
  Operators = {o1, o2}
  MaxAttempts = 2
  LateWrites = {TRUE, FALSE}
  Lapses = {"expired", "superseded"}
  Outages = {"ineligible", "unconfigured"}
  NoAction = NoAction
SYMMETRY Symmetry
INVARIANTS
  TypeOK
  Exclusion
  ChangeIsAccounted
  FailedSafeIsUnchanged
PROPERTIES
  AttemptsStartClean
  ChangeMovesVersion
