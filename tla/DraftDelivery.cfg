SPECIFICATION Spec
CONSTANTS
  Deliverers = {d1, d2}
  Reconcilers = {r1}
  Nobody = Nobody
  Gateways = {"gmail", "deterministic"}
  Texts = {t1, t2}
  MaxVersion = 2
  MaxAttempts = 2
SYMMETRY Symmetry
CHECK_DEADLOCK FALSE
INVARIANTS
  
  OutcomeIsTrue

  
