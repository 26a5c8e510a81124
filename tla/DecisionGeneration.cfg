SPECIFICATION FairSpec
CONSTANTS
  Requests = {q1, q2}
  MaxSnapshot = 2
  MaxRetries = 1
  MaxAttempts = 2
CHECK_DEADLOCK FALSE
INVARIANTS
  GenerationsAreSound
PROPERTIES
  
  SettledOrExhausted
