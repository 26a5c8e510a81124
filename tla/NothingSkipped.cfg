SPECIFICATION Spec
CONSTANTS
  Workers = {w1}
  MaxJobs = 2
  MaxMessages = 2
  MaxAttempts = 2
  MaxReprocess = 1
INVARIANTS
  NothingSkipped
CHECK_DEADLOCK FALSE
