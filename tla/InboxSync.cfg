SPECIFICATION FairSpec
CONSTANTS
  Workers = {w1, w2}
  MaxJobs = 2
  MaxMessages = 2
  MaxAttempts = 2
  MaxReprocess = 1
CHECK_DEADLOCK FALSE

  
PROPERTIES
  CursorAdvances
  QueueDrains
