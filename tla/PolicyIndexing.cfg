SPECIFICATION Spec
CONSTANTS
  Indexers = {x1, x2}
  v1 = v1
  v2 = v2
  PolicyVersions = {v1, v2}
  Clauses <- Counts
  PageBudget = 1
  IndexAttempts = 2
  MaxReprocess = 1

  
PROPERTIES
  OnlyHolderReleases
  SearchMissesNothing
  IndexedOrOutOfAttempts
