SPECIFICATION FairSpec
CONSTANTS
  Actions = {a1, a2}
  Operators = {o1}
  MaxAttempts = 1
  LateWrites = {TRUE}
  Lapses = {}
  Outages = {}
  NoAction = NoAction
INVARIANTS
  CompletionBlocksSiblings
PROPERTIES
  RunningEnds
