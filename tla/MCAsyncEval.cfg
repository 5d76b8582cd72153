SPECIFICATION AsyncFairSpec
CONSTANTS
  Sizes <- MCSizes
  ThreadCounts <- MCThreadCounts
CHECK_DEADLOCK FALSE
INVARIANTS AsyncTypeOK NoRace AllEvaluated
PROPERTIES EachIsOnce Returns
