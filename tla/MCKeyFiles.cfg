SPECIFICATION KeySpec
CONSTANTS
  MaxQuerier = 3
  FileMayFail = TRUE
CHECK_DEADLOCK FALSE
INVARIANTS KeyTypeOK OneKeySent PairMatches OwnKeySent
