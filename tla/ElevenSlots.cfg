SPECIFICATION PsicaSpec
CONSTANTS
  Element <- MCBits
  Murmur <- MCOneBit
  UINT64 = 16
  Settings <- MCSetting
  MaxElements = 1
  SlotCounts = {11}
  Algorithms = {"QuerierFriendly"}
CHECK_DEADLOCK FALSE
INVARIANT CountsIncluded
