SPECIFICATION PsicaSpec
CONSTANTS
  Element = {1, 2, 3}
  Murmur <- MCMurmur
  UINT64 = 16
  Settings <- MCSettings
  MaxElements = 3
  SlotCounts = {2, 3, 5, 7}
  Algorithms = {"Basic", "QuerierFriendly"}
CHECK_DEADLOCK FALSE
INVARIANTS PsicaTypeOK CountsIncluded NeverUndercounts SlotOfItsOwn
