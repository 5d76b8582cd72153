SPECIFICATION CloudSpec
CONSTANTS
  SIZE_T = 4
  Key = {k1}
  NoKey = NoKey
  MaxNum = 1
  ObjId = {o1, o2, o3}
  OwnerOp = {"connect", "data"}
  OpenMayFail = TRUE
  Basename <- MCBasename
SYMMETRY Symmetry
INVARIANTS CloudTypeOK ReadyMeansStored ComputedMeansResult ComputeHasFiles
PROPERTY RecordsStick
