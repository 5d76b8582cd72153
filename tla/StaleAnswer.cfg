SPECIFICATION Spec
CONSTANTS
  SIZE_T = 4
  Key = {1, 2}
  NoKey = 0
  MaxNum = 2
  ObjId = {o1, o2, o3}
  OwnerOp = {"connect", "data"}
  OpenMayFail = FALSE
  Basename <- MCBasename
  NumFiles <- MCTwoFiles
  FileMayFail = FALSE
  MaxRestart <- MCNoRestart
  MaxSession = 2
  KeyOf <- MCKeyOf
  MayTimeout = FALSE
  MayCrash = FALSE
CHECK_DEADLOCK FALSE
SYMMETRY Symmetry
INVARIANT AnswerIsOwn
