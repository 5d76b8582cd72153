SPECIFICATION Spec
CONSTANTS
  SIZE_T = 4
  Key = {1, 2}
  NoKey = 0
  MaxNum = 1
  ObjId = {o1, o2, o3}
  OwnerOp = {"connect", "data"}
  OpenMayFail = FALSE
  Basename <- MCBasename
  NumFiles <- MCOneFile
  FileMayFail = FALSE
  MaxRestart <- MCRestartA
  MaxSession = 2
  KeyOf <- MCKeyOf
  MayTimeout = TRUE
  MayCrash = TRUE
CHECK_DEADLOCK FALSE
SYMMETRY Symmetry
INVARIANTS TypeOK UploadIsOwn AnswerUnderOwnKey CountInRange UploadedMeansSaved
