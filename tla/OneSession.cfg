SPECIFICATION FairSpec
CONSTANTS
  SIZE_T = 4
  Key = {1}
  NoKey = 0
  MaxNum = 2
  ObjId = {o1, o2, o3}
  OwnerOp = {"connect", "data"}
  OpenMayFail = FALSE
  Basename <- MCBasename
  NumFiles <- MCTwoFiles
  FileMayFail = TRUE
  MaxRestart <- MCNoRestart
  MaxSession = 1
  KeyOf <- MCKeyOf
  MayTimeout = TRUE
  MayCrash = FALSE
CHECK_DEADLOCK FALSE
INVARIANTS AnswerIsOwn NoTornRead ConnectedMeansAll UploadedMeansSaved
PROPERTIES StateMoves KeepsPromise EndsUnlessFailed
