SPECIFICATION DataownerSpec
CONSTANTS
  Key = {k1, k2}
  NoKey = NoKey
  NumFiles <- MCNumFiles
  FileMayFail = TRUE
  MaxRestart <- MCMaxRestart
INVARIANTS DoTypeOK UploadPrepared UploadedMeansSent
