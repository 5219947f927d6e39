SPECIFICATION FairSpec
CONSTANTS
  f1 = f1
  f2 = f2
  Files = {f1, f2}
  Strangers = {x1}
  FileSize <- MCFileSize
  MaxLength = 3
  ChunkSizes = {1, 2}
  None = None
  Hitches = {"stat", "open", "change"}
CHECK_DEADLOCK FALSE
INVARIANTS
  TypeOK
  ProgressAdvances
  OneVerdict
  SuccessIsEarned
PROPERTY
  SendingEnds
