SPECIFICATION TransferFairSpec
CONSTANTS
  f1 = f1
  f2 = f2
  Sessions = {s1, s2}
  Ours = s1
  FileIds = {f1, f2}
  Strangers = {}
  FileName <- MCFileName
  FileSize <- MCFileSize
  MaxLength = 3
  Uploads = {f1, f2}
  ChunkSizes = {1, 2}
  MaxAttempts = 3
  UserFiles <- MCUserFiles
  User = User
  None = None
  Faults = {"disk", "drop", "crash"}
  Hitches = {"stat", "open", "change"}
  Window = 2
  Troubles = {"break", "stall", "quit"}
CHECK_DEADLOCK FALSE
INVARIANTS
  SentIsReceived
  ReceivedIsSent
PROPERTIES
  ImplementsDelivery
  ShareEnds
  SessionsSettle
