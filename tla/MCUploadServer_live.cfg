SPECIFICATION FairSpec
CONSTANTS
  f1 = f1
  f2 = f2
  FileIds = {f1, f2}
  FileName <- MCFileName
  FileSize <- MCFileSize
  UserFiles <- MCUserFiles
  User = User
  None = None
  Sessions = {s1}
  Uploads = {u1, u2}
  ChunkSizes = {1, 2}
  MaxAttempts = 3
  Faults = {"drop", "crash"}
CHECK_DEADLOCK FALSE
INVARIANTS
  UserFilesKept
  NoPartialLeftBehind
  CompletedOnce
PROPERTIES
  UploadsEnd
  ReceivedSessionsClose
