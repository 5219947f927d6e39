SPECIFICATION ReceiverFairSpec
CONSTANTS
  f1 = f1
  Sessions = {s1}
  FileIds = {f1}
  FileName <- MCFileName
  FileSize <- MCFileSize
  Uploads = {u1, u2}
  ChunkSizes = {1}
  MaxAttempts = 2
  UserFiles = {}
  User = User
  None = None
  Faults = {"drop", "crash"}
  Tools = 2
  TextTypes = {"txt", "TXT"}
  PipeBuffer = 1
  MaxStrays = 1
  Theirs = Theirs
CHECK_DEADLOCK FALSE
INVARIANTS
  NothingUninvited
PROPERTIES
  ClipboardGetsWholeTexts
  RequestsAnswered
  CopiesEnd
