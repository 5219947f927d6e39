SPECIFICATION Spec
CONSTANTS
  f1 = f1
  f2 = f2
  FileIds = {f1, f2}
  FileName <- MCFileName
  FileSize <- MCShortSize
  UserFiles <- MCUserFiles
  User = User
  None = None
  Sessions = {s1, s2}
  Uploads = {u1, u2}
  ChunkSizes = {1}
  MaxAttempts = 2
  Faults = {"disk", "drop", "crash"}
CHECK_DEADLOCK FALSE
SYMMETRY Symmetry
INVARIANTS
  TypeOK
  FilesNotShared
  ReceivedFileComplete
  CompletionIsTruthful
PROPERTY
  ImplementsInbox
