SPECIFICATION FairSpec
CONSTANTS
  f1 = f1
  tablet = tablet
  laptop = laptop
  us = us
  here = here
  there = there
  elsewhere = elsewhere
  others = others
  Files = {f1}
  Strangers = {}
  FileSize <- MCFileSize
  MaxLength = 1
  ChunkSizes = {1}
  None = None
  Hitches = {"stat", "open"}
  Devices <- MCDevices
  Ourselves = us
  OurAlias = us
  LocalIps = {here}
  Requests = {r1}
  MaxAnnounced = 2
CHECK_DEADLOCK FALSE
INVARIANTS
  TypeOK
  PeersListed
  OneShare
PROPERTIES
  HighlightKept
  SuccessStands
  OutcomeShown
  RequestsAnswered
