SPECIFICATION Spec
CONSTANTS
  f1 = f1
  tablet = tablet
  laptop = laptop
  us = us
  here = here
  there = there
  elsewhere = elsewhere
  others = others
  Files = {f1}
  Strangers = {}
  FileSize <- MCFileSize
  MaxLength = 1
  ChunkSizes = {1}
  None = None
  Hitches = {"stat", "open"}
  Devices <- MCOneDevice
  Ourselves = us
  OurAlias = us
  LocalIps = {here}
  Requests = {r1}
  MaxAnnounced = 1
CHECK_DEADLOCK FALSE
INVARIANT
  StatusIsSeen
