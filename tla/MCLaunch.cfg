SPECIFICATION FairSpec
CONSTANTS
  raw = raw
  file = file
  CommandLines <- MCCommandLines
  Number <- MCNumber
  Assigned <- MCAssigned
  Hyphened <- MCHyphened
  Raw = {raw}
  File <- MCFile
  ClipboardTxt = ClipboardTxt
  DefaultPort = 53317
  Tools = 2
CHECK_DEADLOCK FALSE
INVARIANTS
  ReceivesAsAsked
  SharesWhatWasNamed
  NothingLeftBehind
PROPERTY
  LaunchEnds
