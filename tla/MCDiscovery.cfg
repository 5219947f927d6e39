SPECIFICATION FairSpec
CONSTANTS
  picker = picker
  other = other
  receiver = receiver
  Devices = {picker, other, receiver}
  Pickers = {picker}
  Payload <- MCPayload
  Ip <- MCIp
  Networks <- MCNetworks
  DefaultPort = 0
  Absent = Absent
CHECK_DEADLOCK FALSE
INVARIANT
  OnePeerEach
PROPERTY
  FoundWhenReachable
