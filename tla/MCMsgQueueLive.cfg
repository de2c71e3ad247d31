CONSTANTS
  Packets = {p1, p2}
  NULL = NULL
  HeaderLen = 1
  PayloadLens = {1, 2}
  MSG_SIZE_LIMIT = 4
  MaxMsgs = 3
  EpollCtlMayFail = FALSE
SPECIFICATION FairSpec
INVARIANTS
  WakeupArmed
PROPERTIES
  AcceptedIsSent
  ImplementsStream
CHECK_DEADLOCK FALSE
