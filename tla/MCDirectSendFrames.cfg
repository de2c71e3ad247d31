CONSTANTS
  Packets = {p1, p2}
  NULL = NULL
  HeaderLen = 1
  PayloadLens = {0, 1}
  MSG_SIZE_LIMIT = 4
  MaxMsgs = 3
  EpollCtlMayFail = FALSE
  MaxDirect = 2
  WriteMayBlock = FALSE
SPECIFICATION OutSpec
INVARIANTS
  PartialWritesHandled
CHECK_DEADLOCK FALSE
