CONSTANTS
  Packets = {p1, p2, p3}
  NULL = NULL
  HeaderLen = 1
  PayloadLens = {0, 2}
  MSG_SIZE_LIMIT = 5
  MaxMsgs = 4
  EpollCtlMayFail = TRUE
  MaxDirect = 1
  WriteMayBlock = TRUE
SYMMETRY PacketSymmetry
SPECIFICATION OutSpec
INVARIANTS
  TypeOK
  QueueIntact
  StreamIntact
  Accounting
  FramedUnlessHarmed
CHECK_DEADLOCK FALSE
