CONSTANTS
  Clients = {c1, c2}
  LISTENER = LISTENER
  NOBODY = NOBODY
  MAX_CLIENTS = 2
  MAX_EVENTS = 3
  Sendable = {"head", "whisper"}
  SyscallMayFail = FALSE
  MaxConnects = 2
  MaxSends = 4
SPECIFICATION FairSpec
PROPERTIES
  ClosedIsDisconnected
CHECK_DEADLOCK FALSE
