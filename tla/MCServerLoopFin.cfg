CONSTANTS
  Clients = {c1, c2}
  LISTENER = LISTENER
  NOBODY = NOBODY
  MAX_CLIENTS = 2
  MAX_EVENTS = 3
  Sendable = {"head", "text"}
  SyscallMayFail = FALSE
  MaxConnects = 2
  MaxSends = 5
SPECIFICATION FairSpec
PROPERTIES
  FinIsReaped
CHECK_DEADLOCK FALSE
