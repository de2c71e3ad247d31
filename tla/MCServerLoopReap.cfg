CONSTANTS
  Clients = {c1, c2}
  LISTENER = LISTENER
  NOBODY = NOBODY
  MAX_CLIENTS = 2
  MAX_EVENTS = 3
  Sendable = {"head", "bad", "list"}
  SyscallMayFail = FALSE
  MaxConnects = 1
  MaxSends = 3
SPECIFICATION RenewSpec
PROPERTIES
  ClosedIsReaped
CHECK_DEADLOCK FALSE
