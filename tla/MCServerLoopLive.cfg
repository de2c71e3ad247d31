CONSTANTS
  Clients = {c1, c2}
  LISTENER = LISTENER
  NOBODY = NOBODY
  MAX_CLIENTS = 2
  MAX_EVENTS = 2
  Sendable = {"head", "chunk", "text", "whisper", "shutdown"}
  SyscallMayFail = FALSE
  MaxConnects = 2
  MaxSends = 5
SPECIFICATION FairSpec
INVARIANTS
  QueueArmed
PROPERTIES
  ClosedIsFinal
  ResetIsReaped
  ShutdownCompletes
CHECK_DEADLOCK FALSE
