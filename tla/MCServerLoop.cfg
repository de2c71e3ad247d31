CONSTANTS
  Clients = {c1, c2, c3}
  LISTENER = LISTENER
  NOBODY = NOBODY
  MAX_CLIENTS = 2
  MAX_EVENTS = 2
  Sendable = {"head", "text", "shutdown"}
  SyscallMayFail = TRUE
  MaxConnects = 3
  MaxSends = 4
SYMMETRY ClientSymmetry
SPECIFICATION Spec
INVARIANTS
  TypeOK
  NoDangling
  ListSound
  ShutdownReleases
PROPERTIES
  OnlyClosedLeave
  PassedOverMovesUp
CHECK_DEADLOCK FALSE
