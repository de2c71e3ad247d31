CONSTANTS
  MaxLines = 4
  MaxMsgs = 4
SPECIFICATION FairSpec
INVARIANTS
  TypeOK
  AbortOnlyWhenLeaving
PROPERTIES
  ShutdownEnds
  LeavingEnds
CHECK_DEADLOCK FALSE
