CONSTANTS
  Base = 5
  BUF_SIZE = 3
  Newline = 1
  Slash = 2
  QuitName = 3
  ShutdownName = 4
  MaxTyped = 7
SPECIFICATION Spec
INVARIANTS
  SentIsTyped
  StreamParses
CHECK_DEADLOCK FALSE
