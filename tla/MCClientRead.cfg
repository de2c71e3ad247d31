CONSTANTS
  Base = 2
  BUF_SIZE = 2
  NAME_MAX = 2
  Slash = 1
  MaxBytes = 11
SPECIFICATION FairSpec
INVARIANTS
  TypeOK
  BuffersFit
  DecodesStream
  NothingLeft
PROPERTIES
  ImplementsDecoder
  MessageIsProcessed
CHECK_DEADLOCK FALSE
