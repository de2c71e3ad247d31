CONSTANTS
  TimestampLen = 1
  WhisperThingLen = 1
  Names <- MCNames
  MaxPayload = 7
SPECIFICATION Spec
INVARIANTS
  WhisperIsParsed
  TextsFit
CHECK_DEADLOCK FALSE
