CONSTANTS
  Bytes <- MCBytes
  MaxLength = 4
  MaxSpan = 4
SPECIFICATION Spec
CHECK_DEADLOCK FALSE
INVARIANTS
  BurstIsSeen
