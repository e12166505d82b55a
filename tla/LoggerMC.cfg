SPECIFICATION LoggerSpec
CONSTANTS
  MaxLength = 4
  BufferSize = 14
  MaxLines = 7
INVARIANTS BufferHolds NoLineDropped FirstLinesKept
CHECK_DEADLOCK FALSE
