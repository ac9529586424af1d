SPECIFICATION DumpSpec
CONSTANTS
  LineLen = 2
  OffsetDigits = 1
  Chunks <- SomeChunks
  Junk = {0, 97, 200}
INVARIANTS
  DumpIsRight
  OffsetIsPosition
CHECK_DEADLOCK FALSE
