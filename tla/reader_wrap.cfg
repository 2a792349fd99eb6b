\* A complete file whose index is cut by the end of the ring.
CONSTANTS
  Files <- MCFiles
  Truncated = FALSE
  SourceFails = FALSE
  Rings = {3}
  MaxRead = 4
SPECIFICATION Spec
CHECK_DEADLOCK FALSE
INVARIANT GoodFileReads
