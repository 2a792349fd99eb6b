\* Every input length up to each chunk size, every check type; sizes asked for
\* below, at and beyond the limits.
CONSTANTS
  LiteralChunk = 8
  Group = 128
  ChunkLowest = 8
  ChunkHighest = 130
  Requests <- MCRequests
SPECIFICATION Spec
CHECK_DEADLOCK FALSE
INVARIANTS OutputFits HeaderFits Decodable
