\* Every step may fail, again and again; writes that end inside, at and beyond
\* a chunk, before and after an error.
CONSTANTS
  ChunkSize = 3
  Total = 13
  MaxWrite = 7
  Faults = {"encode", "write", "index", "trailer"}
SPECIFICATION Spec
CHECK_DEADLOCK FALSE
INVARIANT LossesAreKnown
PROPERTY ImplementsStream
