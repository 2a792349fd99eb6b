\* The output pipe fills while the client is still writing its chunk.
CONSTANTS
  Workers = {w1}
  ChunkSize = 3
  Total = 3
  MaxWrite = 1
  Faults = {}
  Overflows = {"run"}
CHECK_DEADLOCK FALSE
SPECIFICATION Spec
SYMMETRY WorkerSymmetry
PROPERTY ImplementsStream
