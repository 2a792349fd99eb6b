\* Two workers, three chunks, every step may fail.
CONSTANTS
  Workers = {w1, w2}
  ChunkSize = 2
  Total = 5
  MaxWrite = 3
  Faults = {"encode", "write", "index", "trailer"}
  Overflows = {"late", "finish"}
SPECIFICATION Spec
SYMMETRY WorkerSymmetry
INVARIANTS TypeOK NoSpuriousError ErrorsReachClose PipesOwned BuffersBounded
PROPERTY ImplementsStream
