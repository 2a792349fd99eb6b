\* Rings smaller than the file, slices of every length, a sink and a source
\* that fail up to twice.
CONSTANTS
  Total = 3
  Slice = 2
  Sizes = {1, 2, 3}
  Failures = 2
SPECIFICATION FairSpec
INVARIANTS TypeOK Conserved CloseTellsComplete EOFMeansIntact ErrorsExplained
PROPERTY CallsReturn
