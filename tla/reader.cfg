\* Files smaller and larger than the rings, cut anywhere, slices of every size,
\* sources that fail and sources that do not.
CONSTANTS
  Files <- MCFiles
  Truncated = TRUE
  SourceFails = TRUE
  Rings = {2, 5, 20}
  MaxRead = 4
SPECIFICATION FairSpec
CHECK_DEADLOCK FALSE
INVARIANTS TypeOK DeliveredInOrder EOFMeansAll FittingFileReads
PROPERTY ReadReturns
