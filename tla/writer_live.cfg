\* Calls return and goroutines leave, with and without a failing writer.  The
\* client may stop calling at any time; run writer checks for deadlock.
CONSTANTS
  Workers = {w1, w2}
  ChunkSize = 1
  Total = 3
  MaxWrite = 2
  Faults = {"write"}
  Overflows = {}
SPECIFICATION FairSpec
CHECK_DEADLOCK FALSE
PROPERTIES CallsReturn GoroutinesExit
