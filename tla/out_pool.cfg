\* outPool: three workers produce, the writer goroutine reads by index.
CONSTANTS
  Producers = {p1, p2, p3}
  Consumers = {c1}
  LastIdx = 3
  MaxCap = 2
  Ordered = TRUE
SPECIFICATION FairSpec
INVARIANTS TypeOK Accounting CapacityBound NoPanic AnnouncedProceeds
           NoLostWakeup EndMeansDrained
PROPERTIES ImplementsQueue GetWriterReturns
