\* inPool: the client produces, three workers read in any order.
CONSTANTS
  Producers = {p1}
  Consumers = {c1, c2, c3}
  LastIdx = 3
  MaxCap = 2
  Ordered = FALSE
SPECIFICATION FairSpec
INVARIANT NoLostWakeup
PROPERTY ImplementsFairQueue
