\* one address, a record that fills its count, a worker that may wait a second
\* for the lock
CONSTANTS
  Addrs = {a1}
  NumaIds = {0}
  AccessWindow = 1
  CoolingInterval = 2
  FullCount = 2
  TimeFactor <- Factor
  MaxAge = 4
  MaxLag = 1
  MaxCount = 3
  NoAddr = NoAddr
  NodeLists <- Lists
  Sizes = {1, 3, 9}
SPECIFICATION FairSpec
INVARIANTS TypeOK HotIsRecent FirstBestNode
PROPERTIES StopEnds IdleForgotten
CHECK_DEADLOCK FALSE
