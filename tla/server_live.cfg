SPECIFICATION FairSpec
CONSTANTS
  c1 = c1
  c2 = c2
  w1 = w1
  w2 = w2
  Conn = {c1, c2}
  Worker = {w1, w2}
  Requests <- SomeRequests
  MaxRequests = 1
  MaxConnections = 1
  QueueCapacity = 4
  HighWater = 4
  ArtifactSize = 3
  DataSlice = 2
  Events = {"delete", "stop"}
CHECK_DEADLOCK FALSE
PROPERTIES
  
  StopReturns
