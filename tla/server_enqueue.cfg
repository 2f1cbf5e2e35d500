SPECIFICATION FairSpec
CONSTANTS
  c1 = c1
  c2 = c2
  w1 = w1
  w2 = w2
  Conn = {c1}
  Worker = {w1}
  Requests <- Downloads
  MaxRequests = 2
  MaxConnections = 2
  QueueCapacity = 1
  HighWater = 4
  ArtifactSize = 3
  DataSlice = 2
  Events = {}
PROPERTIES
  EnqueueResumes
