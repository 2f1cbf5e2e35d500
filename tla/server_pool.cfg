SPECIFICATION Spec
CONSTANTS
  c1 = c1
  c2 = c2
  w1 = w1
  w2 = w2
  Conn = {c1}
  Worker = {w1, w2}
  Requests <- AllRequests
  MaxRequests = 2
  MaxConnections = 2
  QueueCapacity = 1
  HighWater = 1
  ArtifactSize = 3
  DataSlice = 2
  Events = {"leave", "idle", "stop", "spurious"}
SYMMETRY Symmetry
CHECK_DEADLOCK FALSE
INVARIANTS
  TypeOK
  OneFinalAnswer
  DownloadWhole
  StreamsAlive
  GetsReleased
