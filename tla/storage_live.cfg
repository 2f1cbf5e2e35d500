SPECIFICATION FairSpec
CONSTANTS
  s1 = s1
  s2 = s2
  alice = alice
  lib = lib
  app = app
  Nil = Nil
  Session = {s1}
  Owner = {alice}
  Name = {lib}
  Digest <- OneChunk
  Ordinal = {0}
  CreateRequests <- OneUpload
  ChunkSize = 2
  SizeModulus = 8
  SessionLifetime = 1
  GcGrace = 0
  MaxSessionsPerOwner = 2
  Watermark = 3
  MaxTime = 1
  MaxCrashes = 1
  Callers = {"worker", "maint"}
  Unlocked = {"admin", "maint"}
INVARIANTS
  RegisteredStored
PROPERTY QuietRecovery
