SPECIFICATION Spec
CONSTANTS
  s1 = s1
  s2 = s2
  alice = alice
  lib = lib
  app = app
  Nil = Nil
  Session = {s1, s2}
  Owner = {alice}
  Name = {lib}
  Digest <- OneChunk
  Ordinal = {0}
  CreateRequests <- OneUpload
  ChunkSize = 2
  SizeModulus = 8
  SessionLifetime = 1
  GcGrace = 0
  MaxSessionsPerOwner = 2
  Watermark = 3
  MaxTime = 0
  MaxCrashes = 0
  Callers = {"worker", "admin", "maint"}
  Unlocked = {"admin", "maint"}
SYMMETRY SessionSymmetry
INVARIANTS
  StorageInvariant
  PublishedIntact
  RegisteredStored
PROPERTIES
  GcKeepsReferenced
  ImplementsRepo
