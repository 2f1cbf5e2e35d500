\* The contract of storage.hpp: the callers serialise all calls.
SPECIFICATION Spec
CONSTANTS
  s1 = s1
  s2 = s2
  alice = alice
  lib = lib
  app = app
  Nil = Nil
  Session = {s1, s2}
  Owner = {alice}
  Name = {lib, app}
  Digest <- MixedChunks
  Ordinal = {0, 1}
  CreateRequests <- Uploads
  ChunkSize = 2
  SizeModulus = 8
  SessionLifetime = 1
  GcGrace = 1
  MaxSessionsPerOwner = 1
  Watermark = 3
  MaxTime = 2
  MaxCrashes = 2
  Callers = {"worker", "admin", "maint"}
  Unlocked = {}
SYMMETRY SessionSymmetry
INVARIANTS
  TypeOK
  CommitSettles
  AbortTakesEffect
  SessionLimit
  NoLeakWithoutCrash
PROPERTIES
  SessionStateMachine
  ImplementsRepo
