SPECIFICATION FaultySpec
CONSTANTS
  Contents <- Files
  NoFile = NoFile
  ChunkSize = 2
  Slice = 2
  Commands <- Transfers
  MaxRuns = 3
INVARIANTS
  OutputWhole
CHECK_DEADLOCK FALSE
