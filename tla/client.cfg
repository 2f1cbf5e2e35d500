SPECIFICATION FairSpec
CONSTANTS
  Contents <- Files
  NoFile = NoFile
  ChunkSize = 2
  Slice = 2
  Commands <- All
  MaxRuns = 3
INVARIANTS
  UploadPublished
  PartIsPrefix
  OutputWhole
  
PROPERTIES
  CommandEnds
CHECK_DEADLOCK FALSE
