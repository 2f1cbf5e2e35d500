SPECIFICATION Spec
CONSTANTS
  t1 = t1
  t2 = t2
  Thread = {t1, t2}
  Data <- OneChunk
  Inode = {1, 2, 3}
  Fd = {1, 2}
  Counter = {1, 2, 3}
  Attempts = 2
  MaxCrashes = 1
  MaxRot = 1
  MaxOps = 3
SYMMETRY ThreadSymmetry
INVARIANTS
  TypeOK
  InPlaceWhole
  GetExact
  
  
  PutPresent
CHECK_DEADLOCK FALSE
