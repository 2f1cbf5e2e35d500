SPECIFICATION Spec
CONSTANTS
  Radix = 4
  MaxStringLen = 2
  DigestLen = 2
  MaxBitmap = 2
  MaxItems = 2
  Kinds <- AllKinds
  ValidTypes <- Types
  Scripts <- AllScripts
  MaxPayload = 100
  MinCap = 8
  ReadSizes = {1, 7, 30}
  Alterable <- FewScripts
INVARIANTS
  ReceivedIsSent
  AllDelivered
  
  TruncationRefused
CHECK_DEADLOCK FALSE
