SPECIFICATION Spec
CONSTANTS
  admin = admin
  pub = pub
  rdr = rdr
  ref = ref
  c1 = c1
  c2 = c2
  a1 = a1
  w1 = w1
  w2 = w2
  b1 = b1
  b2 = b2
  User = {admin, pub, rdr}
  Ref = {ref}
  Conn = {c1, c2}
  Address = {a1}
  ip_of <- SameAddress
  Worker = {w1, w2}
  Boot = {}
  Requests <- Work
  InitUser <- Users
  InitToken <- Tokens
  kAuthFailuresBeforeClose = 1
  kIpFailureWindowSeconds = 1
  kIpFailureThreshold = 1
  kIpBlockSeconds = 2
  InFlight = 1
  MaxTokens = 3
  MaxUploads = 1
  MaxAudit = 2
  MaxTime = 1
INVARIANTS
  SessionIsOneUser
  AuditTrail

  
SYMMETRY Symmetry
