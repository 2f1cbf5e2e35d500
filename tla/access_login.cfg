SPECIFICATION Spec
CONSTANTS
  admin = admin
  pub = pub
  rdr = rdr
  ref = ref
  c1 = c1
  c2 = c2
  a1 = a1
  w1 = w1
  w2 = w2
  b1 = b1
  b2 = b2
  User = {admin}
  Ref = {ref}
  Conn = {c1, c2}
  Address = {a1}
  ip_of <- SameAddress
  Worker = {w1, w2}
  Boot = {b1}
  Requests <- Guesses
  InitUser <- NoUsers
  InitToken <- NoTokens
  kAuthFailuresBeforeClose = 2
  kIpFailureWindowSeconds = 1
  kIpFailureThreshold = 2
  kIpBlockSeconds = 2
  InFlight = 1
  MaxTokens = 2
  MaxUploads = 0
  MaxAudit = 2
  MaxTime = 3
INVARIANTS
  GuessesBounded
SYMMETRY Symmetry
