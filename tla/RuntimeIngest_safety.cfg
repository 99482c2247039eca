SPECIFICATION IngestSpec
CONSTANTS
  Installation = {i1}
  TokenId = {t1, t2}
  NoInst = NoInst
  NoTok = NoTok
  Worker = {w1, w2}
  EnrollTTL = 1
  CallsMayFail = TRUE
  MaxTime = 0
  a1 = a1
  Account = {a1}
  Foreign = Foreign
  NoAccount = NoAccount
  Owner <- OwnerA1
  Prototype = NoAccount
  Tunnel = {x1, x2}
  Declared <- DeclaredA1
  EventId = {e1}
  Payload <- Payloads
  Claims <- MixedClaims
  MaxReports = 2
SYMMETRY Symmetry
CHECK_DEADLOCK FALSE
INVARIANTS
  IngestTypeOK
  ReportsAreShown
PROPERTIES
  RevokedSendNoNewReports
