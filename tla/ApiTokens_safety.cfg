SPECIFICATION Spec
CONSTANTS
  User = {u1, u2}
  Account = {a1}
  TokenId = {t1, t2, t3}
  Worker = {w1, w2}
  NoUser = NoUser
  NoAccount = NoAccount
  NoTok = NoTok
  Lifetime <- Lifetimes
  CallsMayFail = TRUE
  MaxTime = 1
SYMMETRY Symmetry
CHECK_DEADLOCK FALSE
INVARIANTS
  TypeOK
  RotationOutcome
PROPERTIES
  ImplementsRegistry
