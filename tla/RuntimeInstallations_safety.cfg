SPECIFICATION Spec
CONSTANTS
  Installation = {i1}
  TokenId = {t1, t2, t3, t4}
  NoInst = NoInst
  NoTok = NoTok
  Worker = {w1, w2}
  EnrollTTL = 1
  CallsMayFail = TRUE
  MaxTime = 1
SYMMETRY Symmetry
INVARIANTS
  TypeOK
  SettledStaysRevoked
  TradedTokensAreSpent
  TradesBounded
  ActiveWasEnrolled
PROPERTY RotationLeavesOneToken
