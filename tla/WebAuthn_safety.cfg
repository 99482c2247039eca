SPECIFICATION Spec
CONSTANTS
  User = {u1,u2}
  Key = {k1, k2}
  RowId = {r1, r2}
  ChallengeId = {c1, c2}
  Worker = {w1, w2}
  NoUser = NoUser
  NoKey = NoKey
  NoRowId = NoRowId
  NoChallenge = NoChallenge
  CallsMayFail = TRUE
SYMMETRY Symmetry
CHECK_DEADLOCK FALSE
INVARIANTS
  TypeOK
  FlagAgrees
  ChallengeUsesBounded
