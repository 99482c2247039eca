SPECIFICATION Spec
CONSTANTS
  User = {u1}
  IP = {a1}
  Password = {p1, p2}
  TokenId = {t1, t2, t3}
  NoUser = NoUser
  NoTok = NoTok
  NoIP = NoIP
  NoPassword = NoPassword
  Worker = {w1, w2}
  FirstPassword = p1
  TTL = 1
  Window = 1
  EmailLimit = 1
  IPLimit = 1
  HistoryCheck = 1
  HistoryKeep = 2
  MaxFailures = 1
  MaxTime = 1
SYMMETRY Symmetry
INVARIANTS
  TypeOK
  OpenTokensBounded
  RequestsAreLimited
  ResetsBounded
PROPERTIES
  QuietRequestLeavesOne
  QuietResetKeepsHistory
