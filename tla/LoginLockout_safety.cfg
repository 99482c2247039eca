SPECIFICATION Spec
CONSTANTS
  User = {u1}
  Stranger = {s1}
  IP = {a1}
  NoId = NoId
  NoIP = NoIP
  Worker = {w1, w2}
  IPLimit = 2
  IPWindow = 0
  AccountLimit = 2
  AccountWindow = 1
  Threshold = 2
  LockDuration = 1
  MaxFailures = 1
  MaxTime = 1
SYMMETRY Symmetry
INVARIANTS
  TypeOK
  FailuresAreLimited
  FewFinishUnderLock
  LockStopsLaterLogins
