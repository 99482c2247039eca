SPECIFICATION FairSpec
CONSTANTS
  s1 = s1
  s2 = s2
  w1 = w1
  w2 = w2
  Scope = {s1, s2}
  NoScope = NoScope
  NoToken = NoToken
  Worker = {w1, w2}
  IssuerTTL = 1
  LoginTTL = 1
  AllowPrototype = FALSE
  PrototypeScope = s1
  ReadsMayFail = FALSE
  BumpsMayFail = FALSE
  MaxTime = 1
  MaxTokens = 3
  MaxVersion = 3
INVARIANTS
  TypeOK
  RevokedStaysRevoked
  IssuedSessionUsable
PROPERTIES
  NoRevokedTokenAccepted
  LogoutTakesEffect
  ImplementsStore
