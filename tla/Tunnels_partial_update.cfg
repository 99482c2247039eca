SPECIFICATION Spec
CONSTANTS
  Account = {a1}
  TunnelId = {t1, t2}
  Host = {h1, h2}
  Worker = {w1}
  NoAccount = NoAccount
  NoTunnel = NoTunnel
  Blank = Blank
  CallsMayFail = FALSE
PROPERTIES
  UnnamedFieldsAreKept
