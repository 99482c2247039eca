SPECIFICATION Spec
CONSTANTS
  Account = {a1, a2}
  TunnelId = {t1, t2}
  Host = {h1, h2}
  Worker = {w1, w2}
  NoAccount = NoAccount
  NoTunnel = NoTunnel
  Blank = Blank
  CallsMayFail = TRUE
SYMMETRY Symmetry
INVARIANTS
  TypeOK
  HostsAreHeld
