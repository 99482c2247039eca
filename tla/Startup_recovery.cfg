SPECIFICATION StartupSpec
CONSTANTS
  Process = {p1, p2}
  Migrations = 2
  Fragile = {2}
  Seeds = 1
  Handler = {h1, h2}
  NoTime = NoTime
  Limit = 2
  Window = 2
  MaxDeaths = 1
  MaxTime = 2
CHECK_DEADLOCK FALSE
INVARIANTS
  StartupTypeOK
  AdmissionsBounded
PROPERTIES
  StartupRecovers
