SPECIFICATION Spec
CONSTANTS
  e1 = e1
  e2 = e2
  e3 = e3
  s1 = s1
  s2 = s2
  Email = {e1, e2, e3}
  Slug = {s1, s2}
  SlugOf <- SharedSlug
  Uuid = {u1}
  NoUser = NoUser
  NoEmail = NoEmail
  NoLink = NoLink
  Fallback = Fallback
  Link = {l1, l2, l3}
  Worker = {w1, w2}
  TTL = 0
  MaxFailures = 1
  MaxTime = 1
SYMMETRY Symmetry
INVARIANTS
  TypeOK
  SessionIdentityExists
  SignupGivesOwnIdentity
  CompletionsBounded
