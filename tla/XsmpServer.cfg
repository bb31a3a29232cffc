CONSTANTS
  Managers = {m1, m2, m3}
  Ids = {i1, i2}
  Connections = {c1}
  None = None
SPECIFICATION FairSpec
INVARIANTS
  CookiesAreFound
PROPERTIES
  PendingIsDecided
