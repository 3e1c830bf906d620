SPECIFICATION Spec
CONSTANTS
  i1 = i1  i2 = i2  k1 = k1  k2 = k2  w1 = w1  m1 = m1  m2 = m2  d = d  g = g  x12 = x12
  None = None
  Calls = {c1, c2}
  Clients = {i1, i2}
  Hostnames = {g}
  Requests <- AllRequests
  Packages <- AllPackages
  Files <- AllFiles
  CacheDuration = 1
  MaxApproved = 1
  MaxLatency = 1
  MaxClock = 4
CONSTRAINT Bound
SYMMETRY CallSymmetry
CHECK_DEADLOCK FALSE
INVARIANTS
  SharedInvariant
  IssuedByPolicy
  ChainFromOnePackage
  ValidityIsBounded
PROPERTIES
  EditTakesEffect
