SPECIFICATION FairSpec
CONSTANTS
  Procs = {p1, p2, p3}
  None = None
  MaxCrashes = 1
CHECK_DEADLOCK FALSE
INVARIANTS
  StartupInvariant
PROPERTIES
  VendorServes
