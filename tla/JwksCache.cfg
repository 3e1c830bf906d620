SPECIFICATION FairSpec
CONSTANTS
  Kids = {k1}
  Threads = {t1, t2}
  MaxAges = {0, 3}
  MinRefresh = 1
  HttpTimeout = 1
  MaxClock = 3
  None = None
INVARIANTS TypeOK
PROPERTIES RotationIsSeen WithdrawalIsSeen LookupReturns
