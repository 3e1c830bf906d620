SPECIFICATION FairSpec
CONSTANTS
  Unset = Unset
  NoConfig = NoConfig
  MinSeconds = 0
  MaxSeconds = 3
  Epochs = {0, 1}
  CrossIds <- Pair
  Files <- FewFiles
  Legacy = {1}
  Undecodable = {3}
  MaxVersion = 3
  MaxChanges = 3
  MaxFaults = 1
  None = None
CONSTRAINT Bound
INVARIANTS
  PackageInvariant
PROPERTIES
  QuietReloadIsExact
  RepairTakesEffect
