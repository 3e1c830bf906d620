SPECIFICATION AttendedSpec
CONSTANTS
  Instances = {i1, i2}
  Epochs = {0, 1}
  Bundles = {b1, b2, b3}
  Configs <- RotationConfigs
  OperatorCareful = TRUE
  MaxFaults = 1
  MaxDeploys = 1
  None = None
ACTION_CONSTRAINTS
  InTurn
  OneDisturbance
INVARIANTS
  BackupInvariant
  NoMixedBackup
  SuccessMeansServing
PROPERTIES
  ImplementsKeyRegistry
  EventuallyServing
