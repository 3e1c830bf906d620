SPECIFICATION FairInstanceSpec
CONSTANTS
  Limit = 5
  StartLimit = 5
  Sizes = {1, 2, 3}
  Default = 2
  NoNumber = NoNumber
  MaxFaults = 1
  MaxChanges = 2
  MaxServerFaults = 1
CHECK_DEADLOCK FALSE
INVARIANTS
  InstanceInvariant
PROPERTIES
  GivenUpAfterLimit
  NeverHealthyAgain
  HealthyOrReplaced
