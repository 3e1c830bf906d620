SPECIFICATION FairSpec
CONSTANTS
  c1 = c1
  c2 = c2
  w1 = w1
  w2 = w2
  lower = lower
  upper = upper
  None = None
  Commands = {c1, c2}
  Workspaces = {w1, w2}
  WorkspaceOf <- MCWorkspaceOf
  Images = {lower, upper}
  Base <- MCBase
  Needs <- MCNeeds
  Target <- MCTarget
  Allowed = {lower, upper}
  LocalOnly = {}
  Kinds <- MCKinds
  Versions = {1, 2}
  First = 1
  MaxEdits = 1
  MaxFaults = 1
CONSTRAINT Bound
CHECK_DEADLOCK FALSE
INVARIANTS
  ContentAddressed
PROPERTIES
  OwnImagesStay
  CommandEnds
