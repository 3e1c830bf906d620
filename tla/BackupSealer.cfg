SPECIFICATION Spec
CONSTANTS
  Bundles = {b1, b2, b3}
  Slots = {s1, s2, s3}
  Legacy = {s3}
  Arns = {a1, a2}
  Fds = {0, 3, 4}
  MaxFaults = 1
  MaxEdits = 2
  Damaged = Damaged
  None = None
INVARIANTS
  SealerInvariant
  WholeIsNotBlamed
