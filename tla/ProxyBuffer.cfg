SPECIFICATION Spec
CONSTANTS
  Capacity = 3
  Blocks = {1, 2, 3, 4}
  MaxReserve = 4
  MaxBytes = 6
  Null = Null
INVARIANTS
  RepresentationOK
PROPERTIES
  ImplementsFifo
