CONSTANTS
  b1 = b1
  b2 = b2
  b3 = b3
  b4 = b4
  Addr = {b1, b2, b3, b4}
  P = 2
  NW = 1
  EW = 1
  MSet <- Skewed
  DSet <- DataSets
  MaxRelocN = 2
  None = None
SPECIFICATION Spec
INVARIANTS AllocatedOnce
