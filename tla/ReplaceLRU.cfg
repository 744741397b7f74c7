CONSTANTS
  Policy = "LRU"
  NW = 4
  EF = TRUE
  DUO = TRUE
  EnMT = TRUE
SPECIFICATION ReplacerSpec
INVARIANTS Permutation OneAllocation FreeMapSound
PROPERTY ImplementsQueue
