CONSTANTS
  Proto = "MESI"
  Directory = TRUE
  L1Proto = "MSI"
  Core = {0, 1}
  ICore = {i}
  Addr = {x, y}
  Inst = {y}
  Val = {u, v}
  NoVal = NoVal
  NoBlock = NoBlock
  L1Set <- OneSet
  L1Ways = 1
  LLCSet <- OneSet
  LLCWays = 1
  DirWays = 1
  PrefetchPort = {0, i}
SPECIFICATION BuildSpec
INVARIANTS Exclusion DirectoryCoversIfAny AssertionsHold
PROPERTY ImplementsMemory
