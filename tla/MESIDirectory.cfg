CONSTANTS
  Proto = "MESI"
  Directory = TRUE
  Core = {0, 1}
  ICore = {i}
  Addr = {x, y}
  Inst = {y}
  Val = {u, v}
  NoBlock = NoBlock
  L1Set <- OneSet
  L1Ways = 1
  LLCSet <- OneSet
  LLCWays = 1
  EmptyFirst = TRUE
  PrefetchPort = {0}
SPECIFICATION Spec
INVARIANTS SingleWriter CopiesAgree AssertionsHold InclusionAndDirectory FlushedEverywhere
PROPERTY ImplementsMemory
