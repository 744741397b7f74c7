CONSTANTS
  Conf = {"c4-l3", "c4-l3-exc", "c4-l3-exc-mesi", "c4-l3-intel"}
  Core = {0, 1}
  ICore = {0}
  Addr = {x, y}
  Inst = {y}
  Val = {u, v}
  NoVal = NoVal
  Set <- OneSet
  Ways <- OneWay
  DirWays = 1
  MSHR = 2
SPECIFICATION Spec
INVARIANTS SingleWriter LevelsAgree AssertionsHold
PROPERTY ImplementsMemory
