CONSTANTS
  t1 = t1
  t2 = t2
  t3 = t3
  a = a
  b = b
  c = c
  Core = {t1, t2, t3}
  Id <- Coherent
  Prefetch <- OnePrefetches
  Addr = {a, b}
  SetOf <- OwnSets
  Ways = {0}
  None = None
  MSHR = 3
SPECIFICATION XactSpec
INVARIANTS Recorded OwnEntry
PROPERTY Available
