CONSTANTS
  t1 = t1
  t2 = t2
  t3 = t3
  a = a
  b = b
  c = c
  Core = {t1, t2, t3}
  Id <- Foreign
  Prefetch <- NonePrefetches
  Addr = {a, b}
  SetOf <- OneSet
  Ways = {0, 1}
  None = None
  MSHR = 3
SPECIFICATION XactSpec
INVARIANT OwnLine
