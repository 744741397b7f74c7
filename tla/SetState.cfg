CONSTANTS
  t1 = t1
  t2 = t2
  t3 = t3
  Thread = {t1, t2, t3}
  Runs <- Entries
SPECIFICATION Spec
INVARIANTS OneHolder BitStands
PROPERTIES ImplementsPriorityLock Termination
