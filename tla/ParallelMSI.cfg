CONSTANTS
  Proto = "MSI"
  Directory = FALSE
  Core = {0, 1}
  LLC = LLC
  x = x
  y = y
  z = z
  u = u
  Addr = {x, y, z, u}
  Set <- Sets
  Ways <- LineWays
  Call <- Calls
  MSHR = 1
  None = None
SPECIFICATION Spec
INVARIANTS SingleWriter CopiesLatest NothingLost OnceInSet MemoryAlone
PROPERTIES ImplementsPriorityLocks Progress
