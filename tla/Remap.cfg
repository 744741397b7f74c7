CONSTANTS
  w = w
  x = x
  y = y
  z = z
  Addr = {w, x, y, z}
  NSet = 2
  NW = 2
  Index <- Seeds
  None = None
SPECIFICATION Spec
INVARIANT BlocksKept
PROPERTY RemapEnds
