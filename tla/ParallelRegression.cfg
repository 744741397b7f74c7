CONSTANTS
  Core = {0, 1}
  own = own
  common = common
  Addr = {own, common}
  Owner <- Owners
  Shared = Shared
  Inst = {own, common}
  TestN = 4
SPECIFICATION Spec
INVARIANTS RefusedOnlyIfDropped PrivateExact
PROPERTY Returns
CHECK_DEADLOCK FALSE
