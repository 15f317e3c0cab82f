SPECIFICATION Spec
CONSTANTS
  t0 = t0
  t1 = t1
  once = once
  a = a
  b = b
  Contexts = {t0, t1, once}
  Locks = {a, b}
  None = None
  Once = {once}
  Uses <- MCUses
  NewUses <- MCNewUses
  Installable = {t0}
  Quantum = 1
  Slice = 2
  MaxInstalls = 2
INVARIANTS
  MateTypeOK
  RaceFree
  AcquiresOnlyReleased
  DeadlockFree
  
CHECK_DEADLOCK FALSE
