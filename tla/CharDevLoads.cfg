SPECIFICATION Spec
CONSTANTS
  t1 = t1
  t2 = t2
  t3 = t3
  Tasks = {t1, t2, t3}
  MAX_LOADS = 3
INVARIANTS
  TypeOK
  NothingLeft
  MemoryUnderCalls
PROPERTIES
  ReadyOnceLoaded
CHECK_DEADLOCK FALSE
SYMMETRY TaskSymmetry
