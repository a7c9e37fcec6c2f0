SPECIFICATION Spec
CONSTANTS
  t1 = t1
  t2 = t2
  Tasks = {t1, t2}
  x = x
  y = y
  z = z
  Names = {x, y}
  NoName = NoName
  MAX_FILE = 5
  DIR_CAP = 2
  MAX_MOUNTS = 1
  Ops <- TreeOps
INVARIANTS
  TypeOK
  CountCoversUsed
  EntriesMatchBlocks
  DcacheCoherent
CHECK_DEADLOCK FALSE
PROPERTIES
  ImplementsNamespace
SYMMETRY Symmetry
