SPECIFICATION Spec
CONSTANTS
  t1 = t1
  t2 = t2
  Tasks = {t1, t2}
  x = x
  y = y
  z = z
  Names = {x, y, z}
  NoName = NoName
  MAX_FILE = 4
  DIR_CAP = 3
  MAX_MOUNTS = 1
  Ops <- ReplaceOps
PROPERTIES
  NamesIndependent
  LockGivenBack
CHECK_DEADLOCK FALSE
SYMMETRY Symmetry
