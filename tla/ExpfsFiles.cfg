SPECIFICATION Spec
CONSTANTS
  t1 = t1
  t2 = t2
  x = x
  y = y
  Tasks = {t1, t2}
  Names = {x, y}
  NoName = NoName
  MAX_FILE = 4
  BUFFER_SIZE = 2
  FIT = 1
  SPILL = 1
  Bytes <- MCBytes
  Calls <- MCCalls
INVARIANTS
  TypeOK
  OwnBytes
PROPERTIES
  FilesApart
  LockGivenBack
CHECK_DEADLOCK FALSE
SYMMETRY Symmetry
