SPECIFICATION Spec
CONSTANTS
  a = a
  b = b
  Tasks = {a, b}
  FileOf <- Shared
  SIZE = 2
  Bytes <- MCBytes
  UINT = 8
  Calls <- CopyCalls
  MUTEX = TRUE
  Compat = {b}
INVARIANTS
  TypeOK
  PositionInRange
PROPERTIES
  ImplementsMemory
CHECK_DEADLOCK FALSE
