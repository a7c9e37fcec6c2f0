SPECIFICATION Spec
CONSTANTS
  a = a
  b = b
  Tasks = {a, b}
  FileOf <- Private
  SIZE = 3
  Bytes <- MCBytes
  UINT = 8
  Calls <- StepCalls
  MUTEX = FALSE
  Compat = {b}
INVARIANTS
  PositionInRange
