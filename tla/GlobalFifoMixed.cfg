SPECIFICATION Spec
CONSTANTS
  a = a
  b = b
  c = c
  Tasks = {a, b, c}
  SIZE = 2
  Bytes <- MCBytes
  Calls <- MixedCalls
  MemcpyOrder = {"forward"}
INVARIANTS
  TypeOK
  SemExclusive
  WaitEntriesLive
  NoLostDataWakeup
  SigioToOpeners
PROPERTIES
  ImplementsFifo
