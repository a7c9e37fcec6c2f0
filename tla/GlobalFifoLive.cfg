SPECIFICATION FairSpec
CONSTANTS
  a = a
  b = b
  c = c
  Tasks = {a, b, c}
  SIZE = 1
  Bytes <- MCBytes
  Calls <- SharingCalls
  MemcpyOrder = {"forward"}
INVARIANTS
  NoLostSpaceWakeup
PROPERTIES
  ReaderWoken
  WriterWoken
  PollerWoken
  SignalEndsCall
