SPECIFICATION Spec
CONSTANTS
  t1 = t1
  t2 = t2
  Tasks = {t1, t2}
  ndevices = 1
  Params <- MCParams
  KERNEL_SECTOR_SIZE = 2
  UINT = 16
  Requests <- MCRequests
  Junk = 3
  SPAN = 1
INVARIANTS
  ReadBack
CHECK_DEADLOCK FALSE
