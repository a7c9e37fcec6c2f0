SPECIFICATION Spec
CONSTANTS
  t1 = t1
  t2 = t2
  Tasks = {t1, t2}
  ndevices = 2
  Params <- MCParams
  KERNEL_SECTOR_SIZE = 2
  UINT = 16
  Requests <- MCRequests
  Junk = 3
  SPAN = 2
INVARIANTS
  TypeOK
  RequestsFit
  ReadBack
  GivenBackOnce
  DataUnderRequests
CHECK_DEADLOCK FALSE
SYMMETRY TaskSymmetry
