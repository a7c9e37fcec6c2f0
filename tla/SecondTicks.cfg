SPECIFICATION FairSpec
CONSTANTS
  a = a
  b = b
  Tasks = {a, b}
  COUNTS = 4
INVARIANTS
  TypeOK
  TicksWhileOpen
  TimerSafe
  CountsSeconds
PROPERTIES
  CounterAdvances
CHECK_DEADLOCK FALSE
