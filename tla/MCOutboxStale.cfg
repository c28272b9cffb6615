SPECIFICATION Spec
CONSTANTS
  Objects = {o1}
  None = None
  Cap = 3
  MaxWaiting = 1
  MaxStamp = 5
  Endless = {}
CHECK_DEADLOCK FALSE
INVARIANT NewestUpdateOnly
