SPECIFICATION Spec
CONSTANTS
  Objects = {o1}
  None = None
  Cap = 1
  MaxWaiting = 1
  MaxStamp = 3
  Endless = {}
CHECK_DEADLOCK FALSE
PROPERTY ReliableInOrder
