SPECIFICATION FairSpec
CONSTANTS
  Objects = {o1, o2}
  None = None
  Cap = 1
  MaxWaiting = 1
  MaxStamp = 2
  Endless = {"UPDATE"}
CHECK_DEADLOCK FALSE
INVARIANT LineIsPending
PROPERTY ReliableWritten
PROPERTY UpdatesWritten
