SPECIFICATION Spec
CONSTANTS
  Objects = {o1}
  None = None
  Cap = 1
  MaxWaiting = 2
  MaxStamp = 3
  Endless = {"PLAIN", "TIME"}
CHECK_DEADLOCK FALSE
INVARIANT TypeOK
INVARIANT NoLostWakeup
INVARIANT NothingReliableLost
INVARIANT NothingLeftBehind
INVARIANT NoUpdateAfterGone
