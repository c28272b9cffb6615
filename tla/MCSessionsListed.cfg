SPECIFICATION Spec
CONSTANTS
  Client = {c1}
  None = None
  MaxGames = 1
  MaxPlayerId = 1
  EventCap = 1
  InboxCap = 2
  MaxSent = 1
  Ops = {"ATTACH"}
  OneSession = TRUE
INVARIANT ListedClientsConnected
CHECK_DEADLOCK FALSE
