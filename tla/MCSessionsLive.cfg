SPECIFICATION FairSpec
CONSTANTS
  Client = {c1, c2}
  None = None
  MaxGames = 2
  MaxPlayerId = 2
  EventCap = 1
  InboxCap = 2
  MaxSent = 2
  Ops = {"ATTACH", "RESTORE", "CLOSE", "BAD_DATA"}
  OneSession = TRUE
INVARIANT NoAbandonedSeat
PROPERTY LostPlayersLeave
CHECK_DEADLOCK FALSE
