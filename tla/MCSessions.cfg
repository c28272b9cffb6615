SPECIFICATION Spec
CONSTANTS
  Client = {c1, c2}
  None = None
  MaxGames = 2
  MaxPlayerId = 2
  EventCap = 1
  InboxCap = 1
  MaxSent = 3
  Ops = {"ATTACH", "RESTORE", "CLOSE", "NAME", "DATA"}
  OneSession = FALSE
SYMMETRY Symmetry
INVARIANT TypeOK
INVARIANT SeatsUnique
INVARIANT GamesInhabited
INVARIANT OnlyDepartedOnClock
PROPERTY PresentPlayersStay
PROPERTY GameIdsNotReused
CHECK_DEADLOCK FALSE
