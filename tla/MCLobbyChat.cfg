SPECIFICATION Spec
CONSTANTS
  MaxPlayerId = 2
  WorldId = {W1, W2}
  Observer = {2}
  Unsteady = {2}
  Logins <- MCLogins
  Bodies <- MCBodies
  Titles = {T}
  Forms <- MCForms
  TopLimit = 1
  None = None
  NaN = NaN
  Unknown = Unknown
INVARIANT ChatByNumber
