SPECIFICATION Spec
CONSTANTS
  MaxPlayerId = 2
  WorldId = {1, 2}
  Sizes = {s1, s2}
  ObjectIds <- MCIds
  Disciplined <- MCDisciplined
  None = None
  Bodies = {TRUE, FALSE}
  Unsteady = {2}
  Missed = Missed
SYMMETRY Resizings
INVARIANT TypeOK
INVARIANT BelongingsWithOwner
INVARIANT ViewsAgree
INVARIANT IdsReadAsPacked
PROPERTY LeaversTakeTheirOwn
PROPERTY ItemsInCustody
PROPERTY OwnersKeep
