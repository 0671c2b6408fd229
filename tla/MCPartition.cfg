SPECIFICATION Spec
CONSTANTS
  N = 4
  CountLimit = 3
  MaxValue = 2
  MaxPoints = 2
  MaxCrLevel = 1
  Recursions = {TRUE, FALSE}
INVARIANTS TypeOK CellsAgree SplitsByValue
PROPERTIES EnoughQueued Implements
