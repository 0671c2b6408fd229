SPECIFICATION Spec
CONSTANTS
  NVars = 9
  Subgroups <- MCSubgroups
  MaxGens = 2
INVARIANTS
  ConstructionSound
  RowSwapsAreSymmetries
  NoSymmetryLost
  CleanComplete
PROPERTIES
  Termination
CHECK_DEADLOCK FALSE
