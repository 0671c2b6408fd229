SPECIFICATION Spec
CONSTANTS
  NVars = 9
  Subgroups <- MCSubgroups
  MaxGens = 2
INVARIANT
  RowsInterchangeable
CHECK_DEADLOCK FALSE
