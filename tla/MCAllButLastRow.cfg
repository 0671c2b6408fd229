SPECIFICATION Spec
CONSTANTS
  NVars = 9
  Subgroups <- MCSubgroups
  MaxGens = 2
INVARIANT
  AllButLastRowFixed
CHECK_DEADLOCK FALSE
