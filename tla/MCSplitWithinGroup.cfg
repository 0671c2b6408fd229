SPECIFICATION Spec
CONSTANTS
  NVars = 3
  Pool <- MCPool
INVARIANTS
  SplitWithinGroup
CHECK_DEADLOCK FALSE
