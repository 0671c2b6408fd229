SPECIFICATION Spec
CONSTANTS
  NVars = 5
  Pool <- MCPool
INVARIANTS
  TypeOK
  SplitCommutesWithNegation
  OrbitsKept
  UniformSplitExact
CHECK_DEADLOCK FALSE
