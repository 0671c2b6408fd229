SPECIFICATION GroupSpec
CONSTANTS
  NVars = 4
  Symmetries <- MCSymmetries
  Orders = {}
  Configs <- MCConfigs
  MaxCalls = 0
  GroupLists <- MCGroupLists
INVARIANTS
  EveryOrbitSurvives
  OrderComplete
  OnlyStabilizersLeft
PROPERTIES
  Termination
CHECK_DEADLOCK FALSE
