SPECIFICATION Spec
CONSTANTS
  NVars = 4
  Symmetries <- MCSymmetries
  Orders <- MCOrders
  Configs <- MCConfigs
  MaxCalls = 1
INVARIANTS
  TypeOK
  EncodesLexLeader
  FullTranslationIsFunctional
  AuxiliariesWithinLimit
CHECK_DEADLOCK FALSE
