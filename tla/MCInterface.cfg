SPECIFICATION Spec
CONSTANTS
  NVars = 4
  Files <- MCFiles
  MaxGens = 2
  useMatrixDetection = TRUE
INVARIANTS
  SymmetriesExact
  SubTheoryExact
  IsSymmetryExact
CHECK_DEADLOCK FALSE
