SPECIFICATION Spec
CONSTANTS
  NVars = 4
  NbGens = 4
  Pool <- MCPool
INVARIANTS
  TypeOK
  SubgroupsDisjoint
PROPERTIES
  ComponentsSpec
  Termination
CHECK_DEADLOCK FALSE
