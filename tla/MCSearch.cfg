SPECIFICATION Spec
CONSTANTS
  N = 39
  CountLimit = 256
  MaxStored = 100
  Graphs <- MCGraphs
  Options <- MCOptions
  Limits <- NoLimit
INVARIANTS ReportedAreAutomorphisms OrbitsAreReported ChildrenEquitable AutomorphismBuilt UsablePrunersFixPath ComponentEnds
PROPERTIES BackjumpsAreSound
