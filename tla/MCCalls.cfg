SPECIFICATION CallsLiveSpec
CONSTANTS
  N = 7
  CountLimit = 256
  MaxStored = 2
  Graphs <- MCGraphs
  Options <- MCOptions
  Limits <- MCLimits
  Perms <- MCPerms
  MaxCalls = 2
INVARIANTS ReportedGenerateGroup OneCanonicalForm LabelingRespectsColors
PROPERTIES EndsByItself
