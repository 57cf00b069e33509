SPECIFICATION FairSpec
CONSTANTS
  None = None
  f1 = f1
  f2 = f2
  f3 = f3
  c1 = c1
  c2 = c2
  c3 = c3
  c4 = c4
  Drafts <- MCDrafts
  Cases <- MCCases
  FamilyOf <- MCFamilyOf
  Paths <- MCPaths
  Repeats = 1
  MinCases = 3
  MinFamilies = 3
  MinAuthors = 3
  MinClusters = 2
  Troubled = {c1}
  Citing <- MCCiting
  MaxTime = 3
  MaxSlips = 1
INVARIANTS
  TypeOK
  SearchFindsComponents
  BlindInputs
  BlindOracle
  NothingIsExcluded
  ClustersAreIndependent
  HonestPackIsAccepted
PROPERTIES
  ImplementsBlindTrial
  ScreeningAdvances
  ScreeningEnds
CHECK_DEADLOCK FALSE
