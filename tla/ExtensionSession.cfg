CONSTANTS
  R1 = R1
  R2 = R2
  Dir = Dir
  D1 = D1
  D2 = D2
  Bad = Bad
  None = None
  Roots = {R1, R2}
  Targets <- MCTargets
  Drafts = {D1, D2, Bad}
  Invalid = {Bad}
  MaxRefreshes = 3
  MaxSearches = 2
SPECIFICATION FairSpec
CHECK_DEADLOCK FALSE
INVARIANTS
  IInv
PROPERTIES
  LoadingEnds
