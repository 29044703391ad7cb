SPECIFICATION Spec
CONSTANTS
  Commits = {1, 2, 3, 4}
  NoCommit = 0
  Ancestors <- MCAncestors
  Branches = {"dev", "f", "g"}
  NoBranch = "none"
  Default = "dev"
  Paths = {"main", "a", "a/b", "c"}
  Inside <- MCInside
  Main = "main"
  Viewed = "main"
  Dirs = {"x", "y"}
  Tips <- MCTips
  Held <- MCHeld
  MaxRequests = 2
  MaxUser = 1
  MaxSelected = 2
INVARIANTS
  IInv
PROPERTIES
  DeletedIsMerged
  WholeOrNothing
  SparesOthers
  SparseSpares
CHECK_DEADLOCK FALSE
