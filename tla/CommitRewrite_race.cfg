SPECIFICATION Spec
CONSTANTS
  c0 = c0
  c1 = c1
  c2 = c2
  main = main
  dev = dev
  r1 = r1
  r2 = r2
  p1 = p1
  p2 = p2
  Requests = {r1, r2}
  Instances = {p1, p2}
  Home <- Apart
  Branches = {main, dev}
  Default = main
  Origins = {c0, c1, c2}
  OriginParent <- MCOriginParent
  OriginRefs <- MCOriginRefs
  OriginMerges = {}
  User = user
  None = None
  Mixed = Mixed
  MaxRewriteCommits = 1
  MaxUserSteps = 1
CHECK_DEADLOCK FALSE
INVARIANTS
  IInv
PROPERTIES
  KeepsTips
  AllOrNothing
