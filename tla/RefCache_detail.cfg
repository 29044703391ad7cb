SPECIFICATION Spec
CONSTANTS
  r1 = r1
  r2 = r2
  R1 = R1
  R2 = R2
  s1 = s1
  s2 = s2
  k1 = k1
  k2 = k2
  Reads = {r1, r2}
  Repos = {R1, R2}
  RefStates = {s1, s2}
  Keys = {k1, k2}
  Methods <- DetailReads
  Maximum <- One
  MaxRepos = 1
  None = None
  NoFingerprint = NoFingerprint
  MaxLog <- Moves
  MaxRestarts = 0
INVARIANTS
  DetailsFollowRefs
CHECK_DEADLOCK FALSE
