CONSTANTS
  F = F
  G = G
  s1 = s1
  s2 = s2
  R1 = R1
  R2 = R2
  c1 = c1
  c2 = c2
  None = None
  Columns = {1, 2}
  Files = {F, G}
  Selections = {s1, s2}
  Deleted = {s2}
  Roots = {R1, R2}
  Root <- MCRoot
  Path <- MCPath
  Contents = {c1, c2}
  Saved <- MCSaved
  Blob <- MCBlob
  Windows = {1}
  MaxEvents = 4
SPECIFICATION EditorSpec
CHECK_DEADLOCK FALSE
INVARIANTS
  EditorInv
  BlameAtRest
  MarksAtRest
