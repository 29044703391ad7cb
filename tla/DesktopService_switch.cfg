SPECIFICATION Spec
CONSTANTS
  Opens = {o1, o2}
  Reads = {r1, r2}
  Searches = {}
  Mutations = {m1}
  Closes = {c1}
  Stops = {}
  OnHistory = {r1, r2}
  Repos = {A, B}
  NoRepo = NoRepo
  NoCall = NoCall
  NoSurface = NoSurface
  Surfaces <- MCSurfaces
  Surface <- MCSurface
SYMMETRY Symmetric
INVARIANTS
  LiveWorkIsCurrent
  MutationsStayCurrent
  LatestWins
  SwitchingIsOwned
PROPERTIES
  SessionSpec
