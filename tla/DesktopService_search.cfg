SPECIFICATION FairSpec
CONSTANTS
  Opens = {o1, o2}
  Reads = {}
  Searches = {s1, s2}
  Mutations = {}
  Closes = {}
  Stops = {x1}
  OnHistory = {}
  Repos = {A}
  NoRepo = NoRepo
  NoCall = NoCall
  NoSurface = NoSurface
  Surfaces <- MCSurfaces
  Surface <- MCSurface
INVARIANTS
  IInv
PROPERTIES
  CallsReturn
