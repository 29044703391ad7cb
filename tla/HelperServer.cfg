CONSTANTS
  I1 = I1
  Ids = {I1}
  NullId = NullId
  NoId = NoId
  MaxRequests = 2
  MaxReports = 1
  PipeSize = 1
SPECIFICATION FairSpec
CHECK_DEADLOCK FALSE
INVARIANTS
  IInv
  CancellationsExact
  LinesInOrder
  NilMeansAnswered
PROPERTIES
  Drains
