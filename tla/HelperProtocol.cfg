CONSTANTS
  MaxCalls = 3
  MaxPending = 2
  MaxReports = 0
  PipeSize = 1
  NullId = NullId
  NoId = NoId
SPECIFICATION FairSpec
CHECK_DEADLOCK FALSE
INVARIANTS
  PendingIsOpen
  NeverDuplicate
  CancelledByCaller
PROPERTIES
  SettlesOnce
  EverySettles
