CONSTANTS
  Cases <- MCCases
  MaxMoves = 1
  AnyAuthor = "any"
  MaxGroups = 2
  MaxPatterns = 4
  DefaultLimit = 2
  MaxLimit = 2
  BatchSize = 2
  Name = Name
  NoRevision = NoRevision
  NoContents = NoContents
  MaxBlameLines = 2
  DefaultHistory = 3
  MaxHistory = 3
  DefaultContext = 1
  MaxContext = 2
  MaxSize = 2
SPECIFICATION Spec
CHECK_DEADLOCK FALSE
INVARIANTS
  IInv
  AnswerExact
  EvaluatesAsWritten
  OneRevision
  BlameIsWhole
  RangesDescribe
