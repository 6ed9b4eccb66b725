CONSTANTS
  Names = {"x", "y"}
  MaxDepth = 3
  MaxBinders = 4
SPECIFICATION QuotingSpec
INVARIANTS
  UsesKept NoCapture
  RenamedWhereSpliced SubstitutedWhereExpanded StrippedWhereEvaluated
CHECK_DEADLOCK FALSE
