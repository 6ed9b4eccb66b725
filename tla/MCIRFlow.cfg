CONSTANTS
  Programs <- CarefulPrograms
  Inputs = {1, 2}
SPECIFICATION IRSpec
INVARIANTS ValidatedRuns FlowExact OptimizedValid SameMeaning
PROPERTIES ValidateEnds
CHECK_DEADLOCK FALSE
