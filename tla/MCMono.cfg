CONSTANTS
  Programs <- WMonoPrograms
SPECIFICATION MonoSpec
INVARIANTS Rechecks NoFalseUndefined TypesExist
CHECK_DEADLOCK FALSE
