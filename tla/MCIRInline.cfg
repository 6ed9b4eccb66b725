CONSTANTS
  Programs <- CompiledPrograms
  Inputs = {1, 2}
SPECIFICATION IRSpec
INVARIANTS SameMeaning
CHECK_DEADLOCK FALSE
