CONSTANTS
  Temps = {t1, t2, t3}
  Vars = {x}
  Objects = {a}
  Half = 2
  MaxLen = 2
  Types <- SignedTypes
  Ops = {"=="}
  Lits <- Flags
  Careful = FALSE
  None = None
SPECIFICATION IRSpec
INVARIANTS BranchSound
SYMMETRY Symmetry
CHECK_DEADLOCK FALSE
