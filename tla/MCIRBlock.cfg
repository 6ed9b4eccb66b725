CONSTANTS
  Temps = {t1, t2, t3}
  Vars = {x}
  Objects = {a, b}
  Half = 2
  MaxLen = 1
  Types <- SignedTypes
  Ops = {"-", "<"}
  Lits <- Signed
  Careful = TRUE
  None = None
SPECIFICATION IRSpec
INVARIANTS
  IRInv
  ConstsTrue
  BranchSound
  UncheckedSafe
SYMMETRY Symmetry
CHECK_DEADLOCK FALSE
