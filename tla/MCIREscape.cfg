CONSTANTS
  Temps = {t1, t2, t3}
  Vars = {x}
  Objects = {a, b}
  Half = 2
  MaxLen = 1
  Types <- SignedTypes
  Ops = {"-", "<"}
  Lits <- Signed
  Careful = FALSE
  None = None
SPECIFICATION IRSpec
INVARIANTS UncheckedSafe
SYMMETRY Symmetry
CHECK_DEADLOCK FALSE
