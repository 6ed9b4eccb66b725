CONSTANTS
  p = p
  x = x
  y = y
  c1 = c1
  c2 = c2
  c3 = c3
  c4 = c4
  Vars = {x}
  Params = {}
  NoVar = NoVar
  MaxStmts = 5
  MaxDepth = 2
  Shapes = {"if", "loop", "arms"}
  Discipline = {"exact"}
  Cells = {c1, c2}
  Static = Static
  Unset = Unset
  Released = Released
  Lost = Lost
SPECIFICATION Spec
SYMMETRY MCSymmetry
INVARIANTS NoLeak LeakInv
CHECK_DEADLOCK FALSE
