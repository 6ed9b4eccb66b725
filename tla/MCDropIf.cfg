CONSTANTS
  p = p
  x = x
  y = y
  c1 = c1
  c2 = c2
  c3 = c3
  c4 = c4
  Vars = {p, x, y}
  Params = {p}
  NoVar = NoVar
  MaxStmts = 4
  MaxDepth = 2
  Shapes = {"block", "if", "redeclare"}
  Discipline = {}
  Cells = {c1, c2, c3, c4}
  Static = Static
  Unset = Unset
  Released = Released
  Lost = Lost
SPECIFICATION Spec
SYMMETRY MCSymmetry
INVARIANTS TypeOK NoStaleUse StaysInCode FlagsSound
CHECK_DEADLOCK FALSE
