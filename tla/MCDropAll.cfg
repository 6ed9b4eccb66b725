CONSTANTS
  p = p
  x = x
  y = y
  c1 = c1
  c2 = c2
  c3 = c3
  c4 = c4
  Vars = {x, y}
  Params = {x}
  NoVar = NoVar
  MaxStmts = 4
  MaxDepth = 2
  Shapes = {"block", "if", "loop", "arms"}
  Discipline = {"loop", "arms"}
  Cells = {c1, c2, c3}
  Static = Static
  Unset = Unset
  Released = Released
  Lost = Lost
SPECIFICATION Spec
SYMMETRY MCSymmetry
INVARIANTS IInv NoDoubleDrop
CHECK_DEADLOCK FALSE
