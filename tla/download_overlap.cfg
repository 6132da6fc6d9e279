CONSTANTS
  a = a
  b = b
  c1 = c1
  c2 = c2
  None = None
  Hole = Hole
  Workers = {w1, w2}
  Codes = {c1}
  Names = {n1}
  Cells = {a, b}
  Contents <- TwoContents
  Inodes = {i1, i2, i3}
  RoutesOf <- BothRoutes
  HardLinks = TRUE
  MaxEdits = 2
  MaxFaults = 1
SPECIFICATION Spec
INVARIANTS Intact
SYMMETRY WorkerSymmetry
CHECK_DEADLOCK FALSE
