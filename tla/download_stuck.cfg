CONSTANTS
  a = a
  b = b
  c1 = c1
  c2 = c2
  None = None
  Hole = Hole
  Workers = {w1}
  Codes = {c1}
  Names = {n1}
  Cells = {a, b}
  Contents <- ThreeContents
  Inodes = {i1, i2}
  RoutesOf <- ReadOnly
  HardLinks = TRUE
  MaxEdits = 3
  MaxFaults = 1
SPECIFICATION OnceSpec
PROPERTIES StaleNeverBlocks
CHECK_DEADLOCK FALSE
