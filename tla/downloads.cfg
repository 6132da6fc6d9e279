CONSTANTS
  a = a
  b = b
  c1 = c1
  c2 = c2
  n1 = n1
  None = None
  Hole = Hole
  Workers = {w1, w2}
  Codes = {c1, c2}
  Names = {n1, n2}
  Cells = {a, b}
  Contents <- TwoContents
  Inodes = {i1, i2, i3}
  RoutesOf <- OneRouteEach
  HardLinks = TRUE
  MaxEdits = 2
  MaxFaults = 1
  LiveEdits = 3
  LiveFaults = 1
SPECIFICATION DownloadsSpec
INVARIANTS IInv Intact
PROPERTIES LandsWhole EventuallyLands
CHECK_DEADLOCK FALSE
