CONSTANTS
  d1 = d1
  d2 = d2
  q1 = q1
  q2 = q2
  Daemons = {d1, d2}
  Tools = {t1}
  Explicit = {d2}
  Static <- OnePeer
  ToolsFirst = FALSE
  MaxMints = 3
  MaxFaults = 1
  MaxLines = 3
  Scripts <- AllScripts
SPECIFICATION NodeSpec
INVARIANTS SuccessIsTrue
CHECK_DEADLOCK FALSE
