CONSTANTS
  n1 = n1
  old = old
  new = new
  newer = newer
  bad = bad
  None = None
  Names = {n1}
  Bodies = {old, new, newer, bad}
  Broken = {bad}
  Found <- AnyShape
  Streams = {s1, s2}
  Requests <- PolitePushes
  MaxPushes = 2
  MaxEdits = 0
  MaxFaults = 0
  MaxCrashes = 0
SPECIFICATION Spec
PROPERTIES ReplacedOnRequest
CHECK_DEADLOCK FALSE
