CONSTANTS
  n1 = n1
  old = old
  new = new
  newer = newer
  bad = bad
  None = None
  Names = {n1}
  Bodies = {old, new, newer, bad}
  Broken = {bad}
  Found <- AnyShape
  Streams = {s1, s2}
  Requests <- AllPushes
  MaxPushes = 2
  MaxEdits = 1
  MaxFaults = 1
  MaxCrashes = 1
SPECIFICATION FairSpec
INVARIANTS OnlyVerified NeverLost DestinationKept StoredMeansLanded
PROPERTIES AlwaysReleased
CHECK_DEADLOCK FALSE
