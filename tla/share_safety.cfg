CONSTANTS
  c1 = c1
  c2 = c2
  f1 = f1
  f2 = f2
  None = None
  Codes = {c1}
  Peers = {p1, p2}
  Paired = {p1, p2}
  Files = {f1}
  FileOf <- OwnFiles
  Chunks = 2
  Buffer = 1
  MaxCancels = 1
  MaxFaults = 1
SPECIFICATION FairSpec
INVARIANTS NeverPanics DoneIsTrue
PROPERTIES SenderLearns ServingEnds
CHECK_DEADLOCK FALSE
