CONSTANTS
  Transfers = {t1, t2}
  Codes = {t1, t2}
  CodeOf <- OfItsOwn
  Timed = {}
  Clients = {}
  SessionBuffer = 2
  ClientBuffer = 1
  MaxHistory = 2
  MaxProgress = 0
SPECIFICATION Spec
INVARIANTS RecordIsTrue
SYMMETRY TransferSymmetry
CHECK_DEADLOCK FALSE
