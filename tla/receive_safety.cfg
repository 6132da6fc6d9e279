CONSTANTS
  Size = 5
  ChunkSize = 2
  MaxDamages = 2
  MaxFetches = 2
  Codes = {c1}
  CodeOf <- OneCode
  Chunks = 1
  Buffer = 1
  MaxFaults = 1
  Lookers = {l1}
  Near = {l1}
  Own = {}
  First = 1
  Cap = 3
  MaxLosses = 2
SPECIFICATION ReceiverSpec
INVARIANTS StreamIsPrefix NeverPanics SavedIsReported OutcomeIsTrue
PROPERTIES FetchesEnd LookupsEnd OfferRenewed
CHECK_DEADLOCK FALSE
