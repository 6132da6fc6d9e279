CONSTANTS
  Requests = {r1, r2, r3}
  Names <- AllNames
  Offered <- Some
  Last = 2
  Suffixed <- Numbered
  None = None
  fetch = fetch
  again = again
  share = share
  Transfers = {fetch, again, share}
  Codes = {"code", "own"}
  CodeOf <- OneCodeAndAnother
  Timed = {share}
  Clients = {k1}
  SessionBuffer = 2
  ClientBuffer = 2
  MaxHistory = 2
  MaxProgress = 2
SPECIFICATION DaemonSpec
INVARIANTS UploadsKept HistoryAgrees ToldIsTrue
PROPERTIES RecordsEnd FollowersLearn
CHECK_DEADLOCK FALSE
