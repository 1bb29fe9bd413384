SPECIFICATION FairPipelineSpec
CONSTANTS
  r1 = r1
  cheap = cheap
  dear = dear
  sell = sell
  empty = empty
  huge = huge
  BTC = BTC
  Blank = Blank
  Replicas = {r1}
  NoReplica = NoReplica
  MaxDecimal = 10
  Wanted <- MCWanted
  MAX_RETRIES = 1
  SEND_RETRIES = 0
  MaxTries <- Once
  MaxCrashes = 1
  MaxDisconnects = 0
INVARIANTS
  SameOrderSameBooks
  SameTradesSameMoney
PROPERTIES
  ReadsFollowEvents
  EverythingSettles
\* The clients run out of trades, and then the replicas wait for requests.
CHECK_DEADLOCK FALSE
