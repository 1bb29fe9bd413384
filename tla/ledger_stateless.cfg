SPECIFICATION Spec
CONSTANTS
  r1 = r1
  r2 = r2
  buy = buy
  sell = sell
  BTC = BTC
  Blank = Blank
  Replicas = {r1, r2}
  NoReplica = NoReplica
  MaxDecimal = 100
  Wanted <- MCWanted
  MAX_RETRIES = 1
  SEND_RETRIES = 0
  MaxTries <- Once
  MaxCrashes = 1
  MaxDisconnects = 0
INVARIANT AnyReplicaWillDo
\* The clients run out of trades, and then the replicas wait for requests.
CHECK_DEADLOCK FALSE
