SPECIFICATION Spec
CONSTANTS
  r1 = r1
  r2 = r2
  buy = buy
  sell = sell
  BTC = BTC
  Blank = Blank
  Replicas = {r1, r2}
  NoReplica = NoReplica
  MaxDecimal = 7
  Wanted <- MCWanted
  MAX_RETRIES = 2
  SEND_RETRIES = 1
  MaxTries <- BuyTwice
  MaxCrashes = 1
  MaxDisconnects = 1
INVARIANTS
  TypeOK
  MemoryIsAccount
  TableAgreesWithAnswers
  OnlyKeptTradesPublished
  NoEventLostSilently
  CopiesBounded
  NeverOversold
SYMMETRY Symmetry
\* The clients run out of trades, and then the replicas wait for requests.
CHECK_DEADLOCK FALSE
