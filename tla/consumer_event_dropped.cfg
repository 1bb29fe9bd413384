SPECIFICATION Spec
CONSTANTS
  c1 = c1
  c2 = c2
  p1 = p1
  p2 = p2
  BTC = BTC
  buy = buy
  more = more
  sell = sell
  hold = hold
  poison = poison
  Consumers = {c1, c2}
  Partitions = {p1, p2}
  Assets = {BTC}
  Events = {buy, more, sell}
  PoisonPills = {poison}
  TradeOf <- MCTradeOf
  PartitionOf <- MCPartitionOf
  NoConsumer = NoConsumer
  NoRecord = NoRecord
  MaxCopies = 1
  MaxFaults = 0
INVARIANT NoEventDropped
\* The bounded topic runs out of records, and then every instance waits in recv.
CHECK_DEADLOCK FALSE
