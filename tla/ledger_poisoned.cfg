SPECIFICATION Spec
CONSTANTS
  BTC = BTC
  ETH = ETH
  Assets = {BTC, ETH}
  Blank = Blank
  Quantities = {1, 2, 3}
  Prices = {1, 4}
  MarketPrices <- MCMarketPrices
  MaxDecimal = 12
  MaxTrades = 5
INVARIANT LockNotPoisoned
\* After MaxTrades trades the bounded ledger stops.
CHECK_DEADLOCK FALSE
