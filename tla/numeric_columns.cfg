SPECIFICATION Spec
CONSTANTS
  half = half
  tiny = tiny
  odd = odd
  whole = whole
  cheap = cheap
  part = part
  loss = loss
  rest = rest
  dear = dear
  BTC = BTC
  Assets = {BTC}
  Events = {half, tiny, odd, whole, cheap, part, loss, rest, dear}
  TradeOf <- MCTradeOf
  Scale = 10
  MaxNumeric = 60
  MaxPrice = 10
INVARIANTS
  DriftBounded
  AuditWithinADigit
  ColumnDigitsAreExact
\* The events run out.
CHECK_DEADLOCK FALSE
