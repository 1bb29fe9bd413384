----------------------------- MODULE Positions ------------------------------
(***************************************************************************)
(* ledger-service/src/domain: trades, and the portfolio of one process as  *)
(* a value.  A portfolio is                                                *)
(*   [positions |-> asset :> [lots, total_quantity] @@ ...,                *)
(*    total_realized_pnl |-> ...]                                          *)
(* where an asset without a position has not been bought yet.              *)
(*                                                                         *)
(* A definition whose comment begins with "Slip" is no part of the model:  *)
(* it is a bug that the definition after it does not have, kept to show    *)
(* that a property would notice.                                           *)
(***************************************************************************)
EXTENDS FifoLots

CONSTANTS Blank,       \* an asset symbol of white space only
          MaxDecimal   \* the largest Decimal: 2^96 - 1 in units of the last digit

ASSUME MaxDecimalAssumption == MaxDecimal \in Nat

Fits(x) == -MaxDecimal <= x /\ x <= MaxDecimal

-----------------------------------------------------------------------------
(* Requests and trades. *)

\* What execute and Trade::new let through: a symbol, a quantity and a price
\* that are positive.
ValidTrade(t) == t.asset # Blank /\ t.quantity > 0 /\ t.price > 0

\* notional_value, computed before the lock is taken, does not panic.
NotionalFits(t) == Fits(t.quantity * t.price)

-----------------------------------------------------------------------------
(* One position. *)

NewPosition == [lots |-> << >>, total_quantity |-> 0]

\* add_lot up to its first statement, and so far only if the second one panics.
PushLot(position, quantity, cost) ==
  [position EXCEPT !.lots = Append(@, [quantity |-> quantity, cost_per_unit |-> cost])]

AddLot(position, quantity, cost) ==
  [PushLot(position, quantity, cost) EXCEPT !.total_quantity = @ + quantity]

\* Its profit or loss if it were sold at the price.
UnrealizedPnl(position, price) == position.total_quantity * price - CostOf(position.lots)

\* The average cost of a unit, as a fraction; << >> for an empty position.
AverageCost(position) ==
  IF position.total_quantity = 0
  THEN << >>
  ELSE <<CostOf(position.lots), position.total_quantity>>

-----------------------------------------------------------------------------
(* The portfolio. *)

NewPortfolio == [positions |-> << >>, total_realized_pnl |-> 0]

PositionOf(portfolio, a) ==
  IF a \in DOMAIN portfolio.positions THEN portfolio.positions[a] ELSE NewPosition

WithPosition(portfolio, a, position) ==
  [b \in DOMAIN portfolio.positions \union {a} |->
     IF b = a THEN position ELSE portfolio.positions[b]]

\* InsufficientBalance: nothing was ever bought, or not enough is left.
Refuses(portfolio, t) ==
  t.side = "sell" /\ t.quantity > PositionOf(portfolio, t.asset).total_quantity

\* What consume_fifo makes of a sell that is not refused.
Sell(portfolio, t) == ConsumeFifo(PositionOf(portfolio, t.asset).lots, t.quantity, t.price)

\* The portfolio after apply_trade has returned Ok.
ApplyTrade(portfolio, t) ==
  LET position == PositionOf(portfolio, t.asset)
  IN  IF t.side = "buy"
      THEN [portfolio EXCEPT !.positions =
              WithPosition(portfolio, t.asset, AddLot(position, t.quantity, t.price))]
      ELSE LET sale == Sell(portfolio, t)
           IN  [positions |->
                  WithPosition(portfolio, t.asset,
                    [lots           |-> sale.lots,
                     total_quantity |-> position.total_quantity - (t.quantity - sale.left)]),
                total_realized_pnl |->
                  portfolio.total_realized_pnl + RealizedPnl(sale.matches)]

\* What the loops over the events of a sell add up, from a start on.
RunningSums(start, matches) ==
  [i \in 0 .. Len(matches) |-> start + RealizedPnl(SubSeq(matches, 1, i))]

AllFit(sums) == \A i \in DOMAIN sums : Fits(sums[i])

\* The sums in apply_trade, and the one of execute under the same guard.  The
\* products cannot overflow: they are parts of notional values.
SumsFit(portfolio, t) ==
  IF t.side = "buy"
  THEN Fits(PositionOf(portfolio, t.asset).total_quantity + t.quantity)
  ELSE LET matches == Sell(portfolio, t).matches
       IN  /\ AllFit(RunningSums(portfolio.total_realized_pnl, matches))
           /\ AllFit(RunningSums(0, matches))

\* What a panic leaves behind: a lot that the total does not know, or a sale of
\* which only the first matches are in the realized total.
Torn(portfolio, t) ==
  IF t.side = "buy"
  THEN [portfolio EXCEPT !.positions =
          WithPosition(portfolio, t.asset,
                       PushLot(PositionOf(portfolio, t.asset), t.quantity, t.price))]
  ELSE LET sums == RunningSums(portfolio.total_realized_pnl, Sell(portfolio, t).matches)
           last == CHOOSE i \in DOMAIN sums :
                     /\ \A j \in 0 .. i : Fits(sums[j])
                     /\ i + 1 \in DOMAIN sums => ~Fits(sums[i + 1])
       IN  [ApplyTrade(portfolio, t) EXCEPT !.total_realized_pnl = sums[last]]

\* GET /portfolio: the positions that hold something, each with its average cost.
GetPortfolio(portfolio) ==
  [a \in {b \in DOMAIN portfolio.positions : portfolio.positions[b].total_quantity > 0} |->
     [quantity     |-> portfolio.positions[a].total_quantity,
      average_cost |-> AverageCost(portfolio.positions[a])]]

\* The assets that total_unrealized_pnl asks a price for.
OpenAssets(portfolio) ==
  {a \in DOMAIN portfolio.positions : portfolio.positions[a].total_quantity # 0}

\* Slip: the market value alone, without the cost.
TotalMarketValue(portfolio, prices) ==
  MapThenSumSet(LAMBDA a : portfolio.positions[a].total_quantity * prices[a],
                OpenAssets(portfolio))

TotalUnrealizedPnl(portfolio, prices) ==
  MapThenSumSet(LAMBDA a : UnrealizedPnl(portfolio.positions[a], prices[a]),
                OpenAssets(portfolio))

\* GET /pnl: an error if an open position has no price in the request.
CanPrice(portfolio, prices) == OpenAssets(portfolio) \subseteq DOMAIN prices
GetPnl(portfolio, prices) ==
  portfolio.total_realized_pnl + TotalUnrealizedPnl(portfolio, prices)
=============================================================================
