--------------------------- MODULE AssetPortfolio ---------------------------
(***************************************************************************)
(* pnl-consumer/src/domain: the trade events of the topic and the per-     *)
(* asset FIFO portfolio they are applied to, which is also the row of      *)
(* portfolio_state that holds it.                                          *)
(*                                                                         *)
(* A definition whose comment begins with "Slip" is no part of the model:  *)
(* it is a bug that the definition after it does not have, kept to show    *)
(* that a property would notice.                                           *)
(***************************************************************************)
EXTENDS FifoLots

CONSTANTS
  Assets,   \* asset symbols
  Events,   \* event_id values, each of one TradeEvent
  TradeOf   \* what the payload of an event says: asset, side, quantity, price

\* The payload's side is a free string: "other" stands for one that is
\* neither buy nor sell, whatever its case.  Quantity and price are positive
\* because Trade::new of ledger-service lets nothing else through.
TradeEvent == [asset    : Assets,
               side     : {"buy", "sell", "other"},
               quantity : Nat \ {0},
               price    : Nat \ {0}]

ASSUME TradeOfAssumption == \A e \in Events : TradeOf[e] \in TradeEvent

AssetOf(e) == TradeOf[e].asset

\* AssetPortfolio::new, and the row that load_portfolio inserts to lock.
EmptyPortfolio == [lots               |-> << >>,
                   total_quantity     |-> 0,
                   total_realized_pnl |-> 0]

\* What the event takes from the queue if it is a sell.
Sold(portfolio, e) == ConsumeFifo(portfolio.lots, TradeOf[e].quantity, TradeOf[e].price)

\* The realized_pnl of the event's snapshot: the sum over the lots it touched,
\* of which a buy has none.
RealizedOf(portfolio, e) ==
  IF TradeOf[e].side = "sell" THEN RealizedPnl(Sold(portfolio, e).matches) ELSE 0

\* Slip: the whole of a position cannot be sold.
RejectsWhole(portfolio, e) ==
  \/ TradeOf[e].side = "other"
  \/ TradeOf[e].side = "sell" /\ TradeOf[e].quantity >= portfolio.total_quantity

\* apply returns an error: InsufficientBalance or UnknownSide.
Rejects(portfolio, e) ==
  \/ TradeOf[e].side = "other"
  \/ TradeOf[e].side = "sell" /\ TradeOf[e].quantity > portfolio.total_quantity

\* Slip: a sell leaves total_quantity alone.
AppliedQuantityStale(portfolio, e) ==
  IF TradeOf[e].side = "buy"
  THEN [portfolio EXCEPT
          !.lots = Append(@, [quantity      |-> TradeOf[e].quantity,
                              cost_per_unit |-> TradeOf[e].price]),
          !.total_quantity = @ + TradeOf[e].quantity]
  ELSE [portfolio EXCEPT
          !.lots = Sold(portfolio, e).lots,
          !.total_realized_pnl = @ + RealizedOf(portfolio, e)]

\* The portfolio after apply has returned Ok.
Applied(portfolio, e) ==
  IF TradeOf[e].side = "buy"
  THEN [portfolio EXCEPT
          !.lots = Append(@, [quantity      |-> TradeOf[e].quantity,
                              cost_per_unit |-> TradeOf[e].price]),
          !.total_quantity = @ + TradeOf[e].quantity]
  ELSE [lots               |-> Sold(portfolio, e).lots,
        total_quantity     |-> portfolio.total_quantity
                                 - (TradeOf[e].quantity - Sold(portfolio, e).left),
        total_realized_pnl |-> portfolio.total_realized_pnl + RealizedOf(portfolio, e)]
=============================================================================
