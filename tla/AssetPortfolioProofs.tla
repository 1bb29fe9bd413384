------------------------ MODULE AssetPortfolioProofs ------------------------
(***************************************************************************)
(* Lemmas about one event and the portfolio of its asset: what apply does  *)
(* to the units, the lots and the money, whether the totals come from      *)
(* memory or from columns that have rounded them.                          *)
(***************************************************************************)
EXTENDS AssetPortfolio, FifoLotsProofs

\* A portfolio, whose total_quantity need not be what its lots hold.
Held(row) ==
  /\ row = [lots               |-> row.lots,
            total_quantity     |-> row.total_quantity,
            total_realized_pnl |-> row.total_realized_pnl]
  /\ row.lots \in Seq(Lot)
  /\ row.total_quantity \in Int
  /\ row.total_realized_pnl \in Int

\* One whose total_quantity is.
Covered(row) == Held(row) /\ row.total_quantity = TotalOf(row.lots)

\* What an event that is admitted does to the units and to the money.
Delta(e) == IF TradeOf[e].side = "buy" THEN TradeOf[e].quantity ELSE -TradeOf[e].quantity
Cash(e)  == IF TradeOf[e].side = "buy"
            THEN -(TradeOf[e].quantity * TradeOf[e].price)
            ELSE TradeOf[e].quantity * TradeOf[e].price

\* The profit that is realized, less the cost of what is still held.
Money(row) == row.total_realized_pnl - CostOf(row.lots)

\* The portfolio of an asset that has seen no event.
LEMMA EmptyIsCovered == Covered(EmptyPortfolio) /\ Money(EmptyPortfolio) = 0
BY Empty DEF Covered, Held, EmptyPortfolio, Money

\* What TradeOfAssumption says of one event, and of what it moves.
LEMMA EventFacts ==
  ASSUME NEW e \in Events
  PROVE  /\ AssetOf(e) \in Assets
         /\ TradeOf[e].side \in {"buy", "sell", "other"}
         /\ TradeOf[e].quantity \in Nat \ {0} /\ TradeOf[e].price \in Nat \ {0}
         /\ TradeOf[e].quantity * TradeOf[e].price \in Nat
         /\ Delta(e) \in Int /\ Cash(e) \in Int
<1>1. TradeOf[e] \in TradeEvent
  BY TradeOfAssumption
<1>2. /\ TradeOf[e].asset \in Assets
      /\ TradeOf[e].side \in {"buy", "sell", "other"}
      /\ TradeOf[e].quantity \in Nat \ {0} /\ TradeOf[e].price \in Nat \ {0}
  BY <1>1 DEF TradeEvent
<1>3. TradeOf[e].quantity * TradeOf[e].price \in Nat
  BY <1>2
<1> QED
  BY <1>2, <1>3 DEF AssetOf, Delta, Cash

\* A buy: one more lot, nothing realized (portfolio.rs apply, add_lot).
LEMMA BuyAddsUp ==
  ASSUME NEW row, Held(row), NEW e \in Events, TradeOf[e].side = "buy"
  PROVE  /\ Held(Applied(row, e)) /\ RealizedOf(row, e) = 0
         /\ Applied(row, e).total_quantity = row.total_quantity + Delta(e)
         /\ TotalOf(Applied(row, e).lots) = TotalOf(row.lots) + Delta(e)
         /\ Applied(row, e).total_realized_pnl = row.total_realized_pnl + RealizedOf(row, e)
         /\ Money(Applied(row, e)) = Money(row) + Cash(e)
<1>1. PICK lot \in Lot : lot = [quantity      |-> TradeOf[e].quantity,
                            cost_per_unit |-> TradeOf[e].price]
  BY EventFacts DEF Lot
<1>2. Applied(row, e) = [lots               |-> Append(row.lots, lot),
                         total_quantity     |-> row.total_quantity + TradeOf[e].quantity,
                         total_realized_pnl |-> row.total_realized_pnl]
  BY <1>1 DEF Applied, Held
<1>3. Append(row.lots, lot) \in Seq(Lot)
  BY DEF Held
<1>4. Held(Applied(row, e))
  BY <1>2, <1>3, EventFacts DEF Held
<1>5. /\ TotalOf(Append(row.lots, lot)) = TotalOf(row.lots) + TradeOf[e].quantity
      /\ CostOf(Append(row.lots, lot)) = CostOf(row.lots) + TradeOf[e].quantity * TradeOf[e].price
      /\ CostOf(row.lots) \in Int
  BY <1>1, TotalOfLots, CostOfLots DEF Held
<1>6. RealizedOf(row, e) = 0
  BY DEF RealizedOf
<1>7. row.total_realized_pnl = row.total_realized_pnl + 0
  BY DEF Held
<1>8. Money(Applied(row, e)) = Money(row) + Cash(e)
  <2>1. PICK a \in Int, b \in Int, c \in Int :
          /\ a = row.total_realized_pnl /\ b = CostOf(row.lots)
          /\ c = TradeOf[e].quantity * TradeOf[e].price
    BY <1>5, EventFacts DEF Held
  <2>2. Money(Applied(row, e)) = a - (b + c) /\ Money(row) = a - b /\ Cash(e) = -c
    BY <1>2, <1>5, <2>1 DEF Money, Cash
  <2> QED
    BY <2>2
<1> QED
  BY <1>2, <1>4, <1>5, <1>6, <1>7, <1>8 DEF Delta

\* A sell that finds its lots (portfolio.rs apply, consume_fifo).
LEMMA SellAddsUp ==
  ASSUME NEW row, Held(row), NEW e \in Events, TradeOf[e].side = "sell", Sold(row, e).left = 0
  PROVE  /\ Held(Applied(row, e)) /\ RealizedOf(row, e) \in Int
         /\ Applied(row, e).total_quantity = row.total_quantity + Delta(e)
         /\ TotalOf(Applied(row, e).lots) = TotalOf(row.lots) + Delta(e)
         /\ Applied(row, e).total_realized_pnl = row.total_realized_pnl + RealizedOf(row, e)
         /\ Money(Applied(row, e)) = Money(row) + Cash(e)
<1>1. PICK q \in Nat \ {0}, price \in Nat \ {0} :
        q = TradeOf[e].quantity /\ price = TradeOf[e].price
  BY EventFacts
<1>2. PICK sale \in Sale : sale = Sold(row, e)
  BY <1>1, ConsumeOneMore DEF Sold, Held
<1>3. sale.left = 0 /\ sale.lots \in Seq(Lot) /\ sale.matches \in Seq(Match)
  BY <1>2 DEF Sale
<1>4. AddsUp(row.lots, q, price, sale)
  BY <1>1, <1>2, SaleAddsUp DEF Sold, Held
<1>5. q - 0 = q
  OBVIOUS
<1>6. /\ TotalOf(sale.lots) = TotalOf(row.lots) - q
      /\ RealizedPnl(sale.matches) = q * price - (CostOf(row.lots) - CostOf(sale.lots))
  BY <1>3, <1>4, <1>5 DEF AddsUp
<1>7. PICK total \in Int, cost \in Int, kept \in Int, made \in Int, value \in Int, was \in Int :
        /\ total = row.total_quantity /\ was = row.total_realized_pnl
        /\ cost = CostOf(row.lots) /\ kept = CostOf(sale.lots)
        /\ made = RealizedPnl(sale.matches) /\ value = q * price
  <2>1. q * price \in Int
    OBVIOUS
  <2>2. CostOf(row.lots) \in Int /\ CostOf(sale.lots) \in Int /\ RealizedPnl(sale.matches) \in Int
    BY <1>3, CostOfLots, PnlOfMatches DEF Held
  <2>3. row.total_quantity \in Int /\ row.total_realized_pnl \in Int
    BY DEF Held
  <2> QED
    BY <2>1, <2>2, <2>3
<1>8. RealizedOf(row, e) = made
  BY <1>2, <1>7 DEF RealizedOf
<1>9. Applied(row, e) = [lots               |-> sale.lots,
                         total_quantity     |-> total - q,
                         total_realized_pnl |-> was + made]
  BY <1>1, <1>2, <1>3, <1>5, <1>7, <1>8 DEF Applied
<1>10. Held(Applied(row, e))
  BY <1>3, <1>9 DEF Held
<1>11. Delta(e) = -q /\ Cash(e) = value
  BY <1>1, <1>7 DEF Delta, Cash
<1>12. Money(Applied(row, e)) = Money(row) + Cash(e)
  <2>1. made = value - (cost - kept)
    BY <1>6, <1>7
  <2>2. Money(Applied(row, e)) = (was + made) - kept /\ Money(row) = was - cost
    BY <1>7, <1>9 DEF Money
  <2> QED
    BY <1>11, <2>1, <2>2
<1>13. total - q = total + -q /\ TotalOf(row.lots) - q = TotalOf(row.lots) + -q
  BY LotSums DEF Held
<1> QED
  BY <1>6, <1>7, <1>8, <1>9, <1>10, <1>11, <1>12, <1>13

\* An event that is admitted and finds its lots.
LEMMA AppliedAddsUp ==
  ASSUME NEW row, Held(row), NEW e \in Events, TradeOf[e].side # "other",
         TradeOf[e].side = "sell" => Sold(row, e).left = 0
  PROVE  /\ Held(Applied(row, e)) /\ RealizedOf(row, e) \in Int
         /\ Applied(row, e).total_quantity = row.total_quantity + Delta(e)
         /\ TotalOf(Applied(row, e).lots) = TotalOf(row.lots) + Delta(e)
         /\ Applied(row, e).total_realized_pnl = row.total_realized_pnl + RealizedOf(row, e)
         /\ Money(Applied(row, e)) = Money(row) + Cash(e)
<1>1. CASE TradeOf[e].side = "buy"
  BY <1>1, BuyAddsUp
<1>2. CASE TradeOf[e].side = "sell"
  BY <1>2, SellAddsUp
<1> QED
  BY <1>1, <1>2, EventFacts

\* If the total is what the lots hold, the balance check of apply is enough: the sell
\* finds its lots (expect("lot queue unexpectedly empty") in consume_fifo).
LEMMA CheckSuffices ==
  ASSUME NEW row, Covered(row), NEW e \in Events, TradeOf[e].side = "sell", ~Rejects(row, e)
  PROVE  Sold(row, e).left = 0
<1>1. PICK q \in Nat \ {0}, price \in Nat \ {0} :
        q = TradeOf[e].quantity /\ price = TradeOf[e].price
  BY EventFacts
<1>2. q <= TotalOf(row.lots)
  <2>1. TotalOf(row.lots) \in Nat
    BY LotSums DEF Covered, Held
  <2> QED
    BY <1>1, <2>1 DEF Covered, Rejects
<1>3. AddsUp(row.lots, q, price, Sold(row, e))
  BY <1>1, SaleAddsUp DEF Sold, Covered, Held
<1> QED
  BY <1>2, <1>3 DEF AddsUp

\* And the total stays what the lots hold.
LEMMA AppliedIsCovered ==
  ASSUME NEW row, Covered(row), NEW e \in Events, ~Rejects(row, e)
  PROVE  /\ Covered(Applied(row, e))
         /\ Applied(row, e).total_quantity = row.total_quantity + Delta(e)
         /\ Applied(row, e).total_realized_pnl = row.total_realized_pnl + RealizedOf(row, e)
         /\ Money(Applied(row, e)) = Money(row) + Cash(e)
<1>1. TradeOf[e].side # "other" /\ Held(row)
  BY DEF Rejects, Covered
<1>2. TradeOf[e].side = "sell" => Sold(row, e).left = 0
  BY CheckSuffices
<1> QED
  BY <1>1, <1>2, AppliedAddsUp DEF Covered
=============================================================================
