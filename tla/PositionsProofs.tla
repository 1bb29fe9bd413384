-------------------------- MODULE PositionsProofs ---------------------------
(***************************************************************************)
(* Lemmas about the portfolio of one ledger-service process as a value:    *)
(* what apply_trade does to the units, the lots and the money, and what    *)
(* the sums over all positions come to.                                    *)
(***************************************************************************)
EXTENDS Positions, FifoLotsProofs

\* What Trade::new lets through.
IsTrade(t) ==
  t.side \in {"buy", "sell"} /\ t.quantity \in Nat \ {0} /\ t.price \in Nat \ {0}

\* A position whose total_quantity is what its lots hold.
SoundPosition(position) ==
  /\ position = [lots |-> position.lots, total_quantity |-> position.total_quantity]
  /\ position.lots \in Seq(Lot)
  /\ position.total_quantity = TotalOf(position.lots)

\* A portfolio of sound positions.
SoundPortfolio(p) ==
  /\ DOMAIN p = {"positions", "total_realized_pnl"}
  /\ p.total_realized_pnl \in Int
  /\ IsFiniteSet(DOMAIN p.positions)
  /\ \A a \in DOMAIN p.positions : SoundPosition(p.positions[a])

\* What a trade that is applied does to the units, to the profit and to the money.
Delta(t)       == IF t.side = "buy" THEN t.quantity ELSE -t.quantity
Cash(t)        == IF t.side = "buy" THEN -(t.quantity * t.price) ELSE t.quantity * t.price
Realized(p, t) == IF t.side = "buy" THEN 0 ELSE RealizedPnl(Sell(p, t).matches)

\* What a position has cost.
PositionCost(p, a) == CostOf(PositionOf(p, a).lots)

\* A position of a sound portfolio, the one of an asset it does not know included.
LEMMA PositionIsSound ==
  ASSUME NEW p, SoundPortfolio(p), NEW a
  PROVE  /\ SoundPosition(PositionOf(p, a))
         /\ PositionOf(p, a).lots \in Seq(Lot)
         /\ PositionOf(p, a).total_quantity \in Nat
         /\ PositionOf(p, a).total_quantity = TotalOf(PositionOf(p, a).lots)
         /\ PositionOf(p, a).total_quantity = 0 => PositionOf(p, a).lots = << >>
         /\ PositionCost(p, a) \in Nat
<1>1. SoundPosition(PositionOf(p, a))
  BY Empty DEF SoundPortfolio, PositionOf, NewPosition, SoundPosition
<1>2. PICK position : position = PositionOf(p, a)
  OBVIOUS
<1>3. /\ TotalOf(position.lots) \in Nat /\ CostOf(position.lots) \in Nat
      /\ TotalOf(position.lots) = 0 <=> position.lots = << >>
  BY <1>1, <1>2, LotSums DEF SoundPosition
<1> QED
  BY <1>1, <1>2, <1>3 DEF SoundPosition, PositionCost

\* What a trade moves are whole numbers.
LEMMA TradeFacts ==
  ASSUME NEW t, IsTrade(t)
  PROVE  t.quantity * t.price \in Nat /\ Delta(t) \in Int /\ Cash(t) \in Int
<1>1. t.quantity * t.price \in Nat
  BY DEF IsTrade
<1> QED
  BY <1>1 DEF IsTrade, Delta, Cash

\* The effect of a trade on the position of its asset.
Moves(p, t, after) ==
  /\ PositionOf(after, t.asset).total_quantity
       = PositionOf(p, t.asset).total_quantity + Delta(t)
  /\ after.total_realized_pnl = p.total_realized_pnl + Realized(p, t)
  /\ Realized(p, t) \in Int
  /\ Realized(p, t) - PositionCost(after, t.asset) = Cash(t) - PositionCost(p, t.asset)

\* Setting one position leaves the others alone.
LEMMA SetPosition ==
  ASSUME NEW p, NEW a, NEW position, NEW after, after.positions = WithPosition(p, a, position)
  PROVE  /\ DOMAIN after.positions = DOMAIN p.positions \union {a}
         /\ PositionOf(after, a) = position
         /\ \A b : b # a => PositionOf(after, b) = PositionOf(p, b)
         /\ \A b \in DOMAIN after.positions : after.positions[b] = PositionOf(after, b)
         /\ \A b \in DOMAIN after.positions :
              after.positions[b] = IF b = a THEN position ELSE p.positions[b]
BY DEF WithPosition, PositionOf

\* A buy (portfolio.rs apply_trade, add_lot).
LEMMA BuyMoves ==
  ASSUME NEW p, SoundPortfolio(p), NEW t, IsTrade(t), t.side = "buy"
  PROVE  LET after == ApplyTrade(p, t)
         IN  /\ DOMAIN after = {"positions", "total_realized_pnl"}
             /\ after.positions = WithPosition(p, t.asset, PositionOf(after, t.asset))
             /\ SoundPosition(PositionOf(after, t.asset))
             /\ Moves(p, t, after)
<1>1. PICK position : position = PositionOf(p, t.asset)
  OBVIOUS
<1>2. PICK lot \in Lot : lot = [quantity |-> t.quantity, cost_per_unit |-> t.price]
  BY DEF IsTrade, Lot
<1>3. PICK next : next = [lots           |-> Append(position.lots, lot),
                          total_quantity |-> position.total_quantity + t.quantity]
  OBVIOUS
<1>4. SoundPosition(position) /\ position.lots \in Seq(Lot)
  BY <1>1, PositionIsSound
<1>5. AddLot(position, t.quantity, t.price) = next
  <2>1. PICK pushed : pushed = PushLot(position, t.quantity, t.price)
    OBVIOUS
  <2>2. pushed = [lots |-> Append(position.lots, lot), total_quantity |-> position.total_quantity]
    BY <1>2, <1>4, <2>1 DEF PushLot, SoundPosition
  <2>3. AddLot(position, t.quantity, t.price)
          = [pushed EXCEPT !.total_quantity = pushed.total_quantity + t.quantity]
    BY <2>1 DEF AddLot
  <2> QED
    BY <1>3, <2>2, <2>3
<1>6. PICK after : after = ApplyTrade(p, t)
  OBVIOUS
<1>7. after = [p EXCEPT !.positions = WithPosition(p, t.asset, next)]
  BY <1>1, <1>5, <1>6 DEF ApplyTrade
<1>8. /\ DOMAIN after = {"positions", "total_realized_pnl"}
      /\ after.positions = WithPosition(p, t.asset, next)
      /\ after.total_realized_pnl = p.total_realized_pnl
  BY <1>7 DEF SoundPortfolio
<1>9. PositionOf(after, t.asset) = next
  BY <1>8, SetPosition
<1>10. PICK cost \in Int, value \in Int :
         cost = CostOf(position.lots) /\ value = t.quantity * t.price
  BY <1>4, CostOfLots, TradeFacts
<1>11. /\ next.lots \in Seq(Lot) /\ TotalOf(next.lots) = TotalOf(position.lots) + t.quantity
       /\ CostOf(next.lots) = cost + value
  BY <1>2, <1>3, <1>4, <1>10, TotalOfLots, CostOfLots
<1>12. SoundPosition(next)
  BY <1>3, <1>4, <1>11 DEF SoundPosition
<1>13. Moves(p, t, after)
  <2>1. Realized(p, t) = 0 /\ Delta(t) = t.quantity /\ Cash(t) = -value
    BY <1>10 DEF Realized, Delta, Cash
  <2>2. PositionCost(after, t.asset) = cost + value /\ PositionCost(p, t.asset) = cost
    BY <1>1, <1>9, <1>10, <1>11 DEF PositionCost
  <2>3. 0 - (cost + value) = -value - cost
    OBVIOUS
  <2>4. p.total_realized_pnl = p.total_realized_pnl + 0
    BY DEF SoundPortfolio
  <2> QED
    BY <1>1, <1>3, <1>8, <1>9, <2>1, <2>2, <2>3, <2>4 DEF Moves
<1> QED
  BY <1>6, <1>8, <1>9, <1>12, <1>13

\* A sell that the balance check lets through finds its lots (consume_fifo).
LEMMA SellFindsLots ==
  ASSUME NEW p, SoundPortfolio(p), NEW t, IsTrade(t), t.side = "sell", ~Refuses(p, t)
  PROVE  /\ Sell(p, t) \in Sale /\ Sell(p, t).left = 0
         /\ AddsUp(PositionOf(p, t.asset).lots, t.quantity, t.price, Sell(p, t))
<1>1. PICK lots \in Seq(Lot), q \in Nat, price \in Nat :
        lots = PositionOf(p, t.asset).lots /\ q = t.quantity /\ price = t.price
  BY PositionIsSound DEF IsTrade
<1>2. q <= TotalOf(lots)
  BY <1>1, PositionIsSound DEF Refuses
<1>3. AddsUp(lots, q, price, Sell(p, t)) /\ Sell(p, t) \in Sale
  BY <1>1, SaleAddsUp, ConsumeOneMore DEF Sell
<1> QED
  BY <1>1, <1>2, <1>3 DEF AddsUp

\* A sell (portfolio.rs apply_trade, consume_fifo).
LEMMA SellMoves ==
  ASSUME NEW p, SoundPortfolio(p), NEW t, IsTrade(t), t.side = "sell", ~Refuses(p, t)
  PROVE  LET after == ApplyTrade(p, t)
         IN  /\ DOMAIN after = {"positions", "total_realized_pnl"}
             /\ after.positions = WithPosition(p, t.asset, PositionOf(after, t.asset))
             /\ SoundPosition(PositionOf(after, t.asset))
             /\ Moves(p, t, after)
<1>1. PICK position : position = PositionOf(p, t.asset)
  OBVIOUS
<1>2. PICK sale \in Sale : sale = Sell(p, t)
  BY SellFindsLots
<1>3. /\ sale.left = 0 /\ sale.lots \in Seq(Lot) /\ sale.matches \in Seq(Match)
      /\ AddsUp(position.lots, t.quantity, t.price, sale)
  BY <1>1, <1>2, SellFindsLots DEF Sale
<1>4. SoundPosition(position) /\ position.lots \in Seq(Lot) /\ position.total_quantity \in Nat
  BY <1>1, PositionIsSound
<1>5. PICK q \in Nat, price \in Nat : q = t.quantity /\ price = t.price
  BY DEF IsTrade
<1>6. PICK after : after = ApplyTrade(p, t)
  OBVIOUS
<1>7. PICK next : next = [lots |-> sale.lots, total_quantity |-> position.total_quantity - q]
  OBVIOUS
<1>8. q - 0 = q
  OBVIOUS
<1>9. after = [positions          |-> WithPosition(p, t.asset, next),
               total_realized_pnl |-> p.total_realized_pnl + RealizedPnl(sale.matches)]
  BY <1>1, <1>2, <1>3, <1>5, <1>6, <1>7, <1>8 DEF ApplyTrade
<1>10. /\ DOMAIN after = {"positions", "total_realized_pnl"}
       /\ after.positions = WithPosition(p, t.asset, next)
       /\ after.total_realized_pnl = p.total_realized_pnl + RealizedPnl(sale.matches)
  BY <1>9
<1>11. PositionOf(after, t.asset) = next
  BY <1>10, SetPosition
<1>12. PICK cost \in Int, kept \in Int, made \in Int, value \in Int :
         /\ cost = CostOf(position.lots) /\ kept = CostOf(sale.lots)
         /\ made = RealizedPnl(sale.matches) /\ value = q * price
  <2>1. q * price \in Int
    OBVIOUS
  <2>2. CostOf(position.lots) \in Int /\ CostOf(sale.lots) \in Int
    BY <1>3, <1>4, CostOfLots
  <2>3. RealizedPnl(sale.matches) \in Int
    BY <1>3, PnlOfMatches
  <2> QED
    BY <2>1, <2>2, <2>3
<1>13. TotalOf(sale.lots) = TotalOf(position.lots) - q /\ made = value - (cost - kept)
  BY <1>3, <1>5, <1>8, <1>12 DEF AddsUp
<1>14. SoundPosition(next)
  BY <1>3, <1>4, <1>7, <1>13 DEF SoundPosition
<1>15. Moves(p, t, after)
  <2>1. Realized(p, t) = made /\ Delta(t) = -q /\ Cash(t) = value
    BY <1>2, <1>5, <1>12 DEF Realized, Delta, Cash
  <2>2. PositionCost(after, t.asset) = kept /\ PositionCost(p, t.asset) = cost
    BY <1>1, <1>7, <1>11, <1>12 DEF PositionCost
  <2>3. made - kept = value - cost
    BY <1>13
  <2>4. position.total_quantity - q = position.total_quantity + -q
    BY <1>4
  <2> QED
    BY <1>1, <1>7, <1>10, <1>11, <1>12, <2>1, <2>2, <2>3, <2>4 DEF Moves
<1> QED
  BY <1>6, <1>10, <1>11, <1>14, <1>15

\* A trade that is applied, and the portfolio after it.
LEMMA ApplyMoves ==
  ASSUME NEW p, SoundPortfolio(p), NEW t, IsTrade(t), ~Refuses(p, t)
  PROVE  LET after == ApplyTrade(p, t)
         IN  /\ SoundPortfolio(after)
             /\ DOMAIN after.positions = DOMAIN p.positions \union {t.asset}
             /\ \A b : b # t.asset => PositionOf(after, b) = PositionOf(p, b)
             /\ Moves(p, t, after)
<1>1. PICK after : after = ApplyTrade(p, t)
  OBVIOUS
<1>2. /\ DOMAIN after = {"positions", "total_realized_pnl"}
      /\ after.positions = WithPosition(p, t.asset, PositionOf(after, t.asset))
      /\ SoundPosition(PositionOf(after, t.asset))
      /\ Moves(p, t, after)
  <2>1. CASE t.side = "buy"
    BY <1>1, <2>1, BuyMoves
  <2>2. CASE t.side = "sell"
    BY <1>1, <2>2, SellMoves
  <2> QED
    BY <2>1, <2>2 DEF IsTrade
<1>3. /\ DOMAIN after.positions = DOMAIN p.positions \union {t.asset}
      /\ \A b : b # t.asset => PositionOf(after, b) = PositionOf(p, b)
      /\ \A b \in DOMAIN after.positions : after.positions[b] = PositionOf(after, b)
  BY <1>2, SetPosition
<1>4. IsFiniteSet(DOMAIN after.positions)
  BY <1>3, FS_AddElement DEF SoundPortfolio
<1>5. after.total_realized_pnl \in Int
  BY <1>2 DEF Moves, SoundPortfolio
<1>6. \A b \in DOMAIN after.positions : SoundPosition(after.positions[b])
  BY <1>2, <1>3, PositionIsSound
<1>7. SoundPortfolio(after)
  BY <1>2, <1>4, <1>5, <1>6 DEF SoundPortfolio
<1> QED
  BY <1>1, <1>2, <1>3, <1>7

-----------------------------------------------------------------------------
(* Sums over the assets. *)

\* What the positions have cost together.
CostWeights(p, S) == [a \in S |-> PositionCost(p, a)]
TotalCost(p, S)   == SumOver(CostWeights(p, S), S)

\* What the positions of some assets have cost, as a sum of weights.
LEMMA CostIsSum ==
  ASSUME NEW p, NEW S
  PROVE  MapThenSumSet(LAMBDA a : CostOf(PositionOf(p, a).lots), S) = TotalCost(p, S)
<1> DEFINE w == CostWeights(p, S)
           TurnA(g) == [s \in SUBSET S |->
                          IF s = {} THEN 0
                          ELSE CostOf(PositionOf(p, CHOOSE x \in s : TRUE).lots)
                                 + g[s \ {CHOOSE x \in s : TRUE}]]
           TurnB(g) == [s \in SUBSET S |->
                          IF s = {} THEN 0
                          ELSE w[CHOOSE x \in s : TRUE] + g[s \ {CHOOSE x \in s : TRUE}]]
<1>1. \A s \in SUBSET S : s # {} => (CHOOSE x \in s : TRUE) \in S
  OBVIOUS
<1>2. \A g : TurnA(g) = TurnB(g)
  BY <1>1 DEF CostWeights, PositionCost
<1>3. MapThenSumSet(LAMBDA a : CostOf(PositionOf(p, a).lots), S) = (CHOOSE g : g = TurnA(g))[S]
  BY DEF MapThenSumSet, MapThenFoldSet
<1>4. TotalCost(p, S) = (CHOOSE g : g = TurnB(g))[S]
  BY DEF TotalCost, SumOver, MapThenSumSet, MapThenFoldSet
<1> HIDE DEF TurnA, TurnB
<1>5. (CHOOSE g : g = TurnA(g)) = (CHOOSE g : g = TurnB(g))
  BY <1>2
<1> QED
  BY <1>3, <1>4, <1>5

\* It is a natural number.
LEMMA CostType ==
  ASSUME NEW p, SoundPortfolio(p), NEW S, IsFiniteSet(S)
  PROVE  TotalCost(p, S) \in Nat /\ \A a \in S : CostWeights(p, S)[a] \in Nat
<1>1. \A a \in S : CostWeights(p, S)[a] \in Nat
  BY PositionIsSound DEF CostWeights
<1> QED
  BY <1>1, SumMonotone DEF TotalCost

\* Assets of which nothing is held have no part in the cost.
LEMMA CostOfOpen ==
  ASSUME NEW p, SoundPortfolio(p), NEW S, IsFiniteSet(S), NEW R \in SUBSET S,
         \A a \in S \ R : PositionOf(p, a).total_quantity = 0
  PROVE  TotalCost(p, S) = TotalCost(p, R)
<1> DEFINE Rest == S \ R
           w == CostWeights(p, S)
<1>1. IsFiniteSet(R) /\ IsFiniteSet(Rest) /\ R \intersect Rest = {} /\ R \union Rest = S
  BY FS_Subset
<1>2. \A a \in R \union Rest : w[a] \in Int
  BY CostType
<1>3. \A a \in Rest : w[a] = 0
  BY PositionIsSound, Empty DEF CostWeights, PositionCost
<1>4. \A a \in R : w[a] \in Int /\ CostWeights(p, R)[a] = w[a]
  BY <1>2 DEF CostWeights
<1> HIDE DEF Rest, w
<1>5. SumOver(w, R \union Rest) = SumOver(w, R) + SumOver(w, Rest) /\ SumOver(w, R) \in Int
  BY <1>1, <1>2, SumUnion
<1>6. SumOver(w, Rest) = 0
  BY <1>1, <1>3, SumZero
<1>7. SumOver(CostWeights(p, R), R) = SumOver(w, R)
  BY <1>1, <1>4, SumSame
<1>8. SumOver(w, S) = SumOver(w, R)
  <2>1. SumOver(w, S) = SumOver(w, R) + SumOver(w, Rest)
    BY <1>1, <1>5
  <2>2. SumOver(w, S) = SumOver(w, R) + 0
    BY <1>6, <2>1
  <2> QED
    BY <1>5, <2>2
<1> QED
  BY <1>7, <1>8 DEF TotalCost, w

\* A trade that is applied changes realized profit less cost by the money it moves.
LEMMA ApplyMoney ==
  ASSUME NEW p, SoundPortfolio(p), NEW t, IsTrade(t), ~Refuses(p, t),
         NEW S, IsFiniteSet(S), t.asset \in S
  PROVE  ApplyTrade(p, t).total_realized_pnl - TotalCost(ApplyTrade(p, t), S)
           = (p.total_realized_pnl - TotalCost(p, S)) + Cash(t)
<1>1. PICK after : after = ApplyTrade(p, t)
  OBVIOUS
<1>2. /\ SoundPortfolio(after) /\ Moves(p, t, after)
      /\ \A b : b # t.asset => PositionOf(after, b) = PositionOf(p, b)
  BY <1>1, ApplyMoves
<1>3. PICK x \in S : x = t.asset
  OBVIOUS
<1>4. /\ CostWeights(after, S)[x] \in Int
      /\ \A y \in S : CostWeights(p, S)[y] \in Int
      /\ \A y \in S \ {x} : CostWeights(after, S)[y] = CostWeights(p, S)[y]
  <2>1. \A y \in S \ {x} : CostWeights(after, S)[y] = CostWeights(p, S)[y]
    BY <1>2, <1>3 DEF CostWeights, PositionCost
  <2> QED
    BY <1>2, <2>1, CostType
<1>5. TotalCost(after, S) = TotalCost(p, S) + (CostWeights(after, S)[x] - CostWeights(p, S)[x])
  BY <1>4, SumChangeOne DEF TotalCost
<1>6. CostWeights(after, S)[x] = PositionCost(after, x) /\ CostWeights(p, S)[x] = PositionCost(p, x)
  BY DEF CostWeights
<1>7. PICK total \in Int, new \in Int, old \in Int, was \in Int, made \in Int, money \in Int :
        /\ total = TotalCost(p, S) /\ new = PositionCost(after, x) /\ old = PositionCost(p, x)
        /\ was = p.total_realized_pnl /\ made = Realized(p, t) /\ money = Cash(t)
  <2>1. TotalCost(p, S) \in Int /\ PositionCost(after, x) \in Int /\ PositionCost(p, x) \in Int
    BY <1>2, CostType, PositionIsSound
  <2>2. p.total_realized_pnl \in Int /\ Realized(p, t) \in Int /\ Cash(t) \in Int
    BY <1>2, TradeFacts DEF SoundPortfolio, Moves
  <2> QED
    BY <2>1, <2>2
<1>8. TotalCost(after, S) = total + (new - old)
  BY <1>5, <1>6, <1>7
<1>9. after.total_realized_pnl = was + made /\ made - new = money - old
  BY <1>2, <1>3, <1>7 DEF Moves
<1>10. (was + made) - (total + (new - old)) = (was - total) + money
  BY <1>9
<1> QED
  BY <1>1, <1>7, <1>8, <1>9, <1>10

-----------------------------------------------------------------------------
(* What the positions are worth. *)

\* What they are worth at given prices.
MarketWeights(p, prices, S) == [a \in S |-> PositionOf(p, a).total_quantity * prices[a]]
MarketValue(p, prices, S)   == SumOver(MarketWeights(p, prices, S), S)

\* The market value of some assets, as a sum of weights.
LEMMA MarketIsSum ==
  ASSUME NEW p, NEW prices, NEW S
  PROVE  MapThenSumSet(LAMBDA a : PositionOf(p, a).total_quantity * prices[a], S)
           = MarketValue(p, prices, S)
<1> DEFINE w == MarketWeights(p, prices, S)
           TurnA(g) == [s \in SUBSET S |->
                          IF s = {} THEN 0
                          ELSE PositionOf(p, CHOOSE x \in s : TRUE).total_quantity
                                 * prices[CHOOSE x \in s : TRUE]
                                 + g[s \ {CHOOSE x \in s : TRUE}]]
           TurnB(g) == [s \in SUBSET S |->
                          IF s = {} THEN 0
                          ELSE w[CHOOSE x \in s : TRUE] + g[s \ {CHOOSE x \in s : TRUE}]]
<1>1. \A s \in SUBSET S : s # {} => (CHOOSE x \in s : TRUE) \in S
  OBVIOUS
<1>2. \A g : TurnA(g) = TurnB(g)
  BY <1>1 DEF MarketWeights
<1>3. MapThenSumSet(LAMBDA a : PositionOf(p, a).total_quantity * prices[a], S)
        = (CHOOSE g : g = TurnA(g))[S]
  BY DEF MapThenSumSet, MapThenFoldSet
<1>4. MarketValue(p, prices, S) = (CHOOSE g : g = TurnB(g))[S]
  BY DEF MarketValue, SumOver, MapThenSumSet, MapThenFoldSet
<1> HIDE DEF TurnA, TurnB
<1>5. (CHOOSE g : g = TurnA(g)) = (CHOOSE g : g = TurnB(g))
  BY <1>2
<1> QED
  BY <1>3, <1>4, <1>5

\* What each open position would gain if it were sold.
ProfitWeights(p, prices) ==
  [a \in OpenAssets(p) |-> UnrealizedPnl(p.positions[a], prices[a])]

\* The unrealized profit, as a sum of weights.
LEMMA ProfitIsSum ==
  ASSUME NEW p, NEW prices
  PROVE  TotalUnrealizedPnl(p, prices) = SumOver(ProfitWeights(p, prices), OpenAssets(p))
<1> DEFINE S == OpenAssets(p)
           w == ProfitWeights(p, prices)
           TurnA(g) == [s \in SUBSET S |->
                          IF s = {} THEN 0
                          ELSE UnrealizedPnl(p.positions[CHOOSE x \in s : TRUE],
                                             prices[CHOOSE x \in s : TRUE])
                                 + g[s \ {CHOOSE x \in s : TRUE}]]
           TurnB(g) == [s \in SUBSET S |->
                          IF s = {} THEN 0
                          ELSE w[CHOOSE x \in s : TRUE] + g[s \ {CHOOSE x \in s : TRUE}]]
<1>1. \A s \in SUBSET S : s # {} => (CHOOSE x \in s : TRUE) \in S
  OBVIOUS
<1>2. \A g : TurnA(g) = TurnB(g)
  BY <1>1 DEF ProfitWeights
<1>3. TotalUnrealizedPnl(p, prices) = (CHOOSE g : g = TurnA(g))[S]
  BY DEF TotalUnrealizedPnl, MapThenSumSet, MapThenFoldSet
<1>4. SumOver(w, S) = (CHOOSE g : g = TurnB(g))[S]
  BY DEF SumOver, MapThenSumSet, MapThenFoldSet
<1> HIDE DEF TurnA, TurnB
<1>5. (CHOOSE g : g = TurnA(g)) = (CHOOSE g : g = TurnB(g))
  BY <1>2
<1> QED
  BY <1>3, <1>4, <1>5

\* The unrealized profit is the market value of what is held less its cost, whichever
\* assets have a price, as long as the open ones do (total_unrealized_pnl).
LEMMA UnrealizedIsValueLessCost ==
  ASSUME NEW p, SoundPortfolio(p), NEW priced, IsFiniteSet(priced), NEW prices,
         \A a \in priced : prices[a] \in Int,
         OpenAssets(p) \subseteq priced
  PROVE  /\ TotalUnrealizedPnl(p, prices)
              = MarketValue(p, prices, priced) - TotalCost(p, DOMAIN p.positions)
         /\ MarketValue(p, prices, priced) \in Int
<1> DEFINE Open == OpenAssets(p)
           Rest == priced \ Open
           v == MarketWeights(p, prices, priced)
<1>1. /\ IsFiniteSet(Open) /\ IsFiniteSet(Rest) /\ Open \intersect Rest = {}
      /\ Open \union Rest = priced /\ Open \subseteq priced /\ Open \subseteq DOMAIN p.positions
  <2>1. IsFiniteSet(Open) /\ IsFiniteSet(Rest)
    BY FS_Subset
  <2> QED
    BY <2>1 DEF OpenAssets
<1>2. \A a : PositionOf(p, a).total_quantity \in Nat
  BY PositionIsSound
<1>3. \A a : a \notin Open => PositionOf(p, a).total_quantity = 0
  BY DEF OpenAssets, PositionOf, NewPosition
<1>4. \A a \in Open : PositionOf(p, a) = p.positions[a]
  BY DEF OpenAssets, PositionOf
<1>5. \A a \in priced : v[a] \in Int /\ (a \in Rest => v[a] = 0)
  <2> SUFFICES ASSUME NEW a \in priced PROVE v[a] \in Int /\ (a \in Rest => v[a] = 0)
    OBVIOUS
  <2>1. PICK n \in Nat, price \in Int : n = PositionOf(p, a).total_quantity /\ price = prices[a]
    BY <1>2
  <2>2. v[a] = n * price /\ n * price \in Int /\ (n = 0 => n * price = 0)
    BY <2>1 DEF MarketWeights
  <2> QED
    BY <1>3, <2>1, <2>2
<1>6. \A a \in Open : CostWeights(p, Open)[a] \in Int
  BY <1>1, CostType
<1>7. \A a \in Open : ProfitWeights(p, prices)[a] = v[a] - CostWeights(p, Open)[a]
  BY <1>1, <1>4 DEF ProfitWeights, MarketWeights, CostWeights, UnrealizedPnl, PositionCost
<1> DEFINE u == ProfitWeights(p, prices)
           c == CostWeights(p, Open)
<1>8. \A a \in Open : u[a] \in Int /\ c[a] \in Int /\ v[a] = u[a] + c[a]
  <2> SUFFICES ASSUME NEW a \in Open PROVE u[a] \in Int /\ c[a] \in Int /\ v[a] = u[a] + c[a]
    OBVIOUS
  <2>1. PICK x \in Int, y \in Int : x = v[a] /\ y = c[a]
    BY <1>1, <1>5, <1>6
  <2>2. u[a] = x - y
    BY <1>7, <2>1
  <2> QED
    BY <2>1, <2>2
<1>9. TotalCost(p, DOMAIN p.positions) = SumOver(c, Open)
  <2>1. \A a \in (DOMAIN p.positions) \ Open : PositionOf(p, a).total_quantity = 0
    BY <1>3
  <2>2. IsFiniteSet(DOMAIN p.positions) /\ Open \in SUBSET (DOMAIN p.positions)
    BY <1>1 DEF SoundPortfolio
  <2>3. TotalCost(p, DOMAIN p.positions) = TotalCost(p, Open)
    BY <2>1, <2>2, CostOfOpen
  <2> QED
    BY <2>3 DEF TotalCost
<1>10. TotalUnrealizedPnl(p, prices) = SumOver(u, Open)
  BY ProfitIsSum
<1> HIDE DEF Open, Rest, u, c, v
<1>11. SumOver(v, Open) = SumOver(u, Open) + SumOver(c, Open)
       /\ SumOver(u, Open) \in Int /\ SumOver(c, Open) \in Int
  <2>1. IsFiniteSet(Open)
    BY <1>1
  <2>2. AddUpTo(v, u, c, Open)
    BY <1>8 DEF AddUpTo
  <2> QED
    BY <2>1, <2>2, SumLinear
<1>12. SumOver(v, Open \union Rest) = SumOver(v, Open) + SumOver(v, Rest)
  BY <1>1, <1>5, SumUnion
<1>13. SumOver(v, Rest) = 0
  BY <1>1, <1>5, SumZero
<1>14. SumOver(v, priced) = SumOver(u, Open) + SumOver(c, Open)
  <2>1. SumOver(v, priced) = SumOver(v, Open) + 0
    BY <1>1, <1>12, <1>13
  <2> QED
    BY <1>11, <2>1
<1> QED
  BY <1>9, <1>10, <1>11, <1>14 DEF MarketValue, v
=============================================================================
