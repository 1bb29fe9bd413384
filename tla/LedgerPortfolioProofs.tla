----------------------- MODULE LedgerPortfolioProofs ------------------------
(***************************************************************************)
(* Proofs about LedgerPortfolio: for any assets, quantities and prices,    *)
(* however many trades and however large or small a Decimal.               *)
(*                                                                         *)
(* As long as the lock is not poisoned, the total of each position is what *)
(* its lots hold, and the realized profit less the cost of all lots is the *)
(* cash (Account): what GET /portfolio and GET /pnl report follows from    *)
(* these two.                                                              *)
(***************************************************************************)
EXTENDS LedgerPortfolio, PositionsProofs

\* The memory of the process as the account of what it has bought and sold.
Account ==
  /\ SoundPortfolio(portfolio)
  /\ portfolio.total_realized_pnl - TotalCost(portfolio, DOMAIN portfolio.positions) = cash

\* The inductive invariant.
IInv == TypeOK /\ (~poisoned => Account)

\* A trade that reaches the lock is one that Trade::new has let through.
LEMMA TradesAreTrades ==
  ASSUME NEW t \in Trades
  PROVE  IsTrade(t) /\ t.asset \in Assets
<1>1. /\ t.side \in {"buy", "sell"} /\ t.quantity \in Quantities /\ t.price \in Prices
      /\ t.asset \in Assets
  BY DEF Trades, NotionalFits
<1> QED
  BY <1>1, TradesArePositive DEF IsTrade

\* An empty portfolio is an account of nothing.
LEMMA InitIInv == Init => IInv
<1> SUFFICES ASSUME Init PROVE IInv
  OBVIOUS
<1>1. /\ DOMAIN portfolio = {"positions", "total_realized_pnl"}
      /\ portfolio.positions = << >> /\ portfolio.total_realized_pnl = 0
      /\ cash = 0 /\ booked = 0 /\ poisoned = FALSE
  BY DEF Init, NewPortfolio
<1>2. DOMAIN portfolio.positions = {}
  BY <1>1
<1>3. Fits(0) /\ 0 \in 0 .. MaxTrades
  <2>1. PICK max \in Nat : max = MaxDecimal
    BY MaxDecimalAssumption
  <2>2. -max <= 0 /\ 0 <= max
    OBVIOUS
  <2>3. 0 \in 0 .. MaxTrades
    BY MaxTradesAssumption
  <2> QED
    BY <2>1, <2>2, <2>3 DEF Fits
<1>4. TypeOK
  <2>1. Fits(portfolio.total_realized_pnl) /\ poisoned \in BOOLEAN
    BY <1>1, <1>3
  <2>2. /\ DOMAIN portfolio.positions \subseteq Assets
        /\ \A a \in DOMAIN portfolio.positions : IsPosition(portfolio.positions[a])
    BY <1>2
  <2>3. cash \in Int /\ booked \in 0 .. MaxTrades
    BY <1>1, <1>3
  <2> QED
    BY <1>1, <2>1, <2>2, <2>3 DEF TypeOK
<1>5. SoundPortfolio(portfolio)
  BY <1>1, <1>2, FS_EmptySet DEF SoundPortfolio
<1>6. TotalCost(portfolio, {}) = 0
  BY SumZero, FS_EmptySet DEF TotalCost
<1> QED
  BY <1>1, <1>2, <1>4, <1>5, <1>6 DEF IInv, Account

\* The sums of the loops begin with the start, which fits, and end in the whole.
LEMMA SumsEnds ==
  ASSUME NEW start \in Int, NEW matches \in Seq(Match)
  PROVE  /\ RunningSums(start, matches)[0] = start
         /\ RunningSums(start, matches)[Len(matches)] = start + RealizedPnl(matches)
         /\ DOMAIN RunningSums(start, matches) = 0 .. Len(matches)
<1>1. Len(matches) \in Nat /\ 0 \in 0 .. Len(matches) /\ Len(matches) \in 0 .. Len(matches)
  OBVIOUS
<1>2. SubSeq(matches, 1, 0) = << >> /\ SubSeq(matches, 1, Len(matches)) = matches
  OBVIOUS
<1>3. RunningSums(start, matches)[0] = start + RealizedPnl(<< >>)
  BY <1>1, <1>2 DEF RunningSums
<1>4. start + 0 = start
  OBVIOUS
<1> QED
  BY <1>1, <1>2, <1>3, <1>4, Empty DEF RunningSums

\* The position of an asset has the type, also if there is none yet.
LEMMA PositionType ==
  ASSUME TypeOK, NEW a
  PROVE  IsPosition(PositionOf(portfolio, a))
<1>1. IsPosition(NewPosition)
  BY Empty, MaxDecimalAssumption DEF IsPosition, NewPosition
<1> QED
  BY <1>1 DEF TypeOK, PositionOf

\* A portfolio with one position set has the type if that position has.
LEMMA SetType ==
  ASSUME TypeOK, NEW a \in Assets, NEW position, IsPosition(position), NEW after,
         after.positions = WithPosition(portfolio, a, position)
  PROVE  /\ DOMAIN after.positions \subseteq Assets
         /\ \A b \in DOMAIN after.positions : IsPosition(after.positions[b])
<1>1. /\ DOMAIN after.positions = DOMAIN portfolio.positions \union {a}
      /\ \A b \in DOMAIN after.positions :
           after.positions[b] = IF b = a THEN position ELSE portfolio.positions[b]
  BY DEF WithPosition
<1>2. /\ DOMAIN portfolio.positions \subseteq Assets
      /\ \A b \in DOMAIN portfolio.positions : IsPosition(portfolio.positions[b])
  BY DEF TypeOK
<1> QED
  BY <1>1, <1>2

\* apply_trade to its end: the account moves with the memory.
LEMMA BookStep ==
  ASSUME IInv, NEW t \in Trades, Buy(t) \/ SellOff(t)
  PROVE  IInv'
<1>1. /\ ~poisoned /\ ~Refuses(portfolio, t) /\ SumsFit(portfolio, t) /\ booked < MaxTrades
      /\ portfolio' = ApplyTrade(portfolio, t) /\ booked' = booked + 1 /\ poisoned' = poisoned
  BY DEF Buy, SellOff, Book, Locked
<1>2. TypeOK /\ SoundPortfolio(portfolio) /\ IsTrade(t) /\ t.asset \in Assets
  BY <1>1, TradesAreTrades DEF IInv, Account
<1>3. PICK p : p = portfolio
  OBVIOUS
<1>4. PICK after : after = portfolio'
  OBVIOUS
<1>5. /\ SoundPortfolio(after) /\ Moves(p, t, after)
      /\ DOMAIN after.positions = DOMAIN p.positions \union {t.asset}
      /\ \A b : b # t.asset => PositionOf(after, b) = PositionOf(p, b)
  BY <1>1, <1>2, <1>3, <1>4, ApplyMoves
<1>6. PICK total \in Nat, q \in Nat, was \in Int :
        /\ total = PositionOf(p, t.asset).total_quantity
        /\ q = t.quantity /\ was = p.total_realized_pnl
  BY <1>2, <1>3, PositionIsSound DEF IsTrade, SoundPortfolio
<1>7. PositionOf(after, t.asset).total_quantity \in 0 .. MaxDecimal
  <2>1. total <= MaxDecimal
    BY <1>2, <1>3, <1>6, PositionType DEF IsPosition
  <2>2. CASE t.side = "buy"
    <3>1. total + q <= MaxDecimal
      BY <1>1, <1>3, <1>6, <2>2 DEF SumsFit, Fits
    <3> QED
      BY <1>5, <1>6, <2>2, <3>1, MaxDecimalAssumption DEF Moves, Delta
  <2>3. CASE t.side = "sell"
    <3>1. q <= total
      BY <1>1, <1>3, <1>6, <2>3 DEF Refuses
    <3>2. PositionOf(after, t.asset).total_quantity = total + -q
      BY <1>5, <1>6, <2>3 DEF Moves, Delta
    <3> QED
      BY <2>1, <3>1, <3>2, MaxDecimalAssumption
  <2> QED
    BY <1>2, <2>2, <2>3 DEF IsTrade
<1>8. \A b \in DOMAIN after.positions : IsPosition(after.positions[b])
  <2> SUFFICES ASSUME NEW b \in DOMAIN after.positions PROVE IsPosition(after.positions[b])
    OBVIOUS
  <2>1. after.positions[b] = PositionOf(after, b) /\ SoundPosition(PositionOf(after, b))
    BY <1>5, PositionIsSound DEF PositionOf
  <2>2. PositionOf(after, b).total_quantity \in 0 .. MaxDecimal
    <3>1. CASE b = t.asset
      BY <1>7, <3>1
    <3>2. CASE b # t.asset
      BY <1>2, <1>3, <1>5, <3>2, PositionType DEF IsPosition
    <3> QED
      BY <3>1, <3>2
  <2> QED
    BY <2>1, <2>2 DEF IsPosition, SoundPosition
<1>9. Fits(after.total_realized_pnl)
  <2>1. after.total_realized_pnl = was + Realized(p, t)
    BY <1>5, <1>6 DEF Moves
  <2>2. CASE t.side = "buy"
    <3>1. was + 0 = was /\ Fits(was)
      BY <1>2, <1>3, <1>6 DEF TypeOK
    <3> QED
      BY <2>1, <2>2, <3>1 DEF Realized
  <2>3. CASE t.side = "sell"
    <3>1. PICK matches \in Seq(Match) : matches = Sell(p, t).matches
      BY <1>1, <1>2, <1>3, <2>3, SellFindsLots DEF Sale
    <3>2. AllFit(RunningSums(was, matches))
      BY <1>1, <1>3, <1>6, <2>3, <3>1 DEF SumsFit
    <3>3. Len(matches) \in DOMAIN RunningSums(was, matches)
      BY SumsEnds
    <3>4. Fits(was + RealizedPnl(matches))
      BY <3>2, <3>3, SumsEnds DEF AllFit
    <3> QED
      BY <2>1, <2>3, <3>1, <3>4 DEF Realized
  <2> QED
    BY <1>2, <2>2, <2>3 DEF IsTrade
<1>10. DOMAIN after.positions \subseteq Assets /\ DOMAIN after = {"positions", "total_realized_pnl"}
  BY <1>2, <1>3, <1>5 DEF TypeOK, SoundPortfolio
<1>11. cash' = cash + Cash(t) /\ cash \in Int /\ Cash(t) \in Int
  <2>1. cash \in Int /\ t.quantity * t.price \in Nat /\ Cash(t) \in Int
    BY <1>2, TradeFacts DEF TypeOK
  <2>2. CASE Buy(t)
    BY <2>1, <2>2 DEF Buy, Cash
  <2>3. CASE SellOff(t)
    BY <2>1, <2>3 DEF SellOff, Cash
  <2> QED
    BY <2>1, <2>2, <2>3
<1>12. booked' \in 0 .. MaxTrades
  BY <1>1, <1>2, MaxTradesAssumption DEF TypeOK
<1>13. TypeOK'
  BY <1>1, <1>2, <1>4, <1>8, <1>9, <1>10, <1>11, <1>12 DEF TypeOK
<1>14. after.total_realized_pnl - TotalCost(after, DOMAIN after.positions) = cash'
  <2>1. PICK S : S = DOMAIN after.positions
    OBVIOUS
  <2>2. IsFiniteSet(S) /\ t.asset \in S /\ DOMAIN p.positions \in SUBSET S
    BY <1>5, <2>1 DEF SoundPortfolio
  <2>3. after.total_realized_pnl - TotalCost(after, S)
          = (p.total_realized_pnl - TotalCost(p, S)) + Cash(t)
    BY <1>1, <1>2, <1>3, <1>4, <2>2, ApplyMoney
  <2>4. TotalCost(p, S) = TotalCost(p, DOMAIN p.positions)
    <3>1. \A a \in S \ DOMAIN p.positions : PositionOf(p, a).total_quantity = 0
      BY DEF PositionOf, NewPosition
    <3> QED
      BY <1>2, <1>3, <2>2, <3>1, CostOfOpen
  <2>5. p.total_realized_pnl - TotalCost(p, DOMAIN p.positions) = cash
    BY <1>1, <1>3 DEF IInv, Account
  <2> QED
    BY <1>11, <2>1, <2>3, <2>4, <2>5
<1> QED
  BY <1>1, <1>4, <1>5, <1>13, <1>14 DEF IInv, Account

\* There is a last running sum that the loop has stored before the one that panics.
LEMMA LastSum ==
  ASSUME NEW start \in Int, Fits(start), NEW matches \in Seq(Match), NEW sums,
         sums = RunningSums(start, matches)
  PROVE  \E i \in DOMAIN sums : /\ \A j \in 0 .. i : Fits(sums[j])
                                /\ i + 1 \in DOMAIN sums => ~Fits(sums[i + 1])
<1>1. PICK n \in Nat : n = Len(matches) /\ DOMAIN sums = 0 .. n /\ sums[0] = start
  BY SumsEnds
<1>2. CASE \A j \in 0 .. n : Fits(sums[j])
  BY <1>1, <1>2
<1>3. CASE ~\A j \in 0 .. n : Fits(sums[j])
  <2> DEFINE T == {j \in 0 .. n : ~Fits(sums[j])}
  <2>1. T \in SUBSET Nat
    OBVIOUS
  <2>2. T # {}
    BY <1>3
  <2>3. PICK m \in T : \A j \in T : m <= j
    BY <2>1, <2>2, LeastNumber
  <2>4. m \in 1 .. n /\ ~Fits(sums[m])
    BY <1>1, <2>3
  <2>5. \A j \in 0 .. m - 1 : Fits(sums[j])
    <3> SUFFICES ASSUME NEW j \in 0 .. m - 1, ~Fits(sums[j]) PROVE FALSE
      OBVIOUS
    <3>1. j \in T
      BY <2>4
    <3> QED
      BY <2>3, <2>4, <3>1
  <2>6. m - 1 \in 0 .. n /\ (m - 1) + 1 = m
    BY <2>4
  <2> QED
    BY <1>1, <2>4, <2>5, <2>6
<1> QED
  BY <1>2, <1>3

\* apply_trade that panics in the middle: the torn portfolio is still typed, and nothing
\* is asked of it but that it is poisoned.
LEMMA OverflowStep ==
  ASSUME IInv, NEW t \in Trades, Overflow(t)
  PROVE  IInv'
<1>1. /\ ~poisoned /\ ~Refuses(portfolio, t) /\ booked < MaxTrades /\ portfolio' = Torn(portfolio, t)
      /\ poisoned' = TRUE /\ booked' = booked + 1 /\ cash' = cash
  BY DEF Overflow, Locked
<1>2. TypeOK /\ SoundPortfolio(portfolio) /\ IsTrade(t) /\ t.asset \in Assets
  BY <1>1, TradesAreTrades DEF IInv, Account
<1>3. PICK position : position = PositionOf(portfolio, t.asset) /\ IsPosition(position)
  BY <1>2, PositionType
<1>4. /\ DOMAIN portfolio' = {"positions", "total_realized_pnl"}
      /\ DOMAIN portfolio'.positions \subseteq Assets
      /\ \A a \in DOMAIN portfolio'.positions : IsPosition(portfolio'.positions[a])
      /\ Fits(portfolio'.total_realized_pnl)
  <2>1. CASE t.side = "buy"
    <3>1. PICK torn : torn = PushLot(position, t.quantity, t.price)
      OBVIOUS
    <3>2. IsPosition(torn)
      <4>1. PICK lot \in Lot : lot = [quantity |-> t.quantity, cost_per_unit |-> t.price]
        BY <1>2 DEF IsTrade, Lot
      <4>2. torn = [lots           |-> Append(position.lots, lot),
                    total_quantity |-> position.total_quantity]
        BY <1>3, <3>1, <4>1 DEF PushLot, IsPosition
      <4> QED
        BY <1>3, <4>2 DEF IsPosition
    <3>3. portfolio' = [portfolio EXCEPT !.positions = WithPosition(portfolio, t.asset, torn)]
      BY <1>1, <1>3, <2>1, <3>1 DEF Torn
    <3>4. /\ DOMAIN portfolio' = {"positions", "total_realized_pnl"}
          /\ portfolio'.positions = WithPosition(portfolio, t.asset, torn)
          /\ portfolio'.total_realized_pnl = portfolio.total_realized_pnl
      BY <1>2, <3>3 DEF TypeOK
    <3> QED
      BY <1>2, <3>2, <3>4, SetType DEF TypeOK
  <2>2. CASE t.side = "sell"
    <3>1. PICK sale \in Sale : sale = Sell(portfolio, t) /\ sale.left = 0
      BY <1>1, <1>2, <2>2, SellFindsLots
    <3>2. PICK sums : sums = RunningSums(portfolio.total_realized_pnl, sale.matches)
      OBVIOUS
    <3>3. PICK last : last = CHOOSE i \in DOMAIN sums :
                               /\ \A j \in 0 .. i : Fits(sums[j])
                               /\ i + 1 \in DOMAIN sums => ~Fits(sums[i + 1])
      OBVIOUS
    <3>4. last \in DOMAIN sums /\ \A j \in 0 .. last : Fits(sums[j])
      <4>1. /\ portfolio.total_realized_pnl \in Int /\ Fits(portfolio.total_realized_pnl)
            /\ sale.matches \in Seq(Match)
        BY <1>2 DEF TypeOK, SoundPortfolio, Sale
      <4>2. \E i \in DOMAIN sums : /\ \A j \in 0 .. i : Fits(sums[j])
                                   /\ i + 1 \in DOMAIN sums => ~Fits(sums[i + 1])
        BY <3>2, <4>1, LastSum
      <4> QED
        BY <3>3, <4>2
    <3>5. Fits(sums[last])
      <4>1. last \in Nat
        BY <3>2, <3>4 DEF RunningSums
      <4> QED
        BY <3>4, <4>1
    <3>6. PICK next : next = [lots           |-> sale.lots,
                              total_quantity |-> position.total_quantity - (t.quantity - 0)]
      OBVIOUS
    <3>7. IsPosition(next)
      <4>1. t.quantity \in Nat /\ t.quantity <= position.total_quantity /\ sale.lots \in Seq(Lot)
        BY <1>1, <1>2, <1>3, <2>2 DEF Refuses, IsTrade, Sale, IsPosition
      <4>2. position.total_quantity \in 0 .. MaxDecimal
        BY <1>3 DEF IsPosition
      <4>3. position.total_quantity - (t.quantity - 0) \in 0 .. MaxDecimal
        BY <4>1, <4>2, MaxDecimalAssumption
      <4> QED
        BY <3>6, <4>1, <4>3 DEF IsPosition
    <3>8. portfolio' = [ApplyTrade(portfolio, t) EXCEPT !.total_realized_pnl = sums[last]]
      BY <1>1, <2>2, <3>1, <3>2, <3>3 DEF Torn
    <3>9. ApplyTrade(portfolio, t)
            = [positions          |-> WithPosition(portfolio, t.asset, next),
               total_realized_pnl |-> portfolio.total_realized_pnl + RealizedPnl(sale.matches)]
      BY <1>3, <2>2, <3>1, <3>6 DEF ApplyTrade
    <3>10. /\ DOMAIN portfolio' = {"positions", "total_realized_pnl"}
           /\ portfolio'.positions = WithPosition(portfolio, t.asset, next)
           /\ portfolio'.total_realized_pnl = sums[last]
      BY <3>8, <3>9
    <3> QED
      BY <1>2, <3>5, <3>7, <3>10, SetType
  <2> QED
    BY <1>2, <2>1, <2>2 DEF IsTrade
<1>5. booked' \in 0 .. MaxTrades /\ cash' \in Int /\ poisoned' \in BOOLEAN
  BY <1>1, <1>2, MaxTradesAssumption DEF TypeOK
<1> QED
  BY <1>1, <1>4, <1>5 DEF IInv, TypeOK

\* The inductive invariant holds in every state, those after a panic included
\* (portfolio.rs apply_trade, the lock of create_trade.rs execute).
THEOREM Invariant == Spec => []IInv
<1>1. IInv /\ [Next]_vars => IInv'
  <2> SUFFICES ASSUME IInv, [Next]_vars PROVE IInv'
    OBVIOUS
  <2>1. CASE UNCHANGED vars
    BY <2>1 DEF vars, IInv, TypeOK, Account
  <2> QED
    BY <2>1, BookStep, OverflowStep DEF Next
<1> QED
  BY <1>1, InitIInv, PTL DEF Spec

\* The balance check of a sell, which reads total_quantity only, is enough.
LEMMA CheckIsEnough == IInv => BalanceCheckSuffices
<1> SUFFICES ASSUME IInv, ~poisoned
             PROVE  /\ \A t \in Trades : t.side = "sell" /\ ~Refuses(portfolio, t)
                         => Sell(portfolio, t).left = 0
                    /\ \A a \in DOMAIN portfolio.positions :
                         portfolio.positions[a].total_quantity
                           = TotalOf(portfolio.positions[a].lots)
  BY DEF BalanceCheckSuffices
<1>1. PICK p : p = portfolio
  OBVIOUS
<1>2. SoundPortfolio(p)
  BY <1>1 DEF IInv, Account
<1>3. \A t \in Trades : t.side = "sell" /\ ~Refuses(p, t) => Sell(p, t).left = 0
  BY <1>2, TradesAreTrades, SellFindsLots
<1>4. \A a \in DOMAIN p.positions : p.positions[a].total_quantity = TotalOf(p.positions[a].lots)
  BY <1>2 DEF SoundPortfolio, SoundPosition
<1> QED
  BY <1>1, <1>3, <1>4

\* What GET /pnl reports is cash plus the value of what is held.
LEMMA ReportIsCashPlusHoldings == IInv => PnlIsCashPlusHoldings
<1> SUFFICES ASSUME IInv, ~poisoned, NEW priced \in SUBSET Assets,
                    NEW prices \in [priced -> MarketPrices],
                    IsFiniteSet(priced), CanPrice(portfolio, prices)
             PROVE  GetPnl(portfolio, prices)
                      = cash + MapThenSumSet(LAMBDA a : PositionOf(portfolio, a).total_quantity
                                                          * prices[a], priced)
  BY DEF PnlIsCashPlusHoldings
<1> DEFINE p == portfolio
<1>2. SoundPortfolio(p) /\ p.total_realized_pnl - TotalCost(p, DOMAIN p.positions) = cash
  BY DEF IInv, Account
<1>3. \A a \in priced : prices[a] \in Int
  BY MarketPricesAreNumbers
<1>4. OpenAssets(p) \subseteq priced
  BY DEF CanPrice
<1>5. PICK value \in Int : value = MarketValue(p, prices, priced)
  BY <1>2, <1>3, <1>4, UnrealizedIsValueLessCost
<1>6. PICK cost \in Int : cost = TotalCost(p, DOMAIN p.positions)
  BY <1>2, CostType DEF SoundPortfolio
<1>7. PICK was \in Int : was = p.total_realized_pnl
  BY <1>2 DEF SoundPortfolio
<1>8. TotalUnrealizedPnl(p, prices) = value - cost
  BY <1>2, <1>3, <1>4, <1>5, <1>6, UnrealizedIsValueLessCost
<1>9. MapThenSumSet(LAMBDA a : PositionOf(p, a).total_quantity * prices[a], priced) = value
  BY <1>5, MarketIsSum
<1>10. GetPnl(p, prices) = was + (value - cost) /\ was - cost = cash
  BY <1>2, <1>6, <1>7, <1>8 DEF GetPnl
<1>11. was + (value - cost) = (was - cost) + value
  OBVIOUS
<1>12. GetPnl(p, prices) = cash + value
  BY <1>10, <1>11
<1> QED
  BY <1>9, <1>12

\* Selling a whole position at a price realizes what it is marked to at that price.
LEMMA MarkedAsSold ==
  ASSUME NEW position, SoundPosition(position), NEW price \in Nat
  PROVE  /\ UnrealizedPnl(position, price)
              = RealizedPnl(ConsumeFifo(position.lots, position.total_quantity, price).matches)
         /\ position.total_quantity = 0
              => position.lots = << >> /\ UnrealizedPnl(position, price) = 0
         /\ UnrealizedPnl(position, price) < 0
              <=> price * position.total_quantity < CostOf(position.lots)
<1>1. PICK lots \in Seq(Lot), q \in Nat, cost \in Nat :
        /\ lots = position.lots /\ q = position.total_quantity
        /\ q = TotalOf(lots) /\ cost = CostOf(lots)
  BY LotSums DEF SoundPosition
<1>2. PICK sale \in Sale : sale = ConsumeFifo(lots, q, price)
  BY ConsumeOneMore
<1>3. AddsUp(lots, q, price, sale) /\ sale.lots \in Seq(Lot)
  BY <1>2, SaleAddsUp DEF Sale
<1>4. sale.left = 0
  BY <1>1, <1>3 DEF AddsUp
<1>5. TotalOf(sale.lots) = 0
  <2>1. TotalOf(sale.lots) = q - (q - 0)
    BY <1>1, <1>3, <1>4 DEF AddsUp
  <2> QED
    BY <2>1
<1>6. CostOf(sale.lots) = 0
  BY <1>3, <1>5, LotSums, Empty
<1>7. PICK value \in Int : value = q * price /\ value = price * q
  OBVIOUS
<1>8. RealizedPnl(sale.matches) = value - cost
  <2>1. RealizedPnl(sale.matches) = (q - 0) * price - (cost - 0)
    BY <1>1, <1>3, <1>4, <1>6 DEF AddsUp
  <2>2. q - 0 = q /\ cost - 0 = cost
    OBVIOUS
  <2> QED
    BY <1>7, <2>1, <2>2
<1>9. UnrealizedPnl(position, price) = value - cost
  BY <1>1, <1>7 DEF UnrealizedPnl
<1>10. q = 0 => lots = << >> /\ value - cost = 0
  <2> SUFFICES ASSUME q = 0 PROVE lots = << >> /\ value - cost = 0
    OBVIOUS
  <2>1. lots = << >> /\ cost = 0
    BY <1>1, LotSums, Empty
  <2>2. value = 0
    BY <1>7
  <2> QED
    BY <2>1, <2>2
<1>11. value - cost < 0 <=> value < cost
  OBVIOUS
<1> QED
  BY <1>1, <1>2, <1>7, <1>8, <1>9, <1>10, <1>11

\* GET /portfolio and GET /pnl agree with what selling would realize.
LEMMA MarkedToMarket == IInv => MarkToMarket
<1> SUFFICES ASSUME IInv, ~poisoned
             PROVE  LET shown == GetPortfolio(portfolio)
                    IN  /\ DOMAIN shown = OpenAssets(portfolio)
                        /\ \A a \in DOMAIN portfolio.positions : \A price \in Prices :
                             LET position == portfolio.positions[a]
                                 profit   == UnrealizedPnl(position, price)
                                 sale     == ConsumeFifo(position.lots,
                                                         position.total_quantity, price)
                             IN  /\ RealizedPnl(sale.matches) = profit
                                 /\ IF a \in DOMAIN shown
                                    THEN LET average == shown[a].average_cost
                                         IN  profit < 0 <=> price * average[2] < average[1]
                                    ELSE position.lots = << >> /\ profit = 0
  BY DEF MarkToMarket
<1>1. PICK p : p = portfolio
  OBVIOUS
<1>2. SoundPortfolio(p)
  BY <1>1 DEF IInv, Account
<1>3. PICK shown : shown = GetPortfolio(p)
  OBVIOUS
<1>4. \A a \in DOMAIN p.positions :
        /\ SoundPosition(p.positions[a])
        /\ p.positions[a].total_quantity \in Nat
  BY <1>2, LotSums DEF SoundPortfolio, SoundPosition
<1>5. DOMAIN shown = OpenAssets(p)
  BY <1>3, <1>4 DEF GetPortfolio, OpenAssets
<1>6. ASSUME NEW a \in DOMAIN p.positions, NEW price \in Prices
      PROVE  LET position == p.positions[a]
                 profit   == UnrealizedPnl(position, price)
                 sale     == ConsumeFifo(position.lots, position.total_quantity, price)
             IN  /\ RealizedPnl(sale.matches) = profit
                 /\ IF a \in DOMAIN shown
                    THEN LET average == shown[a].average_cost
                         IN  profit < 0 <=> price * average[2] < average[1]
                    ELSE position.lots = << >> /\ profit = 0
  <2>1. price \in Nat
    BY TradesArePositive
  <2>2. PICK position : position = p.positions[a]
    OBVIOUS
  <2>3. SoundPosition(position)
    BY <1>4, <2>2
  <2>4. CASE a \in DOMAIN shown
    <3>1. shown[a].average_cost = AverageCost(position) /\ position.total_quantity # 0
      BY <1>3, <1>5, <2>2, <2>4 DEF GetPortfolio, OpenAssets
    <3>2. AverageCost(position) = <<CostOf(position.lots), position.total_quantity>>
      BY <3>1 DEF AverageCost
    <3> QED
      BY <2>1, <2>2, <2>3, <2>4, <3>1, <3>2, MarkedAsSold
  <2>5. CASE a \notin DOMAIN shown
    <3>1. position.total_quantity = 0
      BY <1>5, <2>2, <2>5 DEF OpenAssets
    <3> QED
      BY <2>1, <2>2, <2>3, <2>5, <3>1, MarkedAsSold
  <2> QED
    BY <2>4, <2>5
<1> QED
  BY <1>1, <1>3, <1>5, <1>6

-----------------------------------------------------------------------------
(* First in, first out: the lots as a compression of a queue of units. *)

\* The units of a lot.
Block(n, c) == [i \in 1 .. n |-> c]

\* A block of n units, one by one.
LEMMA BlockSeq ==
  ASSUME NEW n \in Nat, NEW c \in Nat
  PROVE  /\ Block(n, c) \in Seq(Nat) /\ Len(Block(n, c)) = n
         /\ \A i \in 1 .. n : Block(n, c)[i] = c
         /\ n = 0 => Block(n, c) = << >>
<1>1. Block(n, c) \in [1 .. n -> Nat]
  BY DEF Block
<1>2. Block(n, c) \in Seq(Nat)
  BY <1>1, SeqDef
<1>3. DOMAIN Block(n, c) = 1 .. n
  BY <1>1
<1>4. Len(Block(n, c)) = n
  BY <1>2, <1>3, LenProperties
<1> QED
  BY <1>2, <1>4, EmptySeq DEF Block

\* t is s with n units at c behind it.
Extends(t, s, n, c) ==
  /\ t \in Seq(Nat) /\ Len(s) \in Nat /\ Len(t) = Len(s) + n
  /\ \A i \in 1 .. Len(s) + n : t[i] = IF i <= Len(s) THEN s[i] ELSE c

\* A queue of units with a block behind it.
LEMMA BlockBehind ==
  ASSUME NEW s \in Seq(Nat), NEW n \in Nat, NEW c \in Nat
  PROVE  Extends(s \o Block(n, c), s, n, c)
<1>1. PICK block \in Seq(Nat) :
        block = Block(n, c) /\ Len(block) = n /\ \A i \in 1 .. n : block[i] = c
  BY BlockSeq
<1>2. PICK m \in Nat : m = Len(s)
  BY LenProperties
<1>3. /\ s \o block \in Seq(Nat) /\ Len(s \o block) = m + n
      /\ \A i \in 1 .. m + n : (s \o block)[i] = IF i <= m THEN s[i] ELSE block[i - m]
  <2>1. block \in Seq(Nat)
    BY <1>1
  <2>2. /\ s \o block \in Seq(Nat) /\ Len(s \o block) = Len(s) + Len(block)
        /\ \A i \in 1 .. Len(s) + Len(block) :
             (s \o block)[i] = IF i <= Len(s) THEN s[i] ELSE block[i - Len(s)]
    BY <2>1, ConcatProperties
  <2> QED
    BY <1>1, <1>2, <2>2
<1>4. \A i \in 1 .. m + n : i <= m \/ i - m \in 1 .. n
  OBVIOUS
<1>5. \A i \in 1 .. m + n : (s \o block)[i] = IF i <= m THEN s[i] ELSE c
  BY <1>1, <1>3, <1>4
<1> QED
  BY <1>1, <1>2, <1>3, <1>5 DEF Extends

\* A block with one unit more.
LEMMA BlockOneMore ==
  ASSUME NEW n \in Nat, NEW c \in Nat, NEW s \in Seq(Nat)
  PROVE  s \o Block(n + 1, c) = Append(s \o Block(n, c), c)
<1>1. PICK k \in Nat : k = n + 1
  OBVIOUS
<1>2. PICK long, short :
        /\ long = s \o Block(k, c) /\ Extends(long, s, k, c)
        /\ short = s \o Block(n, c) /\ Extends(short, s, n, c)
  BY BlockBehind
<1>3. PICK m \in Nat :
        /\ m = Len(s) /\ long \in Seq(Nat) /\ short \in Seq(Nat)
        /\ Len(long) = m + k /\ Len(short) = m + n
        /\ \A i \in 1 .. m + k : long[i] = IF i <= m THEN s[i] ELSE c
        /\ \A i \in 1 .. m + n : short[i] = IF i <= m THEN s[i] ELSE c
  BY <1>2 DEF Extends
<1>4. PICK b \in Seq(Nat) :
        /\ b = Append(short, c) /\ Len(b) = m + n + 1 /\ b[m + n + 1] = c
        /\ \A i \in 1 .. m + n : b[i] = short[i]
  <2>1. /\ Append(short, c) \in Seq(Nat) /\ Len(Append(short, c)) = Len(short) + 1
        /\ \A i \in 1 .. Len(short) : Append(short, c)[i] = short[i]
        /\ Append(short, c)[Len(short) + 1] = c
    <3>1. short \in Seq(Nat) /\ c \in Nat
      BY <1>3
    <3> QED
      BY <3>1, AppendProperties
  <2> QED
    BY <1>3, <2>1
<1>5. ASSUME NEW i \in 1 .. m + k PROVE long[i] = b[i]
  <2>1. CASE i = m + n + 1
    <3>1. ~(i <= m)
      BY <2>1
    <3> QED
      BY <1>3, <1>4, <2>1, <3>1
  <2>2. CASE i # m + n + 1
    <3>1. i \in 1 .. m + n
      BY <1>1, <2>2
    <3> QED
      BY <1>3, <1>4, <3>1
  <2> QED
    BY <2>1, <2>2
<1>6. Len(long) = Len(b) /\ \A i \in 1 .. Len(long) : long[i] = b[i]
  BY <1>1, <1>3, <1>4, <1>5
<1>7. long = b
  <2>1. long \in Seq(Nat) /\ b \in Seq(Nat)
    BY <1>3
  <2> QED
    BY <1>6, <2>1, SeqEqual
<1> QED
  BY <1>1, <1>2, <1>4, <1>7

\* What a sale of some units realizes (the sum in UnitQueue).
Gain(price, s) == FoldLeft(LAMBDA sum, cost : sum + (price - cost), 0, s)

\* It is the sum of a sequence of integers.
LEMMA GainIsSigma ==
  ASSUME NEW n \in Nat, NEW s, DOMAIN s = 1 .. n, NEW price
  PROVE  Gain(price, s) = Sigma([i \in 1 .. n |-> price - s[i]])
<1> DEFINE w == [i \in 1 .. n |-> price - s[i]]
           TurnA(g) == [d \in SUBSET DOMAIN s |->
                          IF d = {} THEN 0 ELSE g[d \ {Max(d)}] + (price - s[Max(d)])]
           TurnB(g) == [d \in SUBSET DOMAIN w |->
                          IF d = {} THEN 0 ELSE g[d \ {Max(d)}] + w[Max(d)]]
<1>1. \A d \in SUBSET (1 .. n) : d # {} => Max(d) \in 1 .. n
  BY MaxUpTo
<1>2. \A g : TurnA(g) = TurnB(g)
  BY <1>1
<1>3. Gain(price, s) = (CHOOSE g : g = TurnA(g))[DOMAIN s]
  BY DEF Gain, FoldLeft, MapThenFoldSet
<1>4. Sigma(w) = (CHOOSE g : g = TurnB(g))[DOMAIN w]
  BY DEF Sigma, FoldLeft, MapThenFoldSet
<1>5. DOMAIN s = DOMAIN w
  OBVIOUS
<1> HIDE DEF TurnA, TurnB
<1>6. (CHOOSE g : g = TurnA(g)) = (CHOOSE g : g = TurnB(g))
  BY <1>2
<1> QED
  BY <1>3, <1>4, <1>5, <1>6

\* What is realized with one unit more.
LEMMA GainOneMore ==
  ASSUME NEW s \in Seq(Nat), NEW price \in Nat
  PROVE  /\ Gain(price, s) \in Int
         /\ s = << >> => Gain(price, s) = 0
         /\ \A c \in Nat : Gain(price, Append(s, c)) = Gain(price, s) + (price - c)
<1> DEFINE n == Len(s)
           v == [i \in 1 .. n |-> price - s[i]]
<1>1. n \in Nat /\ DOMAIN s = 1 .. n /\ \A i \in 1 .. n : s[i] \in Nat
  OBVIOUS
<1>2. v \in [1 .. n -> Int]
  BY <1>1
<1>3. Gain(price, s) = Sigma(v)
  BY <1>1, GainIsSigma
<1>4. Gain(price, s) \in Int /\ (s = << >> => Gain(price, s) = 0)
  <2>1. s = << >> => n = 0
    OBVIOUS
  <2> HIDE DEF v, n
  <2> QED
    BY <1>1, <1>2, <1>3, <2>1, SigmaFacts
<1>5. ASSUME NEW c \in Nat
      PROVE  Gain(price, Append(s, c)) = Gain(price, s) + (price - c)
  <2> DEFINE more == Append(s, c)
             w == [i \in 1 .. n + 1 |-> price - more[i]]
  <2>1. /\ DOMAIN more = 1 .. n + 1 /\ more[n + 1] = c
        /\ \A i \in 1 .. n : more[i] = s[i]
        /\ \A i \in 1 .. n + 1 : more[i] \in Nat
    BY <1>1
  <2>2. n + 1 \in Nat /\ n + 1 \in 1 .. n + 1 /\ \A i \in 1 .. n : i \in 1 .. n + 1
    BY <1>1
  <2> HIDE DEF n, more
  <2>3. w \in [1 .. n + 1 -> Int]
    BY <2>1
  <2>4. \A i \in 1 .. n : v[i] = w[i]
    BY <2>1, <2>2
  <2>5. w[n + 1] = price - c
    BY <2>1, <2>2
  <2>6. Gain(price, more) = Sigma(w)
    BY <2>1, <2>2, GainIsSigma
  <2> HIDE DEF v, w
  <2>7. Sigma(w) = Sigma(v) + w[n + 1]
    BY <1>1, <1>2, <2>3, <2>4, SigmaOneMore
  <2> QED
    BY <1>3, <2>5, <2>6, <2>7 DEF more
<1> QED
  BY <1>4, <1>5

\* What is realized with a block of units more.
BlockGain(price, s, n, c) ==
  Gain(price, s \o Block(n, c)) = Gain(price, s) + (n * price - n * c)

\* What the units of a block gain, by induction over their number.
LEMMA GainBlock ==
  ASSUME NEW s \in Seq(Nat), NEW price \in Nat, NEW n \in Nat, NEW c \in Nat
  PROVE  BlockGain(price, s, n, c)
<1> DEFINE T == {k \in Nat : Gain(price, s \o Block(k, c))
                               = Gain(price, s) + (k * price - k * c)}
<1>1. PICK gain \in Int : gain = Gain(price, s)
  BY GainOneMore
<1>2. 0 \in T
  <2>1. s \o Block(0, c) = s
    BY BlockSeq, ConcatEmptySeq
  <2>2. gain = gain + (0 * price - 0 * c)
    OBVIOUS
  <2> QED
    BY <1>1, <2>1, <2>2
<1>3. ASSUME NEW k \in Nat, k \in T PROVE k + 1 \in T
  <2>1. PICK t \in Seq(Nat) : t = s \o Block(k, c)
    BY BlockBehind DEF Extends
  <2>2. Gain(price, s \o Block(k + 1, c)) = Gain(price, s \o Block(k, c)) + (price - c)
    <3>1. s \o Block(k + 1, c) = Append(t, c)
      BY <2>1, BlockOneMore
    <3>2. Gain(price, Append(t, c)) = Gain(price, t) + (price - c)
      BY GainOneMore
    <3> QED
      BY <2>1, <3>1, <3>2
  <2>3. PICK x \in Int, y \in Int : x = k * price /\ y = k * c
    OBVIOUS
  <2>4. (k + 1) * price = x + price /\ (k + 1) * c = y + c
    <3>1. (k + 1) * price = k * price + 1 * price /\ (k + 1) * c = k * c + 1 * c
      BY Distributes
    <3> QED
      BY <2>3, <3>1
  <2>5. Gain(price, s \o Block(k, c)) = gain + (x - y)
    BY <1>1, <1>3, <2>3
  <2>6. (gain + (x - y)) + (price - c) = gain + ((x + price) - (y + c))
    OBVIOUS
  <2>7. Gain(price, s \o Block(k + 1, c)) = gain + ((k + 1) * price - (k + 1) * c)
    BY <2>2, <2>4, <2>5, <2>6
  <2> QED
    BY <1>1, <2>7
<1>4. n \in T
  <2> HIDE DEF T
  <2> QED
    BY <1>2, <1>3, AllNaturals
<1> QED
  BY <1>4 DEF BlockGain

\* t is n elements of s, after the first lo.
IsSlice(t, s, lo, n) == t \in Seq(Nat) /\ Len(t) = n /\ \A i \in 1 .. n : t[i] = s[lo + i]

\* What SubSeq returns.
LEMMA Slice ==
  ASSUME NEW s \in Seq(Nat), NEW m \in Int, NEW lo \in Nat, NEW hi \in Nat, NEW n \in Nat,
         m = lo + 1, hi = lo + n, hi <= Len(s)
  PROVE  IsSlice(SubSeq(s, m, hi), s, lo, n)
<1>2. \A i \in m .. hi : s[i] \in Nat
  BY ElementOfSeq
<1>3. /\ SubSeq(s, m, hi) \in Seq(Nat)
      /\ Len(SubSeq(s, m, hi)) = IF m <= hi THEN hi - m + 1 ELSE 0
      /\ \A i \in 1 .. hi - m + 1 : SubSeq(s, m, hi)[i] = s[m + i - 1]
  BY <1>2, SubSeqProperties
<1>4. hi - m + 1 = n /\ \A i \in Int : m + i - 1 = lo + i
  OBVIOUS
<1>5. Len(SubSeq(s, m, hi)) = n
  BY <1>3
<1>6. \A i \in 1 .. n : SubSeq(s, m, hi)[i] = s[lo + i]
  BY <1>3, <1>4
<1> QED
  BY <1>3, <1>5, <1>6 DEF IsSlice

\* The oldest units of a queue, and what SubSeq returns for them.
Oldest(s, n)     == SubSeq(s, 1, n)
IsFront(t, s, n) == t \in Seq(Nat) /\ Len(t) = n /\ \A i \in 1 .. n : t[i] = s[i]

\* Oldest takes from the front, and leaves the rest.
LEMMA OldestFront ==
  ASSUME NEW s \in Seq(Nat), NEW n \in Nat, NEW l \in Nat, Len(s) = l, n <= l
  PROVE  IsFront(Oldest(s, n), s, n)
<1>1. PICK m \in Int : m = 1
  OBVIOUS
<1>2. \A i \in m .. n : s[i] \in Nat
  BY <1>1, ElementOfSeq
<1>3. /\ SubSeq(s, m, n) \in Seq(Nat)
      /\ Len(SubSeq(s, m, n)) = IF m <= n THEN n - m + 1 ELSE 0
      /\ \A i \in 1 .. n - m + 1 : SubSeq(s, m, n)[i] = s[m + i - 1]
  BY <1>2, SubSeqProperties
<1>4. n - m + 1 = n /\ \A i \in Int : m + i - 1 = i
  BY <1>1
<1>5. Len(SubSeq(s, m, n)) = n
  BY <1>1, <1>3
<1>6. \A i \in 1 .. n : SubSeq(s, m, n)[i] = s[i]
  BY <1>3, <1>4
<1>7. Oldest(s, n) = SubSeq(s, m, n)
  BY <1>1 DEF Oldest
<1> QED
  BY <1>3, <1>5, <1>6, <1>7 DEF IsFront

\* The queue of units once the oldest n are gone.
Later(s, n) == SubSeq(s, n + 1, Len(s))

\* n units are part of the queue; the k first units of a block of m come after the queue,
\* so that n units are taken, and r of the block are left.
Within(s, n)          == n <= Len(s)
Beyond(s, m, k, n, r) == k <= m /\ n = Len(s) + k /\ r = m - k

\* What taking n units from t leaves, where t is s with the block behind it: none of the
\* block is taken, or all of s and a part of the block.
TookBefore(t, s, m, c, n) ==
  Oldest(t, n) = Oldest(s, n) /\ Later(t, n) = Later(s, n) \o Block(m, c)
TookInto(t, s, c, k, n, r) ==
  Oldest(t, n) = s \o Block(k, c) /\ Later(t, n) = Block(r, c)

\* Taking units from a queue that a block stands behind: they come from the queue itself.
LEMMA TakeBefore ==
  ASSUME NEW s \in Seq(Nat), NEW m \in Nat, NEW c \in Nat, NEW t, Extends(t, s, m, c),
         NEW n \in Nat, Within(s, n)
  PROVE  TookBefore(t, s, m, c, n)
<1>1. PICK l \in Nat : /\ l = Len(s) /\ t \in Seq(Nat) /\ Len(t) = l + m /\ n <= l
                       /\ \A i \in 1 .. l + m : t[i] = IF i <= l THEN s[i] ELSE c
  BY DEF Extends, Within
<1>2. Oldest(t, n) = Oldest(s, n)
  <2>1. PICK a, b : /\ a = Oldest(t, n) /\ IsFront(a, t, n)
                    /\ b = Oldest(s, n) /\ IsFront(b, s, n)
    <3>1. n <= l + m /\ l + m \in Nat
      BY <1>1
    <3>2. IsFront(Oldest(t, n), t, n)
      BY <1>1, <3>1, OldestFront
    <3>3. IsFront(Oldest(s, n), s, n)
      BY <1>1, OldestFront
    <3> QED
      BY <3>2, <3>3
  <2>2. a \in Seq(Nat) /\ b \in Seq(Nat) /\ Len(a) = n /\ Len(b) = n
    BY <2>1 DEF IsFront
  <2>3. ASSUME NEW i \in 1 .. n PROVE a[i] = b[i]
    <3>1. a[i] = t[i] /\ b[i] = s[i]
      BY <2>1 DEF IsFront
    <3> QED
      BY <1>1, <3>1
  <2>4. a = b
    BY <2>2, <2>3, SeqEqual
  <2> QED
    BY <2>1, <2>4
<1>3. Later(t, n) = Later(s, n) \o Block(m, c)
  <2>0. PICK first \in Int, all \in Nat, rest \in Nat, k \in Nat :
          /\ first = n + 1 /\ all = l + m /\ rest = l - n /\ k = all - n
          /\ l = n + rest /\ all = n + k /\ k = rest + m
    BY <1>1
  <2>1. PICK a, b : /\ a = SubSeq(t, first, all) /\ IsSlice(a, t, n, k)
                    /\ b = SubSeq(s, first, l) /\ IsSlice(b, s, n, rest)
    <3>1. IsSlice(SubSeq(t, first, all), t, n, k)
      BY <1>1, <2>0, Slice
    <3>2. IsSlice(SubSeq(s, first, l), s, n, rest)
      BY <1>1, <2>0, Slice
    <3> QED
      BY <3>1, <3>2
  <2>2. PICK d : d = b \o Block(m, c) /\ Extends(d, b, m, c)
    <3>1. b \in Seq(Nat)
      BY <2>1 DEF IsSlice
    <3> QED
      BY <3>1, BlockBehind
  <2>4. a \in Seq(Nat) /\ d \in Seq(Nat) /\ Len(a) = k /\ Len(d) = k
    BY <2>0, <2>1, <2>2 DEF IsSlice, Extends
  <2>5. ASSUME NEW i \in 1 .. k PROVE a[i] = d[i]
    <3>1. a[i] = t[n + i]
      BY <2>1 DEF IsSlice
    <3>2. n + i \in 1 .. l + m
      BY <1>1, <2>0
    <3>3. t[n + i] = IF n + i <= l THEN s[n + i] ELSE c
      BY <1>1, <3>2
    <3>4. d[i] = IF i <= rest THEN b[i] ELSE c
      <4>1. Len(b) = rest
        BY <2>1 DEF IsSlice
      <4>2. \A j \in 1 .. rest + m : d[j] = IF j <= rest THEN b[j] ELSE c
        BY <2>2, <4>1 DEF Extends
      <4> QED
        BY <2>0, <4>2
    <3>5. i <= rest => b[i] = s[n + i]
      <4>1. \A j \in 1 .. rest : b[j] = s[n + j]
        BY <2>1 DEF IsSlice
      <4> QED
        BY <4>1
    <3>6. i <= rest <=> n + i <= l
      BY <2>0
    <3> QED
      BY <3>1, <3>3, <3>4, <3>5, <3>6
  <2>6. a = d
    BY <2>4, <2>5, SeqEqual
  <2> QED
    BY <1>1, <2>0, <2>1, <2>2, <2>6 DEF Later
<1> QED
  BY <1>2, <1>3 DEF TookBefore

\* Taking units from a queue that a block stands behind: the whole queue and part of the block.
LEMMA TakeInto ==
  ASSUME NEW s \in Seq(Nat), NEW m \in Nat, NEW c \in Nat, NEW t, Extends(t, s, m, c),
         NEW k \in Nat, NEW n \in Nat, NEW r \in Nat, Beyond(s, m, k, n, r)
  PROVE  TookInto(t, s, c, k, n, r)
<1>1. PICK l \in Nat : /\ l = Len(s) /\ t \in Seq(Nat) /\ Len(t) = l + m
                       /\ \A i \in 1 .. l + m : t[i] = IF i <= l THEN s[i] ELSE c
  BY DEF Extends
<1>2. n = l + k /\ n <= l + m /\ l + m = n + r
  BY <1>1 DEF Beyond
<1>3. Oldest(t, n) = s \o Block(k, c)
  <2>1. PICK a : a = Oldest(t, n) /\ IsFront(a, t, n)
    <3>1. n <= l + m /\ l + m \in Nat
      BY <1>2
    <3>2. IsFront(Oldest(t, n), t, n)
      BY <1>1, <3>1, OldestFront
    <3> QED
      BY <3>2
  <2>2. PICK d : d = s \o Block(k, c) /\ Extends(d, s, k, c)
    BY BlockBehind
  <2>3. a \in Seq(Nat) /\ d \in Seq(Nat) /\ Len(a) = n /\ Len(d) = n
    BY <1>1, <1>2, <2>1, <2>2 DEF IsFront, Extends
  <2>4. ASSUME NEW i \in 1 .. n PROVE a[i] = d[i]
    <3>1. a[i] = t[i]
      BY <2>1 DEF IsFront
    <3>2. d[i] = IF i <= l THEN s[i] ELSE c
      BY <1>1, <1>2, <2>2 DEF Extends
    <3>3. i \in 1 .. l + m
      BY <1>2
    <3> QED
      BY <1>1, <3>1, <3>2, <3>3
  <2>5. a = d
    BY <2>3, <2>4, SeqEqual
  <2> QED
    BY <2>1, <2>2, <2>5
<1>4. Later(t, n) = Block(r, c)
  <2>1. PICK all \in Nat, first \in Int : all = l + m /\ all = n + r /\ first = n + 1
    BY <1>2
  <2>2. PICK a : a = SubSeq(t, first, all) /\ IsSlice(a, t, n, r)
    <3>1. IsSlice(SubSeq(t, first, all), t, n, r)
      BY <1>1, <2>1, Slice
    <3> QED
      BY <3>1
  <2>3. PICK d \in Seq(Nat) : d = Block(r, c) /\ Len(d) = r /\ \A i \in 1 .. r : d[i] = c
    BY BlockSeq
  <2>4. a \in Seq(Nat) /\ Len(a) = r /\ Len(d) = r
    BY <2>2, <2>3 DEF IsSlice
  <2>5. ASSUME NEW i \in 1 .. r PROVE a[i] = d[i]
    <3>1. a[i] = t[n + i]
      BY <2>2 DEF IsSlice
    <3>2. n + i \in 1 .. l + m /\ ~(n + i <= l)
      BY <1>2, <2>1
    <3>3. t[n + i] = c
      BY <1>1, <3>2
    <3> QED
      BY <2>3, <3>1, <3>3
  <2>6. a = d
    BY <2>4, <2>5, SeqEqual
  <2> QED
    BY <1>1, <2>1, <2>2, <2>3, <2>6 DEF Later
<1> QED
  BY <1>3, <1>4 DEF TookInto

\* The turns of UnitsOf over a queue.
UnitTurns(lots) ==
  [x \in Seq(Nat) \X (1 .. Len(lots)) |->
     x[1] \o Block(lots[x[2]].quantity, lots[x[2]].cost_per_unit)]

\* The units of a queue of lots, as they come together lot by lot.
LEMMA UnitsChain ==
  ASSUME NEW lots \in Seq(Lot)
  PROVE  \E P : /\ IsChain(P, Seq(Nat), Len(lots), << >>, UnitTurns(lots))
                /\ P[Len(lots)] = UnitsOf(lots)
<1> DEFINE n == Len(lots)
           Acc == Seq(Nat)
           base == << >>
           step == UnitTurns(lots)
           Turn(g) == [s \in SUBSET (1 .. n) |->
                         IF s = {} THEN base
                         ELSE g[s \ {Max(s)}]
                                \o Block(lots[Max(s)].quantity, lots[Max(s)].cost_per_unit)]
           iter == CHOOSE g : g = Turn(g)
<1>1. /\ n \in Nat /\ DOMAIN lots = 1 .. n
      /\ \A i \in 1 .. n : lots[i].quantity \in Nat /\ lots[i].cost_per_unit \in Nat
  <2>1. n \in Nat /\ DOMAIN lots = 1 .. n /\ \A i \in 1 .. n : lots[i] \in Lot
    OBVIOUS
  <2> QED
    BY <2>1 DEF Lot
<1>2. /\ step \in [Acc \X (1 .. n) -> Acc]
      /\ \A a \in Acc, i \in 1 .. n :
           step[<<a, i>>] = a \o Block(lots[i].quantity, lots[i].cost_per_unit)
  <2>1. ASSUME NEW a \in Acc, NEW i \in 1 .. n
        PROVE  a \o Block(lots[i].quantity, lots[i].cost_per_unit) \in Acc
    BY <1>1, BlockBehind DEF Extends
  <2> HIDE DEF Acc
  <2> QED
    BY <1>1, <2>1 DEF UnitTurns, Acc
<1>3. base \in Acc
  OBVIOUS
<1>4. UnitsOf(lots) = iter[1 .. n]
  BY <1>1 DEF UnitsOf, FoldLeft, MapThenFoldSet, Block
<1> HIDE DEF n, base, step, Acc
<1>5. Folds(Acc, n, base, step)
  BY <1>1, <1>2, <1>3 DEF Folds
<1>6. \A s \in SUBSET (1 .. n) : s # {} => Max(s) \in 1 .. n
  BY <1>1, MaxUpTo
<1>7. \E g : g = Turn(g)
  <2>1. PICK g : g \in [SUBSET (1 .. n) -> Acc] /\ Iterates(g, Acc, n, base, step)
    BY <1>5, FoldExists
  <2>2. ASSUME NEW s \in SUBSET (1 .. n)
        PROVE  g[s] = IF s = {} THEN base
                      ELSE g[s \ {Max(s)}]
                             \o Block(lots[Max(s)].quantity, lots[Max(s)].cost_per_unit)
    <3>1. s \ {Max(s)} \in SUBSET (1 .. n)
      OBVIOUS
    <3>2. g[s \ {Max(s)}] \in Acc
      BY <2>1, <3>1
    <3> QED
      BY <1>2, <1>6, <2>1, <3>2 DEF Iterates
  <2>3. g = Turn(g)
    BY <2>1, <2>2
  <2> HIDE DEF Turn
  <2> QED
    BY <2>3
<1>8. iter = Turn(iter)
  <2> HIDE DEF Turn
  <2> QED
    BY <1>7
<1> HIDE DEF iter
<1>9. Iterates(iter, Acc, n, base, step)
  BY <1>2, <1>8, <1>6 DEF Iterates
<1> HIDE DEF Turn
<1>10. \E P : IsChain(P, Acc, n, base, step) /\ P[n] = iter[1 .. n]
  BY <1>5, <1>9, Chain
<1> QED
  BY <1>4, <1>10 DEF n, base, step, Acc

\* The units of a queue with one more lot: a block more.
LEMMA UnitsOneMore ==
  ASSUME NEW lots \in Seq(Lot)
  PROVE  /\ UnitsOf(lots) \in Seq(Nat)
         /\ lots = << >> => UnitsOf(lots) = << >>
         /\ \A x \in Lot : UnitsOf(Append(lots, x))
                             = UnitsOf(lots) \o Block(x.quantity, x.cost_per_unit)
<1> DEFINE n == Len(lots)
           f == UnitTurns(lots)
           Acc == Seq(Nat)
           base == << >>
<1>1. n \in Nat /\ (lots = << >> => n = 0) /\ \A i \in 1 .. n : lots[i] \in Lot
  OBVIOUS
<1>2. PICK P : IsChain(P, Acc, n, base, f) /\ P[n] = UnitsOf(lots)
  BY UnitsChain
<1>3. UnitsOf(lots) \in Acc
  BY <1>1, <1>2 DEF IsChain
<1>4. lots = << >> => UnitsOf(lots) = base
  BY <1>1, <1>2 DEF IsChain
<1>5. ASSUME NEW x \in Lot
      PROVE  UnitsOf(Append(lots, x)) = UnitsOf(lots) \o Block(x.quantity, x.cost_per_unit)
  <2> DEFINE more == Append(lots, x)
             m == Len(more)
             h == UnitTurns(more)
  <2>1. /\ more \in Seq(Lot) /\ m = n + 1 /\ m \in Nat /\ n <= m /\ m \in 1 .. m /\ m - 1 = n
        /\ more[m] = x /\ \A i \in 1 .. n : i \in 1 .. m /\ more[i] = lots[i]
    OBVIOUS
  <2> HIDE DEF Acc
  <2>2. Agree(f, h, Acc, n)
    BY <2>1 DEF UnitTurns, Agree, Acc
  <2>3. \A a \in Acc : h[<<a, m>>] = a \o Block(x.quantity, x.cost_per_unit)
    BY <2>1 DEF UnitTurns, Acc
  <2> HIDE DEF more, h, f, n, base
  <2>4. PICK Q : IsChain(Q, Acc, m, base, h) /\ Q[m] = UnitsOf(more)
    BY <2>1, UnitsChain DEF h, Acc, base
  <2> HIDE DEF m
  <2>5. P[n] = Q[n]
    <3>1. \A k \in 0 .. n : P[k] = Q[k]
      BY <1>1, <1>2, <2>1, <2>2, <2>4, ChainsAgree
    <3> QED
      BY <1>1, <3>1
  <2>6. Q[m] = h[<<Q[n], m>>]
    BY <2>1, <2>4 DEF IsChain
  <2> QED
    BY <1>2, <1>3, <2>3, <2>4, <2>5, <2>6 DEF more
<1> QED
  BY <1>3, <1>4, <1>5

\* There are as many units as the lots hold.
LEMMA UnitsAreTotal ==
  ASSUME NEW lots \in Seq(Lot)
  PROVE  Len(UnitsOf(lots)) = TotalOf(lots)
<1> DEFINE T == {s \in Seq(Lot) : Len(UnitsOf(s)) = TotalOf(s)}
<1>1. << >> \in T
  BY Empty, UnitsOneMore, EmptySeq
<1>2. ASSUME NEW s \in Seq(Lot), NEW x \in Lot, s \in T PROVE Append(s, x) \in T
  <2>1. PICK u \in Seq(Nat), q \in Nat, c \in Nat :
          u = UnitsOf(s) /\ q = x.quantity /\ c = x.cost_per_unit
    BY UnitsOneMore DEF Lot
  <2>2. UnitsOf(Append(s, x)) = u \o Block(q, c)
    BY <2>1, UnitsOneMore
  <2>3. Extends(u \o Block(q, c), u, q, c)
    BY BlockBehind
  <2>4. Len(UnitsOf(Append(s, x))) = TotalOf(s) + q
    BY <1>2, <2>1, <2>2, <2>3 DEF Extends
  <2>5. TotalOf(Append(s, x)) = TotalOf(s) + q
    BY <2>1, TotalOfLots
  <2>6. Append(s, x) \in Seq(Lot)
    OBVIOUS
  <2> QED
    BY <2>4, <2>5, <2>6
<1>3. \A s \in Seq(Lot) : s \in T
  <2> HIDE DEF T
  <2> QED
    BY <1>1, <1>2, LotsInduction
<1> QED
  BY <1>3

\* A sale takes its units, n of them, from the head of the queue of units.
TakesOldest(lots, n, price, sale) ==
  /\ UnitsOf(sale.lots) = Later(UnitsOf(lots), n)
  /\ RealizedPnl(sale.matches) = Gain(price, Oldest(UnitsOf(lots), n))

\* A turn of consume_fifo after the sale is complete: the lot stays behind the others.
LEMMA TakeTurnOver ==
  ASSUME NEW n \in Nat, NEW price \in Nat, NEW lots \in Seq(Lot), NEW x \in Lot,
         NEW acc \in Sale, acc.left = 0, n <= TotalOf(lots), TakesOldest(lots, n, price, acc)
  PROVE  TakesOldest(Append(lots, x), n, price, ConsumeLot(price, acc, x))
<1>1. PICK u \in Seq(Nat), q \in Nat, c \in Nat :
        u = UnitsOf(lots) /\ q = x.quantity /\ c = x.cost_per_unit
  BY UnitsOneMore DEF Lot
<1>2. PICK t : t = UnitsOf(Append(lots, x)) /\ t = u \o Block(q, c) /\ Extends(t, u, q, c)
  BY <1>1, UnitsOneMore, BlockBehind
<1>3. n <= Len(u)
  BY <1>1, UnitsAreTotal
<1>4. PICK next : next = ConsumeLot(price, acc, x)
  OBVIOUS
<1>5. next.lots = Append(acc.lots, x) /\ next.matches = acc.matches /\ acc.lots \in Seq(Lot)
  <2>1. next = [acc EXCEPT !.lots = Append(acc.lots, x)]
    BY <1>4 DEF ConsumeLot
  <2> QED
    BY <2>1 DEF Sale
<1>6. UnitsOf(next.lots) = UnitsOf(acc.lots) \o Block(q, c)
  BY <1>1, <1>5, UnitsOneMore
<1>7. UnitsOf(acc.lots) = Later(u, n)
  BY <1>1 DEF TakesOldest
<1>8. Oldest(t, n) = Oldest(u, n) /\ Later(t, n) = Later(u, n) \o Block(q, c)
  <2>1. Extends(t, u, q, c)
    BY <1>2
  <2>2. Within(u, n)
    BY <1>3 DEF Within
  <2>3. TookBefore(t, u, q, c, n)
    BY <2>1, <2>2, TakeBefore
  <2> QED
    BY <2>3 DEF TookBefore
<1>9. RealizedPnl(next.matches) = Gain(price, Oldest(t, n))
  BY <1>1, <1>5, <1>8 DEF TakesOldest
<1> QED
  BY <1>2, <1>4, <1>6, <1>7, <1>8, <1>9 DEF TakesOldest

\* A turn of consume_fifo that still has something to sell: part of the lot goes, or all.
LEMMA TakeTurnOn ==
  ASSUME NEW n \in Nat, NEW price \in Nat, NEW lots \in Seq(Lot), NEW x \in Lot,
         NEW acc \in Sale, acc.left # 0, acc.lots = << >>, n = TotalOf(lots),
         TakesOldest(lots, n, price, acc),
         NEW k \in Nat, k = IF acc.left < x.quantity THEN acc.left ELSE x.quantity
  PROVE  TakesOldest(Append(lots, x), n + k, price, ConsumeLot(price, acc, x))
<1>1. PICK u \in Seq(Nat), q \in Nat \ {0}, c \in Nat \ {0}, left \in Nat :
        u = UnitsOf(lots) /\ q = x.quantity /\ c = x.cost_per_unit /\ left = acc.left
  BY UnitsOneMore DEF Lot, Sale
<1>2. PICK t : t = UnitsOf(Append(lots, x)) /\ t = u \o Block(q, c) /\ Extends(t, u, q, c)
  BY <1>1, UnitsOneMore, BlockBehind
<1>3. n = Len(u) /\ k <= q /\ acc.matches \in Seq(Match)
  BY <1>1, UnitsAreTotal DEF Sale
<1>4. PICK next : next = ConsumeLot(price, acc, x)
  OBVIOUS
<1>5. PICK match \in Match : match = [quantity   |-> k,
                                      cost_basis |-> k * c,
                                      proceeds   |-> k * price]
  <2>1. k * c \in Nat /\ k * price \in Nat
    OBVIOUS
  <2> QED
    BY <2>1 DEF Match
<1>6. PICK kept : kept = [quantity |-> q - k, cost_per_unit |-> c]
  OBVIOUS
<1>7. /\ next.lots = IF k = q THEN << >> ELSE Append(<< >>, kept)
      /\ next.matches = Append(acc.matches, match)
  <2>1. kept = [x EXCEPT !.quantity = x.quantity - k]
    BY <1>1, <1>6 DEF Lot
  <2>2. match = [quantity   |-> k,
                 cost_basis |-> k * x.cost_per_unit,
                 proceeds   |-> k * price]
    BY <1>1, <1>5
  <2>3. next = [left    |-> acc.left - k,
                lots    |-> IF k = x.quantity THEN acc.lots ELSE Append(acc.lots, kept),
                matches |-> Append(acc.matches, match)]
    BY <1>4, <2>1, <2>2 DEF ConsumeLot
  <2> QED
    BY <1>1, <2>3
<1>8. UnitsOf(next.lots) = Block(q - k, c)
  <2>1. CASE k = q
    <3>1. PICK none \in Nat : none = q - k /\ none = 0
      BY <2>1
    <3> QED
      BY <1>7, <2>1, <3>1, BlockSeq, UnitsOneMore, Empty
  <2>2. CASE k # q
    <3>1. PICK r \in Nat : r = q - k /\ r # 0
      BY <1>3, <2>2
    <3>2. kept \in Lot /\ kept.quantity = r /\ kept.cost_per_unit = c
      BY <1>6, <3>1 DEF Lot
    <3>3. UnitsOf(Append(<< >>, kept)) = << >> \o Block(r, c)
      BY <3>2, UnitsOneMore, Empty
    <3>4. << >> \o Block(r, c) = Block(r, c)
      BY BlockSeq, ConcatEmptySeq
    <3> QED
      BY <1>7, <2>2, <3>1, <3>3, <3>4
  <2> QED
    BY <2>1, <2>2
<1>9. Oldest(t, n + k) = u \o Block(k, c) /\ Later(t, n + k) = Block(q - k, c)
  <2>1. PICK all \in Nat, r \in Nat : all = n + k /\ r = q - k
    <3>1. n + k \in Nat /\ q - k \in Nat
      BY <1>3
    <3> QED
      BY <3>1
  <2>2. Oldest(t, all) = u \o Block(k, c) /\ Later(t, all) = Block(r, c)
    <3>1. Extends(t, u, q, c)
      BY <1>2
    <3>2. Beyond(u, q, k, all, r)
      BY <1>3, <2>1 DEF Beyond
    <3>3. TookInto(t, u, c, k, all, r)
      BY <3>1, <3>2, TakeInto
    <3> QED
      BY <3>3 DEF TookInto
  <2> QED
    BY <2>1, <2>2
<1>10. RealizedPnl(next.matches) = Gain(price, u \o Block(k, c))
  <2>1. RealizedPnl(next.matches) = RealizedPnl(acc.matches) + (k * price - k * c)
    <3>1. match.proceeds = k * price /\ match.cost_basis = k * c
      BY <1>5
    <3> QED
      BY <1>3, <1>7, <3>1, PnlOfMatches
  <2>2. RealizedPnl(acc.matches) = Gain(price, Oldest(u, n))
    BY <1>1 DEF TakesOldest
  <2>3. Oldest(u, n) = u
    BY <1>3, SubSeqFull DEF Oldest
  <2>4. Gain(price, u \o Block(k, c)) = Gain(price, u) + (k * price - k * c)
    <3>1. BlockGain(price, u, k, c)
      BY GainBlock
    <3> QED
      BY <3>1 DEF BlockGain
  <2> QED
    BY <2>1, <2>2, <2>3, <2>4
<1> QED
  BY <1>2, <1>3, <1>4, <1>8, <1>9, <1>10 DEF TakesOldest

\* Whatever is sold, consume_fifo takes it from the head of the queue of units.
LEMMA SaleTakesOldest ==
  ASSUME NEW q \in Nat, NEW price \in Nat, NEW lots \in Seq(Lot)
  PROVE  TakesOldest(lots, q - ConsumeFifo(lots, q, price).left, price,
                     ConsumeFifo(lots, q, price))
<1> DEFINE T == {s \in Seq(Lot) : TakesOldest(s, q - ConsumeFifo(s, q, price).left, price,
                                              ConsumeFifo(s, q, price))}
<1>1. << >> \in T
  <2>1. PICK none : none = << >>
    OBVIOUS
  <2>2. ConsumeFifo(none, q, price) = [left |-> q, lots |-> none, matches |-> none]
    BY <2>1, Empty DEF Begun
  <2>3. UnitsOf(none) = none /\ RealizedPnl(none) = 0 /\ none \in Seq(Nat) /\ Len(none) = 0
    BY <2>1, Empty, UnitsOneMore
  <2>4. Later(none, 0) = none /\ Oldest(none, 0) = none
    BY <2>1, <2>3 DEF Oldest, Later
  <2>5. Gain(price, none) = 0
    BY <2>1, <2>3, GainOneMore
  <2>6. q - q = 0
    OBVIOUS
  <2>7. TakesOldest(none, 0, price, [left |-> q, lots |-> none, matches |-> none])
    BY <2>3, <2>4, <2>5 DEF TakesOldest
  <2>8. none \in Seq(Lot) /\ [left |-> q, lots |-> none, matches |-> none].left = q
    BY <2>1, Empty
  <2> QED
    BY <2>1, <2>2, <2>6, <2>7, <2>8
<1>2. ASSUME NEW s \in Seq(Lot), NEW x \in Lot, s \in T PROVE Append(s, x) \in T
  <2>1. PICK acc \in Sale : acc = ConsumeFifo(s, q, price)
    BY ConsumeOneMore
  <2>2. PICK next : next = ConsumeLot(price, acc, x)
    OBVIOUS
  <2>3. ConsumeFifo(Append(s, x), q, price) = next /\ Append(s, x) \in Seq(Lot)
    BY <2>1, <2>2, ConsumeOneMore
  <2>4. AddsUp(s, q, price, acc) /\ TakesOldest(s, q - acc.left, price, acc)
    BY <1>2, <2>1, SaleAddsUp
  <2>5. PICK left \in Nat, total \in Nat, xq \in Nat :
          left = acc.left /\ total = TotalOf(s) /\ xq = x.quantity
    BY LotSums DEF Sale, Lot
  <2>6. left = IF q <= total THEN 0 ELSE q - total
    BY <2>4, <2>5 DEF AddsUp
  <2>7. TakesOldest(Append(s, x), q - next.left, price, next)
    <3>1. CASE left = 0
      <4>1. q - left = q /\ q <= total
        BY <2>6, <3>1
      <4>2. next.left = left
        <5>1. next = [acc EXCEPT !.lots = Append(acc.lots, x)]
          BY <2>2, <2>5, <3>1 DEF ConsumeLot
        <5> QED
          BY <2>5, <5>1 DEF Sale
      <4>3. TakesOldest(Append(s, x), q, price, next)
        BY <2>2, <2>4, <2>5, <3>1, <4>1, TakeTurnOver
      <4> QED
        BY <4>1, <4>2, <4>3
    <3>2. CASE left # 0
      <4>1. acc.lots = << >> /\ q - left = total
        <5>1. left > 0
          BY <3>2
        <5>2. acc.lots = << >>
          BY <2>4, <2>5, <5>1 DEF AddsUp
        <5> QED
          BY <2>6, <3>2, <5>2
      <4>2. PICK k \in Nat : k = IF left < xq THEN left ELSE xq
        OBVIOUS
      <4>3. next.left = left - k
        <5>1. k = IF acc.left < x.quantity THEN acc.left ELSE x.quantity
          BY <2>5, <4>2
        <5>2. acc.left # 0
          BY <2>5, <3>2
        <5> QED
          BY <2>2, <2>5, <5>1, <5>2 DEF ConsumeLot
      <4>4. TakesOldest(Append(s, x), total + k, price, next)
        <5>1. k = IF acc.left < x.quantity THEN acc.left ELSE x.quantity
          BY <2>5, <4>2
        <5>2. acc.left # 0 /\ TakesOldest(s, total, price, acc)
          BY <2>4, <2>5, <3>2, <4>1
        <5> QED
          BY <2>2, <2>5, <4>1, <5>1, <5>2, TakeTurnOn
      <4>5. q - (left - k) = total + k
        BY <4>1
      <4> QED
        BY <4>3, <4>4, <4>5
    <3> QED
      BY <3>1, <3>2
  <2> QED
    BY <2>3, <2>7
<1>3. \A s \in Seq(Lot) : s \in T
  <2> HIDE DEF T
  <2> QED
    BY <1>1, <1>2, LotsInduction
<1> QED
  BY <1>3

\* The portfolio, the lock and the cash are always of their types: lots are open, totals
\* are Decimals (portfolio.rs, Position and Portfolio).
THEOREM TypeCorrect == Spec => []TypeOK
<1>1. IInv => TypeOK
  BY DEF IInv
<1> QED
  BY <1>1, Invariant, PTL

\* A sell that the balance check lets through never finds the queue empty (apply_trade,
\* consume_fifo): total_quantity is kept in sync with the lots.
THEOREM ChecksOnTotals == Spec => []BalanceCheckSuffices
BY CheckIsEnough, Invariant, PTL

\* What GET /pnl reports as realized and unrealized (get_pnl.rs execute) is the cash that
\* the trades have moved plus the value of what is held at the prices of the request.
THEOREM PnlIsRight == Spec => []PnlIsCashPlusHoldings
BY ReportIsCashPlusHoldings, Invariant, PTL

\* The unrealized profit of a position (unrealized_pnl) is what selling the whole of it
\* would realize (consume_fifo), and a loss exactly below the average cost that
\* GET /portfolio shows (average_cost).
THEOREM MarksToMarket == Spec => []MarkToMarket
BY MarkedToMarket, Invariant, PTL

\* The queue of units is empty too.
LEMMA InitUnits == IInv /\ Init => UQ!Init
<1> SUFFICES ASSUME Init PROVE UQ!Init
  OBVIOUS
<1>1. portfolio.positions = << >> /\ portfolio.total_realized_pnl = 0
  BY DEF Init, NewPortfolio
<1>2. \A a : PositionOf(portfolio, a).lots = << >>
  BY <1>1 DEF PositionOf, NewPosition
<1>3. UnitsOf(<< >>) = << >>
  BY UnitsOneMore, Empty
<1> QED
  BY <1>1, <1>2, <1>3 DEF UQ!Init

\* A buy puts its units at the end of the queue of the asset (add_lot).
LEMMA BuyIsBuy ==
  ASSUME IInv, NEW t \in Trades, Buy(t)
  PROVE  UQ!Buy(t.asset, t.quantity, t.price)
<1> DEFINE before == [a \in Assets |-> UnitsOf(PositionOf(portfolio, a).lots)]
           after  == [a \in Assets |-> UnitsOf(PositionOf(portfolio', a).lots)]
<1>1. /\ ~poisoned /\ ~Refuses(portfolio, t) /\ t.side = "buy"
      /\ portfolio' = ApplyTrade(portfolio, t)
  BY DEF Buy, Book, Locked
<1>2. SoundPortfolio(portfolio) /\ IsTrade(t) /\ t.asset \in Assets
  BY <1>1, TradesAreTrades DEF IInv, Account
<1>a. PICK p, next : p = portfolio /\ next = portfolio'
  OBVIOUS
<1>b. PICK lots \in Seq(Lot) : lots = PositionOf(p, t.asset).lots
  BY <1>2, <1>a, PositionIsSound
<1>3. p = portfolio /\ next = portfolio' /\ lots = PositionOf(p, t.asset).lots
  BY <1>a, <1>b
<1>4. PICK lot \in Lot : lot = [quantity |-> t.quantity, cost_per_unit |-> t.price]
  BY <1>2 DEF IsTrade, Lot
<1>5. PICK position : position = AddLot(PositionOf(p, t.asset), t.quantity, t.price)
  OBVIOUS
<1>6. position.lots = Append(lots, lot)
  <2>1. PICK old : old = PositionOf(p, t.asset) /\ SoundPosition(old)
    BY <1>2, <1>3, PositionIsSound
  <2>2. PICK all, total : old = [lots |-> all, total_quantity |-> total]
    BY <2>1 DEF SoundPosition
  <2>3. old.lots = all
    BY <2>2
  <2>4. PushLot(old, t.quantity, t.price) = [old EXCEPT !.lots = Append(all, lot)]
    BY <1>4, <2>3 DEF PushLot
  <2>5. PushLot(old, t.quantity, t.price) = [lots |-> Append(all, lot), total_quantity |-> total]
    BY <2>2, <2>4
  <2>6. position.lots = Append(all, lot)
    BY <1>5, <2>1, <2>5 DEF AddLot
  <2> QED
    BY <1>3, <2>1, <2>3, <2>6
<1>7. /\ next.positions = WithPosition(p, t.asset, position)
      /\ next.total_realized_pnl = p.total_realized_pnl
  <2>1. next = [p EXCEPT !.positions = WithPosition(p, t.asset, position)]
    BY <1>1, <1>3, <1>5 DEF ApplyTrade
  <2> QED
    BY <1>2, <1>3, <2>1 DEF SoundPortfolio
<1>8. /\ PositionOf(next, t.asset) = position
      /\ \A b : b # t.asset => PositionOf(next, b) = PositionOf(p, b)
  BY <1>7, SetPosition
<1>9. UnitsOf(position.lots) = UnitsOf(lots) \o [i \in 1 .. t.quantity |-> t.price]
  BY <1>4, <1>6, UnitsOneMore DEF Block
<1>10. after = [before EXCEPT ![t.asset] = before[t.asset] \o [i \in 1 .. t.quantity |-> t.price]]
  BY <1>2, <1>3, <1>8, <1>9
<1> QED
  BY <1>3, <1>7, <1>10 DEF UQ!Buy

\* A sell takes the oldest units of its asset, and realizes what they make (consume_fifo).
LEMMA SellIsSell ==
  ASSUME IInv, NEW t \in Trades, SellOff(t)
  PROVE  UQ!Sell(t.asset, t.quantity, t.price)
<1> DEFINE before == [a \in Assets |-> UnitsOf(PositionOf(portfolio, a).lots)]
           after  == [a \in Assets |-> UnitsOf(PositionOf(portfolio', a).lots)]
<1>1. /\ ~poisoned /\ ~Refuses(portfolio, t) /\ t.side = "sell"
      /\ portfolio' = ApplyTrade(portfolio, t)
  BY DEF SellOff, Book, Locked
<1>2. SoundPortfolio(portfolio) /\ IsTrade(t) /\ t.asset \in Assets
  BY <1>1, TradesAreTrades DEF IInv, Account
<1>a. PICK p, next : p = portfolio /\ next = portfolio'
  OBVIOUS
<1>b. PICK lots \in Seq(Lot) : lots = PositionOf(p, t.asset).lots
  BY <1>2, <1>a, PositionIsSound
<1>3. p = portfolio /\ next = portfolio' /\ lots = PositionOf(p, t.asset).lots
  BY <1>a, <1>b
<1>4. PICK q \in Nat, price \in Nat : q = t.quantity /\ price = t.price
  BY <1>2 DEF IsTrade
<1>5. PICK sale \in Sale : sale = ConsumeFifo(lots, q, price) /\ sale = Sell(p, t) /\ sale.left = 0
  BY <1>1, <1>2, <1>3, <1>4, SellFindsLots DEF Sell
<1>6. TakesOldest(lots, q, price, sale)
  <2>1. TakesOldest(lots, q - sale.left, price, sale)
    BY <1>5, SaleTakesOldest
  <2>2. q - sale.left = q
    BY <1>5
  <2> QED
    BY <2>1, <2>2
<1>7. PICK position : position = [lots           |-> sale.lots,
                                  total_quantity |-> PositionOf(p, t.asset).total_quantity
                                                       - (t.quantity - sale.left)]
  OBVIOUS
<1>8. /\ next.positions = WithPosition(p, t.asset, position)
      /\ next.total_realized_pnl = p.total_realized_pnl + RealizedPnl(sale.matches)
  BY <1>1, <1>3, <1>5, <1>7 DEF ApplyTrade
<1>9. /\ PositionOf(next, t.asset) = position
      /\ \A b : b # t.asset => PositionOf(next, b) = PositionOf(p, b)
  BY <1>8, SetPosition
<1>10. PICK units : units = UnitsOf(lots) /\ units = before[t.asset]
  BY <1>2, <1>3
<1>11. after = [before EXCEPT ![t.asset] = SubSeq(units, q + 1, Len(units))]
  <2>1. UnitsOf(position.lots) = SubSeq(units, q + 1, Len(units))
    BY <1>6, <1>7, <1>10 DEF TakesOldest, Later
  <2> QED
    BY <1>2, <1>3, <1>9, <2>1
<1>12. q <= Len(units)
  <2>1. Len(units) = PositionOf(p, t.asset).total_quantity
    BY <1>2, <1>3, <1>10, UnitsAreTotal, PositionIsSound
  <2>2. /\ ~(q > PositionOf(p, t.asset).total_quantity)
        /\ PositionOf(p, t.asset).total_quantity \in Nat
    BY <1>1, <1>2, <1>3, <1>4, PositionIsSound DEF Refuses
  <2> QED
    BY <2>1, <2>2
<1>13. portfolio'.total_realized_pnl
         = portfolio.total_realized_pnl + Gain(t.price, Oldest(before[t.asset], t.quantity))
  BY <1>3, <1>4, <1>6, <1>8, <1>10 DEF TakesOldest
<1>14. t.quantity <= Len(before[t.asset])
  BY <1>4, <1>10, <1>12
<1>15. after = [before EXCEPT ![t.asset] = SubSeq(before[t.asset], t.quantity + 1,
                                                 Len(before[t.asset]))]
  BY <1>4, <1>10, <1>11
<1>16. portfolio'.total_realized_pnl
         = portfolio.total_realized_pnl
             + FoldLeft(LAMBDA sum, cost : sum + (t.price - cost), 0,
                        SubSeq(before[t.asset], 1, t.quantity))
  BY <1>13 DEF Gain, Oldest
<1> DEFINE sold == SubSeq(before[t.asset], 1, t.quantity)
<1>17. UQ!FoldLeft(LAMBDA sum, cost : sum + (t.price - cost), 0, sold)
         = FoldLeft(LAMBDA sum, cost : sum + (t.price - cost), 0, sold)
  <2> HIDE DEF sold
  <2> QED
    BY DEF UQ!FoldLeft, FoldLeft, UQ!MapThenFoldSet, MapThenFoldSet, UQ!Max, Max
<1>18. UQ!Sell(t.asset, t.quantity, t.price)
         <=> /\ t.quantity <= Len(before[t.asset])
             /\ after = [before EXCEPT ![t.asset] = SubSeq(@, t.quantity + 1, Len(@))]
             /\ portfolio'.total_realized_pnl
                  = portfolio.total_realized_pnl
                      + UQ!FoldLeft(LAMBDA sum, cost : sum + (t.price - cost), 0, sold)
  BY DEF UQ!Sell
<1> QED
  BY <1>14, <1>15, <1>16, <1>18, <1>17

\* First in, first out: the portfolio implements a queue of units per asset, of which a
\* sell takes the oldest ones and realizes the difference of the prices (apply_trade,
\* add_lot, consume_fifo); only a trade that overflows, and poisons the lock, does not.
THEOREM IsFirstInFirstOut == Spec => FirstInFirstOut
<1>1. IInv /\ [Next]_vars => [poisoned' \/ [UQ!Next]_(UQ!vars)]_vars
  <2> SUFFICES ASSUME IInv, Next PROVE poisoned' \/ [UQ!Next]_(UQ!vars)
    BY DEF vars
  <2>1. PICK t \in Trades : Buy(t) \/ SellOff(t) \/ Overflow(t)
    BY DEF Next
  <2>2. t.asset \in Assets /\ t.quantity \in Quantities /\ t.price \in Prices
    BY DEF Trades, NotionalFits
  <2>3. CASE Buy(t)
    BY <2>2, <2>3, BuyIsBuy DEF UQ!Next
  <2>4. CASE SellOff(t)
    BY <2>2, <2>4, SellIsSell DEF UQ!Next
  <2>5. CASE Overflow(t)
    BY <2>5 DEF Overflow
  <2> QED
    BY <2>1, <2>3, <2>4, <2>5
<1>2. IInv /\ Init => UQ!Init
  BY InitUnits
<1> QED
  BY <1>1, <1>2, InitIInv, Invariant, PTL DEF Spec, FirstInFirstOut
=============================================================================
