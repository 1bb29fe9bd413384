--------------------------- MODULE PipelineProofs ---------------------------
(***************************************************************************)
(* Theorems about the composition of ledger-service, the topic and the     *)
(* consumer group.  What each part guarantees alone carries over           *)
(* (Composition).  What the parts guarantee together rests on two          *)
(* invariants: the books are an account of their events (Books), and the   *)
(* books and each memory whose lock is not poisoned are what their own     *)
(* events make of nothing, one after the other (BooksReplay, Histories).   *)
(***************************************************************************)
EXTENDS Pipeline, LedgerServiceProofs

\* A behaviour of the composition is one of each part, so that the theorems about
\* ledger-service hold of it.
LEMMA Composition == PipelineSpec => Spec /\ PNL!Spec
<1>1. PipelineInit => Init /\ PNL!Init
  BY DEF PipelineInit
<1>2. [PipelineNext]_pipelineVars => [Next]_vars /\ [PNL!Next]_(PNL!vars)
  <2> SUFFICES ASSUME [PipelineNext]_pipelineVars
               PROVE  [Next]_vars /\ [PNL!Next]_(PNL!vars)
    OBVIOUS
  <2>1. CASE LedgerStep
    BY <2>1 DEF LedgerStep, pnlTables, PNL!vars
  <2>2. ASSUME NEW id \in TradeEvents, Consume(id)
        PROVE  [Next]_vars /\ [PNL!Next]_(PNL!vars)
    BY <2>2 DEF Consume, PNL!Next
  <2>3. ASSUME NEW id \in TradeEvents, Fail(id)
        PROVE  [Next]_vars /\ [PNL!Next]_(PNL!vars)
    BY <2>3 DEF Fail, pnlTables, PNL!vars
  <2>4. CASE UNCHANGED pipelineVars
    BY <2>4 DEF pipelineVars, pnlTables, PNL!vars
  <2> QED
    BY <2>1, <2>2, <2>3, <2>4 DEF PipelineNext
<1> QED
  BY <1>1, <1>2, PTL DEF PipelineSpec, Spec, PNL!Spec

-----------------------------------------------------------------------------
(* The reader. *)

\* The asset is still listed and still found after the step.
Stays(a) == a \in ListAssets' /\ GetPnlSummary(a)' # NotFound

\* What list_assets has listed once is listed, and found by get_pnl_summary, from
\* then on: no row is ever deleted.
THEOREM ListedStays == PipelineSpec => [][\A a \in ListAssets : Stays(a)]_pipelineVars
<1>1. ASSUME [PNL!Next]_(PNL!vars), NEW a \in ListAssets PROVE Stays(a)
  <2>1. ASSUME NEW e \in TradeEvents, PNL!ApplyOnce(e) PROVE a \in DOMAIN portfolio_state'
    BY <1>1, <2>1 DEF PNL!ApplyOnce, PNL!WithRow, ListAssets
  <2>2. a \in DOMAIN portfolio_state'
    BY <1>1, <2>1 DEF PNL!Next, PNL!vars, ListAssets
  <2> QED
    BY <2>2 DEF Stays, ListAssets, GetPnlSummary, NotFound
<1>2. [PNL!Next]_(PNL!vars) => [\A a \in ListAssets : Stays(a)]_pipelineVars
  BY <1>1
<1> QED
  BY <1>2, Composition, PTL DEF PNL!Spec

-----------------------------------------------------------------------------
(* The books are kept the way a memory is. *)

\* The queue of lots of pnl-consumer is that of ledger-service.
LEMMA SameQueue ==
  /\ \A lots, q, price : AP!ConsumeFifo(lots, q, price) = ConsumeFifo(lots, q, price)
  /\ \A matches : AP!RealizedPnl(matches) = RealizedPnl(matches)
<1>1. ASSUME NEW lots, NEW q, NEW price
      PROVE  AP!ConsumeFifo(lots, q, price) = ConsumeFifo(lots, q, price)
  BY DEF AP!ConsumeFifo, ConsumeFifo, AP!ConsumeLot, ConsumeLot, AP!FoldLeft, FoldLeft,
         AP!MapThenFoldSet, MapThenFoldSet, AP!Max, Max
<1>2. ASSUME NEW matches PROVE AP!RealizedPnl(matches) = RealizedPnl(matches)
  BY DEF AP!RealizedPnl, RealizedPnl, AP!SumOf, SumOf, AP!RealizedBy, RealizedBy,
         AP!FoldLeft, FoldLeft, AP!MapThenFoldSet, MapThenFoldSet, AP!Max, Max
<1> QED
  BY <1>1, <1>2

\* The row has the position of the asset in p; its profit is the asset's own.
Mirrors(row, p, a) ==
  /\ row = [lots               |-> PositionOf(p, a).lots,
            total_quantity     |-> PositionOf(p, a).total_quantity,
            total_realized_pnl |-> row.total_realized_pnl]
  /\ row.total_realized_pnl \in Int

\* An event's trade, as the modules of both services see it.
LEMMA EventIsTrade ==
  ASSUME NEW id \in TradeEvents
  PROVE  /\ id \in Requests /\ IsTrade(BodyOf(id)) /\ BodyOf(id).asset \in Symbols
         /\ [i \in TradeEvents |-> BodyOf(i)][id] = BodyOf(id)
         /\ AP!AssetOf(id) = BodyOf(id).asset
<1>1. id \in Requests /\ ValidTrade(BodyOf(id))
  BY DEF TradeEvents
<1>2. [i \in TradeEvents |-> BodyOf(i)][id] = BodyOf(id)
  OBVIOUS
<1> QED
  BY <1>1, <1>2, BodyTypes DEF AP!AssetOf

\* Both services admit the same trades to the same position.
LEMMA SameVerdict ==
  ASSUME NEW p, NEW id \in TradeEvents, NEW row, Mirrors(row, p, BodyOf(id).asset)
  PROVE  AP!Rejects(row, id) <=> Refuses(p, BodyOf(id))
<1>1. PICK t : t = BodyOf(id) /\ t.side \in {"buy", "sell"}
  BY EventIsTrade DEF IsTrade
<1>2. row.total_quantity = PositionOf(p, t.asset).total_quantity
  BY <1>1 DEF Mirrors
<1>3. AP!Rejects(row, id) <=> \/ t.side = "other"
                              \/ t.side = "sell" /\ t.quantity > row.total_quantity
  BY <1>1, EventIsTrade DEF AP!Rejects
<1> QED
  BY <1>1, <1>2, <1>3 DEF Refuses

\* And a buy does the same to it (add_lot of both).
LEMMA SameBuy ==
  ASSUME NEW p, SoundPortfolio(p), NEW id \in TradeEvents, NEW row,
         Mirrors(row, p, BodyOf(id).asset), BodyOf(id).side = "buy"
  PROVE  /\ Mirrors(AP!Applied(row, id), ApplyTrade(p, BodyOf(id)), BodyOf(id).asset)
         /\ AP!Applied(row, id).total_realized_pnl
              = row.total_realized_pnl + Realized(p, BodyOf(id))
<1>1. PICK t : t = BodyOf(id) /\ IsTrade(t)
  BY EventIsTrade
<1>2. PICK position : position = PositionOf(p, t.asset)
  OBVIOUS
<1>3. PICK was \in Int : was = row.total_realized_pnl
  BY DEF Mirrors
<1>4. row = [lots |-> position.lots, total_quantity |-> position.total_quantity,
             total_realized_pnl |-> was]
  BY <1>1, <1>2, <1>3 DEF Mirrors
<1>5. position = [lots |-> position.lots, total_quantity |-> position.total_quantity]
  BY <1>2, PositionIsSound DEF SoundPosition
<1>6. PICK lots, total : lots = Append(position.lots, [quantity      |-> t.quantity,
                                                       cost_per_unit |-> t.price])
                         /\ total = position.total_quantity + t.quantity
  OBVIOUS
<1>7. AP!Applied(row, id) = [lots |-> lots, total_quantity |-> total, total_realized_pnl |-> was]
  <2>1. AP!Applied(row, id)
          = [[row EXCEPT !.lots = Append(row.lots, [quantity      |-> t.quantity,
                                                    cost_per_unit |-> t.price])]
               EXCEPT !.total_quantity = row.total_quantity + t.quantity]
    BY <1>1, EventIsTrade DEF AP!Applied
  <2>2. row.lots = position.lots /\ row.total_quantity = position.total_quantity
    BY <1>4
  <2>3. [row EXCEPT !.lots = lots]
          = [lots |-> lots, total_quantity |-> position.total_quantity, total_realized_pnl |-> was]
    BY <1>4
  <2> QED
    BY <1>6, <2>1, <2>2, <2>3
<1>8. AddLot(position, t.quantity, t.price) = [lots |-> lots, total_quantity |-> total]
  <2>1. PICK pushed : pushed = PushLot(position, t.quantity, t.price)
    OBVIOUS
  <2>2. pushed = [lots |-> lots, total_quantity |-> position.total_quantity]
    BY <1>5, <1>6, <2>1 DEF PushLot
  <2>3. AddLot(position, t.quantity, t.price)
          = [pushed EXCEPT !.total_quantity = pushed.total_quantity + t.quantity]
    BY <2>1 DEF AddLot
  <2> QED
    BY <1>6, <2>2, <2>3
<1>9. PICK after : after = ApplyTrade(p, t)
  OBVIOUS
<1>10. after = [p EXCEPT !.positions =
                  WithPosition(p, t.asset, AddLot(position, t.quantity, t.price))]
  BY <1>1, <1>2, <1>9 DEF ApplyTrade
<1>11. after.positions = WithPosition(p, t.asset, AddLot(position, t.quantity, t.price))
  BY <1>10 DEF SoundPortfolio
<1>12. PositionOf(after, t.asset) = [lots |-> lots, total_quantity |-> total]
  BY <1>8, <1>11, SetPosition
<1>13. Realized(p, t) = 0 /\ was = was + 0
  BY <1>1 DEF Realized
<1> QED
  BY <1>1, <1>3, <1>7, <1>9, <1>12, <1>13 DEF Mirrors

\* So does a sell (consume_fifo of both).
LEMMA SameSell ==
  ASSUME NEW p, SoundPortfolio(p), NEW id \in TradeEvents, NEW row,
         Mirrors(row, p, BodyOf(id).asset), BodyOf(id).side = "sell", ~Refuses(p, BodyOf(id))
  PROVE  /\ Mirrors(AP!Applied(row, id), ApplyTrade(p, BodyOf(id)), BodyOf(id).asset)
         /\ AP!Applied(row, id).total_realized_pnl
              = row.total_realized_pnl + Realized(p, BodyOf(id))
<1>1. PICK t : t = BodyOf(id) /\ IsTrade(t)
  BY EventIsTrade
<1>2. PICK position : position = PositionOf(p, t.asset)
  OBVIOUS
<1>3. PICK was \in Int : was = row.total_realized_pnl
  BY DEF Mirrors
<1>4. row.lots = position.lots /\ row.total_quantity = position.total_quantity
  BY <1>1, <1>2 DEF Mirrors
<1>5. PICK sale : sale = Sell(p, t)
  OBVIOUS
<1>6. AP!Sold(row, id) = sale
  BY <1>1, <1>2, <1>4, <1>5, EventIsTrade, SameQueue DEF AP!Sold, Sell
<1>7. PICK made \in Int : made = Realized(p, t) /\ made = RealizedPnl(sale.matches)
  <2>1. Realized(p, t) = RealizedPnl(sale.matches)
    BY <1>1, <1>5 DEF Realized
  <2>2. Realized(p, t) \in Int
    BY <1>1, ApplyMoves DEF Moves
  <2> QED
    BY <2>1, <2>2
<1>8. AP!RealizedOf(row, id) = made
  BY <1>1, <1>6, <1>7, EventIsTrade, SameQueue DEF AP!RealizedOf
<1>9. PICK total : total = position.total_quantity - (t.quantity - sale.left)
  OBVIOUS
<1>10. AP!Applied(row, id) = [lots |-> sale.lots, total_quantity |-> total,
                              total_realized_pnl |-> was + made]
  BY <1>1, <1>3, <1>4, <1>6, <1>8, <1>9, EventIsTrade DEF AP!Applied
<1>11. PICK after : after = ApplyTrade(p, t)
  OBVIOUS
<1>12. after.positions = WithPosition(p, t.asset, [lots |-> sale.lots, total_quantity |-> total])
  BY <1>1, <1>2, <1>5, <1>9, <1>11 DEF ApplyTrade
<1>13. PositionOf(after, t.asset) = [lots |-> sale.lots, total_quantity |-> total]
  BY <1>12, SetPosition
<1>14. was + made \in Int
  OBVIOUS
<1> QED
  BY <1>1, <1>3, <1>7, <1>10, <1>11, <1>13, <1>14 DEF Mirrors

\* An event that the books admit does to a row what apply_trade does to the position.
LEMMA SameTrade ==
  ASSUME NEW p, SoundPortfolio(p), NEW id \in TradeEvents, NEW row,
         Mirrors(row, p, BodyOf(id).asset), ~Refuses(p, BodyOf(id))
  PROVE  /\ Mirrors(AP!Applied(row, id), ApplyTrade(p, BodyOf(id)), BodyOf(id).asset)
         /\ AP!Applied(row, id).total_realized_pnl
              = row.total_realized_pnl + Realized(p, BodyOf(id))
<1>1. BodyOf(id).side \in {"buy", "sell"}
  BY EventIsTrade DEF IsTrade
<1> QED
  BY <1>1, SameBuy, SameSell

-----------------------------------------------------------------------------
(* The books: as a memory, the account of the trades that they have applied, but *)
(* of whatever replica, and in whatever order.                                   *)

\* A row whose total_quantity is what its lots hold.
SoundRow(row) ==
  /\ row = [lots               |-> row.lots,
            total_quantity     |-> row.total_quantity,
            total_realized_pnl |-> row.total_realized_pnl]
  /\ row.lots \in Seq(Lot)
  /\ row.total_quantity = TotalOf(row.lots)
  /\ row.total_realized_pnl \in Int

\* The profit of a row, less the cost of what it holds.
RowMoney(row) == row.total_realized_pnl - CostOf(row.lots)

\* A memory with nothing in it but the row.
OneAsset(a, row) ==
  [positions          |-> [b \in {a} |-> [lots           |-> row.lots,
                                          total_quantity |-> row.total_quantity]],
   total_realized_pnl |-> row.total_realized_pnl]

\* What is known of memories can be used for a row.
LEMMA OneAssetIsSound ==
  ASSUME NEW row, SoundRow(row), NEW a
  PROVE  /\ SoundPortfolio(OneAsset(a, row)) /\ Mirrors(row, OneAsset(a, row), a)
         /\ OneAsset(a, row).total_realized_pnl = row.total_realized_pnl
         /\ PositionCost(OneAsset(a, row), a) = CostOf(row.lots)
<1>1. PICK p : p = OneAsset(a, row)
  OBVIOUS
<1>2. PICK position : position = [lots |-> row.lots, total_quantity |-> row.total_quantity]
  OBVIOUS
<1>3. /\ DOMAIN p = {"positions", "total_realized_pnl"} /\ p.positions = [b \in {a} |-> position]
      /\ p.total_realized_pnl = row.total_realized_pnl
  BY <1>1, <1>2 DEF OneAsset
<1>4. DOMAIN p.positions = {a} /\ p.positions[a] = position /\ PositionOf(p, a) = position
  BY <1>3 DEF PositionOf
<1>5. SoundPosition(position)
  BY <1>2 DEF SoundRow, SoundPosition
<1>6. SoundPortfolio(p)
  BY <1>3, <1>4, <1>5, FS_Singleton DEF SoundPortfolio, SoundRow
<1>7. Mirrors(row, p, a)
  BY <1>2, <1>4 DEF SoundRow, Mirrors
<1> QED
  BY <1>1, <1>2, <1>3, <1>4, <1>6, <1>7 DEF PositionCost

\* What an event that is admitted does to the row of its asset
\* (EventProcessor::process, portfolio.rs apply).
LEMMA RowMoves ==
  ASSUME NEW row, SoundRow(row), NEW id \in TradeEvents, ~AP!Rejects(row, id)
  PROVE  LET after == AP!Applied(row, id)
         IN  /\ SoundRow(after)
             /\ after.total_quantity = row.total_quantity + Delta(BodyOf(id))
             /\ RowMoney(after) = RowMoney(row) + Cash(BodyOf(id))
<1>1. PICK t : t = BodyOf(id) /\ IsTrade(t)
  BY EventIsTrade
<1>2. PICK p : p = OneAsset(t.asset, row)
  OBVIOUS
<1>3. /\ SoundPortfolio(p) /\ Mirrors(row, p, t.asset)
      /\ p.total_realized_pnl = row.total_realized_pnl
      /\ PositionCost(p, t.asset) = CostOf(row.lots)
  BY <1>2, OneAssetIsSound
<1>4. ~Refuses(p, t)
  BY <1>1, <1>3, SameVerdict
<1>5. PICK after : after = AP!Applied(row, id)
  OBVIOUS
<1>6. PICK q : q = ApplyTrade(p, t)
  OBVIOUS
<1>7. /\ Mirrors(after, q, t.asset)
      /\ after.total_realized_pnl = row.total_realized_pnl + Realized(p, t)
  BY <1>1, <1>3, <1>4, <1>5, <1>6, SameTrade
<1>8. SoundPortfolio(q) /\ Moves(p, t, q)
  BY <1>1, <1>3, <1>4, <1>6, ApplyMoves
<1>9. /\ after.lots = PositionOf(q, t.asset).lots
      /\ after.total_quantity = PositionOf(q, t.asset).total_quantity
      /\ row.total_quantity = PositionOf(p, t.asset).total_quantity
  BY <1>3, <1>7 DEF Mirrors
<1>10. SoundRow(after)
  <2>1. /\ PositionOf(q, t.asset).lots \in Seq(Lot)
        /\ PositionOf(q, t.asset).total_quantity = TotalOf(PositionOf(q, t.asset).lots)
    BY <1>8, PositionIsSound
  <2> QED
    BY <1>7, <1>9, <2>1 DEF SoundRow, Mirrors
<1>11. RowMoney(after) = RowMoney(row) + Cash(t)
  <2>1. PICK was \in Int, made \in Int, new \in Int, old \in Int, money \in Int :
          /\ was = row.total_realized_pnl /\ made = Realized(p, t)
          /\ new = PositionCost(q, t.asset) /\ old = PositionCost(p, t.asset)
          /\ money = Cash(t)
    <3>1. row.total_realized_pnl \in Int /\ Realized(p, t) \in Int
      BY <1>8 DEF SoundRow, Moves
    <3>2. PositionCost(q, t.asset) \in Int /\ PositionCost(p, t.asset) \in Int
      BY <1>3, <1>8, PositionIsSound
    <3>3. Cash(t) \in Int
      BY <1>1, TradeFacts
    <3> QED
      BY <3>1, <3>2, <3>3
  <2>2. made - new = money - old
    BY <1>8, <2>1 DEF Moves
  <2>3. RowMoney(after) = (was + made) - new /\ RowMoney(row) = was - old
    BY <1>3, <1>7, <1>9, <2>1 DEF RowMoney, PositionCost
  <2> QED
    BY <2>1, <2>2, <2>3
<1>12. after.total_quantity = row.total_quantity + Delta(t)
  BY <1>8, <1>9 DEF Moves
<1> QED
  BY <1>1, <1>5, <1>10, <1>11, <1>12

\* The money of each asset, and the inductive invariant of the books.
MoneyOf == [a \in Symbols |-> RowMoney(PNL!PortfolioOf(a))]

Books ==
  /\ processed_events \in SUBSET TradeEvents
  /\ DOMAIN portfolio_state \subseteq Symbols
  /\ \A a \in Symbols :
       /\ SoundRow(PNL!PortfolioOf(a))
       /\ PNL!PortfolioOf(a).total_quantity = Net(processed_events, a)
  /\ SumOver(MoneyOf, Symbols) = Earned(processed_events)

\* Before the first event nothing is held and nothing was earned.
LEMMA InitBooks == PipelineInit => Books
<1> SUFFICES ASSUME PipelineInit PROVE Books
  OBVIOUS
<1>1. processed_events = {} /\ portfolio_state = << >> /\ DOMAIN portfolio_state = {}
  BY DEF PipelineInit, PNL!Init
<1>2. \A a \in Symbols : PNL!PortfolioOf(a) = [lots |-> << >>, total_quantity |-> 0,
                                             total_realized_pnl |-> 0]
  BY <1>1 DEF PNL!PortfolioOf, AP!EmptyPortfolio
<1>3. ASSUME NEW a \in Symbols
      PROVE  /\ SoundRow(PNL!PortfolioOf(a)) /\ RowMoney(PNL!PortfolioOf(a)) = 0
             /\ PNL!PortfolioOf(a).total_quantity = 0
  <2>1. PICK row : row = PNL!PortfolioOf(a)
    OBVIOUS
  <2>2. row = [lots |-> << >>, total_quantity |-> 0, total_realized_pnl |-> 0]
    BY <1>2, <2>1
  <2>3. /\ row.lots = << >> /\ row.total_quantity = 0 /\ row.total_realized_pnl = 0
        /\ row = [lots |-> row.lots, total_quantity |-> row.total_quantity,
                  total_realized_pnl |-> row.total_realized_pnl]
    BY <2>2
  <2>4. << >> \in Seq(Lot) /\ TotalOf(<< >>) = 0 /\ CostOf(<< >>) = 0
    BY Empty
  <2>5. SoundRow(row)
    BY <2>3, <2>4 DEF SoundRow
  <2>6. RowMoney(row) = 0
    BY <2>3, <2>4 DEF RowMoney
  <2> QED
    BY <2>1, <2>3, <2>5, <2>6
<1>4. \A a \in Symbols : MoneyOf[a] = 0
  BY <1>3 DEF MoneyOf
<1>5. SumOver(MoneyOf, Symbols) = 0
  BY <1>4, SumZero, FiniteRequests
<1> QED
  BY <1>1, <1>2, <1>3, <1>5, NothingApplied DEF Books

\* What ApplyOnce does to the rows.
LEMMA EventSteps ==
  ASSUME NEW id \in TradeEvents, PNL!ApplyOnce(id)
  PROVE  LET a   == BodyOf(id).asset
             row == PNL!PortfolioOf(a)
         IN  /\ id \notin processed_events /\ processed_events' = processed_events \union {id}
             /\ ~AP!Rejects(row, id)
             /\ DOMAIN portfolio_state' = DOMAIN portfolio_state \union {a}
             /\ PNL!PortfolioOf(a)' = AP!Applied(row, id)
             /\ \A b : b # a => PNL!PortfolioOf(b)' = PNL!PortfolioOf(b)
<1>1. PICK a : a = BodyOf(id).asset /\ a = AP!AssetOf(id)
  BY EventIsTrade
<1>2. PICK row : row = PNL!PortfolioOf(a)
  OBVIOUS
<1>3. /\ id \notin processed_events /\ processed_events' = processed_events \union {id}
      /\ ~AP!Rejects(row, id)
      /\ portfolio_state' = PNL!WithRow(a, AP!Applied(row, id))
  BY <1>1, <1>2 DEF PNL!ApplyOnce
<1>4. /\ DOMAIN portfolio_state' = DOMAIN portfolio_state \union {a}
      /\ portfolio_state'[a] = AP!Applied(row, id)
      /\ \A b \in DOMAIN portfolio_state : b # a => portfolio_state'[b] = portfolio_state[b]
  BY <1>3 DEF PNL!WithRow
<1> QED
  BY <1>1, <1>2, <1>3, <1>4 DEF PNL!PortfolioOf

\* An event moves the books by its units and its money.
LEMMA BooksAfterEvent ==
  ASSUME Books, NEW id \in TradeEvents, PNL!ApplyOnce(id)
  PROVE  Books'
<1>1. PICK t : t = BodyOf(id) /\ IsTrade(t) /\ t.asset \in Symbols
  BY EventIsTrade
<1>2. PICK row : row = PNL!PortfolioOf(t.asset)
  OBVIOUS
<1>3. PICK after : after = AP!Applied(row, id)
  OBVIOUS
<1>4. /\ id \notin processed_events /\ processed_events' = processed_events \union {id}
      /\ ~AP!Rejects(row, id)
      /\ DOMAIN portfolio_state' = DOMAIN portfolio_state \union {t.asset}
      /\ PNL!PortfolioOf(t.asset)' = after
      /\ \A b : b # t.asset => PNL!PortfolioOf(b)' = PNL!PortfolioOf(b)
  BY <1>1, <1>2, <1>3, EventSteps
<1>5. /\ SoundRow(after)
      /\ after.total_quantity = row.total_quantity + Delta(t)
      /\ RowMoney(after) = RowMoney(row) + Cash(t)
  BY <1>1, <1>2, <1>3, <1>4, RowMoves DEF Books
<1>6. PICK ids \in SUBSET Requests : ids = processed_events /\ id \in Requests /\ id \notin ids
  BY <1>4, EventIsTrade DEF Books, TradeEvents
<1>7. ASSUME NEW a \in Symbols
      PROVE  /\ SoundRow(PNL!PortfolioOf(a)')
             /\ PNL!PortfolioOf(a)'.total_quantity = Net(ids \union {id}, a)
  <2>1. /\ SoundRow(PNL!PortfolioOf(a))
        /\ PNL!PortfolioOf(a).total_quantity = Net(ids, a)
    BY <1>6 DEF Books
  <2>2. Net(ids \union {id}, a) = Net(ids, a) + NetOf(a)[id] /\ Net(ids, a) \in Int
    BY <1>6, OneMoreRequest
  <2>3. CASE a = t.asset
    <3>1. NetOf(a)[id] = Delta(t)
      BY <1>1, <1>6, <2>3 DEF NetOf
    <3> QED
      BY <1>2, <1>4, <1>5, <2>1, <2>2, <2>3, <3>1
  <2>4. CASE a # t.asset
    <3>1. NetOf(a)[id] = 0
      BY <1>1, <1>6, <2>4 DEF NetOf
    <3>2. Net(ids \union {id}, a) = Net(ids, a)
      BY <2>2, <3>1
    <3> QED
      BY <1>4, <2>1, <2>4, <3>2
  <2> QED
    BY <2>3, <2>4
<1>8. \A a \in Symbols : RowMoney(PNL!PortfolioOf(a)) \in Int /\ MoneyOf[a] \in Int
  <2> SUFFICES ASSUME NEW a \in Symbols
               PROVE  RowMoney(PNL!PortfolioOf(a)) \in Int /\ MoneyOf[a] \in Int
    OBVIOUS
  <2>1. PICK r : r = PNL!PortfolioOf(a) /\ SoundRow(r)
    BY DEF Books
  <2>2. CostOf(r.lots) \in Int /\ r.total_realized_pnl \in Int
    BY <2>1, CostOfLots DEF SoundRow
  <2>3. RowMoney(r) \in Int
    BY <2>2 DEF RowMoney
  <2> QED
    BY <2>1, <2>3 DEF MoneyOf
<1>9. SumOver(MoneyOf', Symbols) = Earned(ids \union {id})
  <2>1. PICK x \in Symbols : x = t.asset
    BY <1>1
  <2>2. PICK v : v = MoneyOf
    OBVIOUS
  <2>3. PICK w : w = MoneyOf'
    OBVIOUS
  <2>4. \A y \in Symbols : /\ w[y] = RowMoney(PNL!PortfolioOf(y)')
                           /\ v[y] = RowMoney(PNL!PortfolioOf(y))
    BY <2>2, <2>3 DEF MoneyOf, RowMoney
  <2>5. \A y \in Symbols \ {x} : w[y] = v[y]
    BY <1>4, <2>1, <2>4
  <2>6. w[x] = v[x] + Cash(t)
    BY <1>2, <1>4, <1>5, <2>1, <2>4
  <2>7. PICK was \in Int, money \in Int : was = v[x] /\ money = Cash(t)
    BY <1>1, <1>8, <2>2, TradeFacts
  <2>8. /\ SumOver(w, Symbols) = SumOver(v, Symbols) + (w[x] - v[x])
        /\ SumOver(v, Symbols) \in Int
    <3>1. (\A y \in Symbols : v[y] \in Int) /\ w[x] \in Int
      BY <1>8, <2>2, <2>6, <2>7
    <3> QED
      BY <2>5, <3>1, SumChangeOne, FiniteRequests
  <2>9. w[x] - v[x] = money
    BY <2>6, <2>7
  <2>10. SumOver(v, Symbols) = Earned(ids)
    BY <1>6, <2>2 DEF Books
  <2>11. Earned(ids \union {id}) = Earned(ids) + money
    BY <1>1, <1>6, <2>7, OneMoreRequest DEF CashOf
  <2> QED
    BY <2>3, <2>8, <2>9, <2>10, <2>11
<1> QED
  BY <1>1, <1>4, <1>6, <1>7, <1>9 DEF Books

\* The books are an account in every state.
THEOREM BooksHold == PipelineSpec => []Books
<1>1. Books /\ [PipelineNext]_pipelineVars => Books'
  <2> SUFFICES ASSUME Books, [PipelineNext]_pipelineVars PROVE Books'
    OBVIOUS
  <2>1. CASE UNCHANGED pnlTables
    BY <2>1 DEF pnlTables, Books, MoneyOf, PNL!PortfolioOf
  <2>2. ASSUME NEW id \in TradeEvents, Consume(id) PROVE Books'
    BY <2>2, BooksAfterEvent DEF Consume
  <2> QED
    BY <2>1, <2>2 DEF PipelineNext, LedgerStep, Fail, pipelineVars
<1> QED
  BY <1>1, InitBooks, PTL DEF PipelineSpec

\* The sums of the property as sums of weights.
ProfitOf   == [a \in Symbols |-> PNL!PortfolioOf(a).total_realized_pnl]
BookCostOf == [a \in Symbols |-> CostOf(PNL!PortfolioOf(a).lots)]

\* The two sums of SameTradesSameMoney, by their definition.
LEMMA BookSums ==
  /\ RealizedTotal = SumOver(ProfitOf, Symbols)
  /\ MapThenSumSet(LAMBDA a : CostOf(PNL!PortfolioOf(a).lots), Symbols)
       = SumOver(BookCostOf, Symbols)
<1> DEFINE S == Symbols
           v == ProfitOf
           w == BookCostOf
           TurnA(g) == [s \in SUBSET S |->
                          IF s = {} THEN 0
                          ELSE PNL!PortfolioOf(CHOOSE x \in s : TRUE).total_realized_pnl
                                 + g[s \ {CHOOSE x \in s : TRUE}]]
           TurnB(g) == [s \in SUBSET S |->
                          IF s = {} THEN 0
                          ELSE v[CHOOSE x \in s : TRUE] + g[s \ {CHOOSE x \in s : TRUE}]]
           TurnC(g) == [s \in SUBSET S |->
                          IF s = {} THEN 0
                          ELSE CostOf(PNL!PortfolioOf(CHOOSE x \in s : TRUE).lots)
                                 + g[s \ {CHOOSE x \in s : TRUE}]]
           TurnD(g) == [s \in SUBSET S |->
                          IF s = {} THEN 0
                          ELSE w[CHOOSE x \in s : TRUE] + g[s \ {CHOOSE x \in s : TRUE}]]
<1>1. \A s \in SUBSET S : s # {} => (CHOOSE x \in s : TRUE) \in Symbols
  OBVIOUS
<1>2. \A g : TurnA(g) = TurnB(g)
  BY <1>1 DEF ProfitOf
<1>3. \A g : TurnC(g) = TurnD(g)
  BY <1>1 DEF BookCostOf
<1>4. RealizedTotal = (CHOOSE g : g = TurnA(g))[S]
  BY DEF RealizedTotal, MapThenSumSet, MapThenFoldSet
<1>5. MapThenSumSet(LAMBDA a : CostOf(PNL!PortfolioOf(a).lots), S) = (CHOOSE g : g = TurnC(g))[S]
  BY DEF MapThenSumSet, MapThenFoldSet
<1>6. /\ SumOver(v, S) = (CHOOSE g : g = TurnB(g))[S]
      /\ SumOver(w, S) = (CHOOSE g : g = TurnD(g))[S]
  BY DEF SumOver, MapThenSumSet, MapThenFoldSet
<1> HIDE DEF TurnA, TurnB, TurnC, TurnD
<1>7. /\ (CHOOSE g : g = TurnA(g)) = (CHOOSE g : g = TurnB(g))
      /\ (CHOOSE g : g = TurnC(g)) = (CHOOSE g : g = TurnD(g))
  BY <1>2, <1>3
<1> QED
  BY <1>4, <1>5, <1>6, <1>7

\* The money of the books is their profit less their cost.
LEMMA BookMoney ==
  ASSUME Books
  PROVE  /\ SumOver(ProfitOf, Symbols) - SumOver(BookCostOf, Symbols) = SumOver(MoneyOf, Symbols)
         /\ SumOver(ProfitOf, Symbols) \in Int /\ SumOver(BookCostOf, Symbols) \in Int
<1>1. ASSUME NEW a \in Symbols
      PROVE  /\ MoneyOf[a] \in Int /\ BookCostOf[a] \in Int
             /\ ProfitOf[a] = MoneyOf[a] + BookCostOf[a]
  <2>1. PICK row : row = PNL!PortfolioOf(a) /\ SoundRow(row)
    BY DEF Books
  <2>2. PICK cost \in Int, profit \in Int :
          cost = CostOf(row.lots) /\ profit = row.total_realized_pnl
    BY <2>1, CostOfLots DEF SoundRow
  <2>3. MoneyOf[a] = profit - cost /\ BookCostOf[a] = cost /\ ProfitOf[a] = profit
    BY <2>1, <2>2 DEF MoneyOf, BookCostOf, ProfitOf, RowMoney
  <2> QED
    BY <2>3
<1>2. AddUpTo(ProfitOf, MoneyOf, BookCostOf, Symbols)
  BY <1>1 DEF AddUpTo
<1>3. /\ SumOver(ProfitOf, Symbols) = SumOver(MoneyOf, Symbols) + SumOver(BookCostOf, Symbols)
      /\ SumOver(MoneyOf, Symbols) \in Int /\ SumOver(BookCostOf, Symbols) \in Int
  BY <1>2, SumLinear, FiniteRequests
<1> QED
  BY <1>3

\* The same trades make the same money, in whatever order and from whatever replica
\* their events come (portfolio.rs of both services).
THEOREM SameMoney == PipelineSpec => []SameTradesSameMoney
<1>1. TypeOK /\ Books /\ Ledgers => SameTradesSameMoney
  <2> SUFFICES ASSUME TypeOK, Books, Ledgers, NEW r \in up \ poisoned,
                      processed_events = {id \in Requests : server[id] = r}
               PROVE  /\ \A a \in Symbols :
                           PNL!PortfolioOf(a).total_quantity
                             = PositionOf(portfolio[r], a).total_quantity
                      /\ RealizedTotal
                            - MapThenSumSet(LAMBDA a : CostOf(PNL!PortfolioOf(a).lots), Symbols)
                           = portfolio[r].total_realized_pnl
                               - MapThenSumSet(LAMBDA a : CostOf(PositionOf(portfolio[r], a).lots),
                                               Symbols)
    BY DEF SameTradesSameMoney
  <2>1. processed_events = AppliedBy(r) /\ Accounted(r)
    BY DEF AppliedBy, Ledgers, TypeOK
  <2>2. \A a \in Symbols :
          PNL!PortfolioOf(a).total_quantity = PositionOf(portfolio[r], a).total_quantity
    BY <2>1 DEF Books, Accounted
  <2>3. RealizedTotal - MapThenSumSet(LAMBDA a : CostOf(PNL!PortfolioOf(a).lots), Symbols)
          = Earned(AppliedBy(r))
    BY <2>1, BookSums, BookMoney DEF Books
  <2>4. MapThenSumSet(LAMBDA a : CostOf(PositionOf(portfolio[r], a).lots), Symbols)
          = TotalCost(portfolio[r], Symbols)
    <3> DEFINE p == portfolio[r]
    <3>1. MapThenSumSet(LAMBDA a : CostOf(PositionOf(p, a).lots), Symbols)
            = TotalCost(p, Symbols)
      BY CostIsSum
    <3> QED
      BY <3>1
  <2> QED
    BY <2>1, <2>2, <2>3, <2>4 DEF Accounted
<1> QED
  BY <1>1, BooksHold, Composition, TypeCorrect, LedgersHold, PTL

\* The property of one step and one asset of the list.
Reads(a) ==
  LET was == GetPnlSummary(a)
      now == GetPnlSummary(a)'
  IN  /\ now # NotFound
      /\ now # was =>
           \E id \in processed_events' \ processed_events :
             /\ BodyOf(id).asset = a
             /\ now.total_quantity - was.total_quantity
                  = IF BodyOf(id).side = "buy"
                    THEN BodyOf(id).quantity ELSE -BodyOf(id).quantity
      /\ now.code = "ok" => now.total_quantity = TotalOf(now.open_lots)

\* What get_pnl_summary makes of a row.
SummaryOf(row) == [code               |-> "ok",
                   total_realized_pnl |-> row.total_realized_pnl,
                   total_quantity     |-> row.total_quantity,
                   open_lots          |-> row.lots]

\* A summary shows what the row has, and is never not_found.
LEMMA SummaryFacts ==
  ASSUME NEW row
  PROVE  /\ SummaryOf(row) # NotFound
         /\ SummaryOf(row).total_quantity = row.total_quantity
         /\ SummaryOf(row).open_lots = row.lots
<1>1. PICK all : all = SummaryOf(row)
  OBVIOUS
<1>2. all.code = "ok" /\ NotFound.code = "not_found"
  BY <1>1 DEF SummaryOf, NotFound
<1>3. all.total_quantity = row.total_quantity /\ all.open_lots = row.lots
  BY <1>1 DEF SummaryOf
<1> QED
  BY <1>1, <1>2, <1>3

\* A step leaves an asset's summary alone, or changes it by one event.
LEMMA ReadsStep ==
  ASSUME Books, [PipelineNext]_pipelineVars, NEW a \in ListAssets
  PROVE  Reads(a)
<1>1. a \in DOMAIN portfolio_state /\ a \in Symbols
  BY DEF ListAssets, Books
<1>2. PICK row : row = PNL!PortfolioOf(a) /\ SoundRow(row)
  BY <1>1 DEF Books
<1>3. GetPnlSummary(a) = SummaryOf(row)
  BY <1>1, <1>2 DEF GetPnlSummary, SummaryOf, PNL!PortfolioOf
<1>4. CASE UNCHANGED <<processed_events, portfolio_state>>
  <2>1. GetPnlSummary(a)' = SummaryOf(row)
    BY <1>3, <1>4 DEF GetPnlSummary, NotFound
  <2> QED
    BY <1>2, <1>3, <2>1, SummaryFacts DEF Reads, SoundRow
<1>5. ASSUME NEW id \in TradeEvents, PNL!ApplyOnce(id) PROVE Reads(a)
  <2>1. PICK t : t = BodyOf(id) /\ IsTrade(t) /\ t.asset \in Symbols
    BY EventIsTrade
  <2>2. a \in DOMAIN portfolio_state' /\ id \in processed_events' \ processed_events
    BY <1>1, <1>5, EventSteps
  <2>3. PICK new : new = PNL!PortfolioOf(a)'
    OBVIOUS
  <2>4. GetPnlSummary(a)' = SummaryOf(new)
    BY <2>2, <2>3 DEF GetPnlSummary, SummaryOf, PNL!PortfolioOf
  <2>5. CASE a = t.asset
    <3>1. new = AP!Applied(row, id) /\ ~AP!Rejects(row, id)
      BY <1>2, <1>5, <2>1, <2>3, <2>5, EventSteps
    <3>2. SoundRow(new) /\ new.total_quantity = row.total_quantity + Delta(t)
      BY <1>2, <2>1, <3>1, RowMoves
    <3>3. row.total_quantity \in Int
      BY <1>2, LotSums DEF SoundRow
    <3>4. PICK q \in Int : q = t.quantity
      BY <2>1 DEF IsTrade
    <3>5. new.total_quantity - row.total_quantity
            = IF t.side = "buy" THEN t.quantity ELSE -t.quantity
      BY <3>2, <3>3, <3>4 DEF Delta
    <3> QED
      BY <1>3, <2>1, <2>2, <2>4, <2>5, <3>2, <3>5, SummaryFacts DEF Reads, SoundRow
  <2>6. CASE a # t.asset
    <3>1. new = row
      BY <1>2, <1>5, <2>1, <2>3, <2>6, EventSteps
    <3> QED
      BY <1>2, <1>3, <2>4, <3>1, SummaryFacts DEF Reads, SoundRow
  <2> QED
    BY <2>5, <2>6
<1> QED
  BY <1>4, <1>5 DEF PipelineNext, LedgerStep, Consume, Fail, pipelineVars, pnlTables

\* What two readings of pnl-grpc differ by is whole events, and an asset that was
\* listed is found from then on (pnl-grpc service.rs get_pnl_summary, list_assets).
THEOREM ReadsAreOfEvents == PipelineSpec => ReadsFollowEvents
<1>1. Books /\ [PipelineNext]_pipelineVars => [\A a \in ListAssets : Reads(a)]_pipelineVars
  BY ReadsStep
<1>2. PipelineSpec => [][\A a \in ListAssets : Reads(a)]_pipelineVars
  BY <1>1, BooksHold, PTL DEF PipelineSpec
<1> QED
  BY <1>2 DEF ReadsFollowEvents, Reads
-----------------------------------------------------------------------------
(* The same events in the same order. *)

\* The rows g[0], g[1], ... of an asset as its events are applied one after the
\* other, and none is rejected.
IsReplay(g, s) ==
  /\ g[0] = AP!EmptyPortfolio
  /\ \A i \in 1 .. Len(s) : ~AP!Rejects(g[i - 1], s[i]) /\ g[i] = AP!Applied(g[i - 1], s[i])

\* The row is what the events make of an empty one.
Replays(s, row) == \E g : IsReplay(g, s) /\ row = g[Len(s)]

\* Before the first event the row is empty.
LEMMA ReplayNothing == Replays(<< >>, AP!EmptyPortfolio)
<1> DEFINE g == [k \in {0} |-> AP!EmptyPortfolio]
<1>1. IsReplay(g, << >>) /\ AP!EmptyPortfolio = g[Len(<< >>)]
  BY DEF IsReplay
<1> QED
  BY <1>1 DEF Replays

\* One more event that the row admits.
LEMMA ReplayOneMore ==
  ASSUME NEW s \in Seq(TradeEvents), NEW row, Replays(s, row),
         NEW id \in TradeEvents, ~AP!Rejects(row, id)
  PROVE  Replays(Append(s, id), AP!Applied(row, id))
<1>1. PICK g : IsReplay(g, s) /\ row = g[Len(s)]
  BY DEF Replays
<1>2. PICK n \in Nat : n = Len(s)
  OBVIOUS
<1>3. PICK t : t = Append(s, id)
  OBVIOUS
<1>4. Len(t) = n + 1 /\ t[n + 1] = id /\ \A i \in 1 .. n : t[i] = s[i]
  BY <1>2, <1>3
<1>5. PICK h : h = [k \in 0 .. n + 1 |-> IF k = n + 1 THEN AP!Applied(row, id) ELSE g[k]]
  OBVIOUS
<1>6. h[n + 1] = AP!Applied(row, id) /\ \A k \in 0 .. n : h[k] = g[k]
  BY <1>5
<1>7. h[0] = AP!EmptyPortfolio
  BY <1>1, <1>6 DEF IsReplay
<1>8. ASSUME NEW i \in 1 .. n + 1
      PROVE  ~AP!Rejects(h[i - 1], t[i]) /\ h[i] = AP!Applied(h[i - 1], t[i])
  <2>1. CASE i \in 1 .. n
    <3>1. h[i] = g[i] /\ h[i - 1] = g[i - 1] /\ t[i] = s[i]
      BY <1>4, <1>6, <2>1
    <3>2. ~AP!Rejects(g[i - 1], s[i]) /\ g[i] = AP!Applied(g[i - 1], s[i])
      BY <1>1, <1>2, <2>1 DEF IsReplay
    <3> QED
      BY <3>1, <3>2
  <2>2. CASE i = n + 1
    <3>1. h[i] = AP!Applied(row, id) /\ h[i - 1] = g[n] /\ t[i] = id
      BY <1>4, <1>6, <2>2
    <3>2. h[i - 1] = row
      BY <1>1, <1>2, <3>1
    <3> QED
      BY <3>1, <3>2
  <2> QED
    BY <2>1, <2>2
<1>9. IsReplay(h, t)
  BY <1>4, <1>7, <1>8 DEF IsReplay
<1> QED
  BY <1>3, <1>4, <1>6, <1>9 DEF Replays

\* Two replays agree as far as their events do: the rows are a function of them.
LEMMA ReplayOfPrefix ==
  ASSUME NEW s \in Seq(TradeEvents), NEW t \in Seq(TradeEvents), IsPrefix(s, t),
         NEW row, Replays(s, row), NEW last, Replays(t, last)
  PROVE  IF Len(s) < Len(t) THEN ~AP!Rejects(row, t[Len(s) + 1]) ELSE s = t /\ row = last
<1>1. PICK g : IsReplay(g, s) /\ row = g[Len(s)]
  BY DEF Replays
<1>2. PICK h : IsReplay(h, t) /\ last = h[Len(t)]
  BY DEF Replays
<1>3. PICK n \in Nat, m \in Nat : n = Len(s) /\ m = Len(t)
  OBVIOUS
<1>4. n <= m /\ \A i \in 1 .. n : s[i] = t[i]
  <2>1. SubSeq(s, 1, n) = SubSeq(t, 1, n) /\ n <= m
    BY <1>3 DEF IsPrefix
  <2>2. ASSUME NEW i \in 1 .. n PROVE s[i] = t[i]
    <3>1. SubSeq(s, 1, n)[i] = s[i] /\ SubSeq(t, 1, n)[i] = t[i]
      BY <1>3, <2>1
    <3> QED
      BY <2>1, <3>1
  <2> QED
    BY <2>1, <2>2
<1>5. \A k \in 0 .. n : g[k] = h[k]
  <2> DEFINE T == {k \in 0 .. n : g[k] = h[k]}
  <2>1. 0 \in T
    BY <1>1, <1>2 DEF IsReplay
  <2>2. ASSUME NEW k \in 0 .. n - 1, k \in T PROVE k + 1 \in T
    <3>1. k + 1 \in 1 .. n /\ k + 1 \in 1 .. m /\ (k + 1) - 1 = k
      BY <1>4
    <3>2. g[k + 1] = AP!Applied(g[k], s[k + 1])
      BY <1>1, <1>3, <3>1 DEF IsReplay
    <3>3. h[k + 1] = AP!Applied(h[k], t[k + 1])
      BY <1>2, <1>3, <3>1 DEF IsReplay
    <3>4. s[k + 1] = t[k + 1] /\ g[k] = h[k]
      BY <1>4, <2>2, <3>1
    <3> QED
      BY <3>1, <3>2, <3>3, <3>4
  <2> HIDE DEF T
  <2>3. \A k \in 0 .. n : k \in T
    BY <2>1, <2>2, UpTo
  <2> QED
    BY <2>3 DEF T
<1>6. row = h[n]
  BY <1>1, <1>3, <1>5
<1>7. CASE n < m
  <2>1. n + 1 \in 1 .. m /\ (n + 1) - 1 = n
    BY <1>7
  <2>2. ~AP!Rejects(h[n], t[n + 1])
    BY <1>2, <1>3, <2>1 DEF IsReplay
  <2> QED
    BY <1>3, <1>6, <1>7, <2>2
<1>8. CASE ~(n < m)
  <2>1. n = m
    BY <1>4, <1>8
  <2>2. s = [i \in 1 .. n |-> s[i]] /\ t = [i \in 1 .. m |-> t[i]]
    BY <1>3
  <2>3. s = t
    BY <1>4, <2>1, <2>2
  <2> QED
    BY <1>2, <1>3, <1>6, <2>1, <2>3
<1> QED
  BY <1>7, <1>8

\* The snapshots of an asset are a sequence, and its row is what their events make.
BooksReplay ==
  /\ DOMAIN pnl_snapshots = Symbols
  /\ \A a \in Symbols : /\ \E S : pnl_snapshots[a] \in Seq(S)
                        /\ BookedOf(a) \in Seq(TradeEvents)
                        /\ Replays(BookedOf(a), PNL!PortfolioOf(a))

\* An event joins the snapshots of its asset, and no others.
LEMMA BooksReplayStep ==
  ASSUME BooksReplay, NEW id \in TradeEvents, PNL!ApplyOnce(id)
  PROVE  BooksReplay'
<1>1. PICK a \in Symbols : a = BodyOf(id).asset /\ a = AP!AssetOf(id)
  BY EventIsTrade
<1>2. PICK row : row = PNL!PortfolioOf(a)
  OBVIOUS
<1>3. /\ ~AP!Rejects(row, id)
      /\ PNL!PortfolioOf(a)' = AP!Applied(row, id)
      /\ \A b : b # a => PNL!PortfolioOf(b)' = PNL!PortfolioOf(b)
  BY <1>1, <1>2, EventSteps
<1>4. PICK snapshot : /\ snapshot.event_id = id
                      /\ pnl_snapshots' = [pnl_snapshots EXCEPT ![a] = Append(@, snapshot)]
  BY <1>1, <1>2 DEF PNL!ApplyOnce
<1>5. PICK S : pnl_snapshots[a] \in Seq(S)
  BY <1>1 DEF BooksReplay
<1>6. PICK old \in Seq(S) : old = pnl_snapshots[a]
  BY <1>5
<1>7. PICK new : new = Append(old, snapshot) /\ pnl_snapshots'[a] = new
  BY <1>4, <1>6 DEF BooksReplay
<1>8. PICK S1 : S1 = S \union {snapshot}
  OBVIOUS
<1>wider. snapshot \in S1 /\ old \in Seq(S1)
  <2>1. \A i \in 1 .. Len(old) : old[i] \in S1
    BY <1>8
  <2> QED
    BY <1>8, <2>1
<1>9. new \in Seq(S1) /\ Len(new) = Len(old) + 1 /\ new[Len(old) + 1] = snapshot
      /\ \A i \in 1 .. Len(old) : new[i] = old[i]
  BY <1>7, <1>wider
<1>10. PICK before \in Seq(TradeEvents) : before = BookedOf(a) /\ Replays(before, row)
  BY <1>1, <1>2 DEF BooksReplay
<1>11. DOMAIN old = 1 .. Len(old) /\ DOMAIN new = 1 .. Len(old) + 1 /\ Len(old) \in Nat
  BY <1>wider, <1>9
<1>12. before = [i \in 1 .. Len(old) |-> old[i].event_id] /\ Len(before) = Len(old)
  BY <1>6, <1>10, <1>11 DEF BookedOf
<1>13. BookedOf(a)' = [i \in 1 .. Len(old) + 1 |-> new[i].event_id]
  BY <1>7, <1>11 DEF BookedOf
<1>14. BookedOf(a)' = Append(before, id)
  <2>1. PICK after : after = Append(before, id)
    OBVIOUS
  <2>2. after \in Seq(TradeEvents) /\ Len(after) = Len(old) + 1
    BY <1>12, <2>1
  <2>3. /\ after[Len(old) + 1] = id
        /\ \A i \in 1 .. Len(old) : after[i] = old[i].event_id
    BY <1>11, <1>12, <2>1
  <2>4. \A i \in 1 .. Len(old) + 1 : new[i].event_id = after[i]
    BY <1>4, <1>9, <1>11, <2>3
  <2>5. after = [i \in 1 .. Len(old) + 1 |-> after[i]]
    BY <2>2
  <2> QED
    BY <1>13, <2>1, <2>4, <2>5
<1>15. Replays(Append(before, id), AP!Applied(row, id))
  BY <1>3, <1>10, ReplayOneMore
<1>16. ASSUME NEW b \in Symbols
       PROVE  /\ \E R : pnl_snapshots'[b] \in Seq(R)
              /\ BookedOf(b)' \in Seq(TradeEvents)
              /\ Replays(BookedOf(b)', PNL!PortfolioOf(b)')
  <2>1. CASE b = a
    <3>1. BookedOf(b)' \in Seq(TradeEvents)
      BY <1>10, <1>14, <2>1
    <3>2. \E R : pnl_snapshots'[b] \in Seq(R)
      BY <1>7, <1>9, <2>1
    <3> QED
      BY <1>3, <1>14, <1>15, <2>1, <3>1, <3>2
  <2>2. CASE b # a
    <3>1. pnl_snapshots'[b] = pnl_snapshots[b]
      BY <1>4, <2>2 DEF BooksReplay
    <3>2. BookedOf(b)' = BookedOf(b)
      BY <3>1 DEF BookedOf
    <3> QED
      BY <1>3, <2>2, <3>1, <3>2 DEF BooksReplay
  <2> QED
    BY <2>1, <2>2
<1>17. DOMAIN pnl_snapshots' = Symbols
  BY <1>4 DEF BooksReplay
<1> QED
  BY <1>16, <1>17 DEF BooksReplay, Replays, IsReplay
\* The sequence of the elements of a set that has one of them, or none.
LEMMA SmallSequences == SetToSeq({}) = << >> /\ \A x : SetToSeq({x}) = <<x>>
<1>1. SetToSeq({}) = << >>
  <2>1. Cardinality({}) = 0 /\ 1 .. 0 = {}
    BY FS_EmptySet
  <2>2. \A f \in [1 .. 0 -> {}] : f = << >> /\ IsInjective(f)
    BY DEF IsInjective
  <2>3. << >> \in [1 .. 0 -> {}]
    BY <2>1
  <2> QED
    BY <2>1, <2>2, <2>3 DEF SetToSeq
<1>2. ASSUME NEW x PROVE SetToSeq({x}) = <<x>>
  <2>1. Cardinality({x}) = 1
    BY FS_Singleton
  <2>2. \A f \in [1 .. 1 -> {x}] : f = <<x>> /\ IsInjective(f)
    <3> SUFFICES ASSUME NEW f \in [1 .. 1 -> {x}] PROVE f = <<x>> /\ IsInjective(f)
      OBVIOUS
    <3>1. f = [i \in 1 .. 1 |-> x] /\ <<x>> = [i \in 1 .. 1 |-> x]
      OBVIOUS
    <3>2. IsInjective(f)
      BY DEF IsInjective
    <3> QED
      BY <3>1, <3>2
  <2>3. <<x>> \in [1 .. 1 -> {x}]
    OBVIOUS
  <2> QED
    BY <2>1, <2>2, <2>3 DEF SetToSeq
<1> QED
  BY <1>1, <1>2

\* The rows that the books would have, had the events been booked as they were applied
\* to a memory: its history accounts for its positions and for its profit.
ProfitsOf(rows) == [a \in Symbols |-> rows[a].total_realized_pnl]

Remembers(p, history, rows) ==
  /\ \A a \in Symbols : Replays(history[a], rows[a]) /\ Mirrors(rows[a], p, a)
  /\ p.total_realized_pnl = SumOver(ProfitsOf(rows), Symbols)

\* There are such rows.
Remembered(p, history) == \E rows : Remembers(p, history, rows)

\* What is applied to a memory is in its history, in order, until a panic tears it.
Histories ==
  /\ booked \in [Replicas -> [Symbols -> Seq(TradeEvents)]]
  /\ \A r \in Replicas \ poisoned : Remembered(portfolio[r], booked[r])

\* A memory without a trade has no history.
LEMMA RemembersNothing ==
  Remembered(NewPortfolio, [a \in Symbols |-> << >>])
<1>1. PICK rows : rows = [a \in Symbols |-> AP!EmptyPortfolio]
  OBVIOUS
<1>2. PICK none : none = [a \in Symbols |-> << >>]
  OBVIOUS
<1>3. /\ NewPortfolio.positions = << >> /\ NewPortfolio.total_realized_pnl = 0
      /\ DOMAIN NewPortfolio.positions = {}
  BY DEF NewPortfolio
<1>4. \A a : PositionOf(NewPortfolio, a) = [lots |-> << >>, total_quantity |-> 0]
  BY <1>3 DEF PositionOf, NewPosition
<1>5. ASSUME NEW a \in Symbols
      PROVE  /\ Replays(none[a], rows[a]) /\ Mirrors(rows[a], NewPortfolio, a)
             /\ ProfitsOf(rows)[a] = 0
  <2>1. PICK row : row = AP!EmptyPortfolio /\ row = rows[a] /\ none[a] = << >>
    BY <1>1, <1>2
  <2>2. row = [lots |-> << >>, total_quantity |-> 0, total_realized_pnl |-> 0]
    BY <2>1 DEF AP!EmptyPortfolio
  <2>3. row.total_realized_pnl = 0
    BY <2>2
  <2>4. PICK position : position = PositionOf(NewPortfolio, a)
    OBVIOUS
  <2>5. position.lots = << >> /\ position.total_quantity = 0
    BY <1>4, <2>4
  <2>6. Mirrors(row, NewPortfolio, a)
    BY <2>2, <2>3, <2>4, <2>5 DEF Mirrors
  <2> QED
    BY <2>1, <2>3, <2>6, ReplayNothing DEF ProfitsOf
<1>6. SumOver(ProfitsOf(rows), Symbols) = 0
  BY <1>5, SumZero, FiniteRequests
<1> QED
  BY <1>2, <1>3, <1>5, <1>6 DEF Remembers, Remembered

\* The trade has joined the history of its asset.
Joined(history, id, longer) ==
  /\ DOMAIN longer = Symbols
  /\ \A a \in Symbols : longer[a] = IF a = BodyOf(id).asset
                                    THEN Append(history[a], id) ELSE history[a]

\* A trade that is applied joins the history of its asset.
LEMMA RemembersTrade ==
  ASSUME NEW p, SoundPortfolio(p), NEW history \in [Symbols -> Seq(TradeEvents)],
         Remembered(p, history),
         NEW id \in TradeEvents, ~Refuses(p, BodyOf(id)),
         NEW longer, Joined(history, id, longer)
  PROVE  Remembered(ApplyTrade(p, BodyOf(id)), longer)
<1>1. PICK t : t = BodyOf(id) /\ IsTrade(t) /\ t.asset \in Symbols
  BY EventIsTrade
<1>2. PICK x \in Symbols : x = t.asset
  BY <1>1
<1>r. PICK rows : Remembers(p, history, rows)
  BY DEF Remembered
<1>3. PICK row : row = rows[x] /\ Replays(history[x], row) /\ Mirrors(row, p, x)
  BY <1>r DEF Remembers
<1>4. PICK after : after = AP!Applied(row, id)
  OBVIOUS
<1>5. PICK q : q = ApplyTrade(p, t)
  OBVIOUS
<1>6. /\ ~AP!Rejects(row, id) /\ Mirrors(after, q, x)
      /\ after.total_realized_pnl = row.total_realized_pnl + Realized(p, t)
  BY <1>1, <1>2, <1>3, <1>4, <1>5, SameVerdict, SameTrade
<1>7. /\ SoundPortfolio(q) /\ Moves(p, t, q)
      /\ \A b : b # x => PositionOf(q, b) = PositionOf(p, b)
  BY <1>1, <1>2, <1>5, ApplyMoves
<1>8. Replays(Append(history[x], id), after)
  BY <1>3, <1>4, <1>6, ReplayOneMore
<1>9. PICK new : new = [a \in Symbols |-> IF a = x THEN after ELSE rows[a]]
  OBVIOUS
<1>10. ASSUME NEW a \in Symbols PROVE Replays(longer[a], new[a]) /\ Mirrors(new[a], q, a)
  <2>1. CASE a = x
    <3>1. longer[a] = Append(history[x], id) /\ new[a] = after
      BY <1>1, <1>2, <1>9, <2>1 DEF Joined
    <3> QED
      BY <1>6, <1>8, <2>1, <3>1
  <2>2. CASE a # x
    <3>1. longer[a] = history[a] /\ new[a] = rows[a]
      BY <1>1, <1>2, <1>9, <2>2 DEF Joined
    <3>2. Replays(history[a], rows[a]) /\ Mirrors(rows[a], p, a)
      BY <1>r DEF Remembers
    <3>3. PositionOf(q, a) = PositionOf(p, a)
      BY <1>7, <2>2
    <3> QED
      BY <3>1, <3>2, <3>3 DEF Mirrors
  <2> QED
    BY <2>1, <2>2
<1>11. q.total_realized_pnl = SumOver(ProfitsOf(new), Symbols)
  <2>1. PICK v, w : v = ProfitsOf(rows) /\ w = ProfitsOf(new)
    OBVIOUS
  <2>2. \A a \in Symbols : v[a] = rows[a].total_realized_pnl /\ v[a] \in Int
    BY <1>r, <2>1 DEF ProfitsOf, Remembers, Mirrors
  <2>3. \A a \in Symbols \ {x} : w[a] = v[a]
    BY <1>9, <2>1, <2>2 DEF ProfitsOf
  <2>4. PICK was \in Int, made \in Int : was = v[x] /\ made = Realized(p, t)
    BY <1>7, <2>2 DEF Moves
  <2>5. w[x] = was + made
    BY <1>3, <1>6, <1>9, <2>1, <2>2, <2>4 DEF ProfitsOf
  <2>6. w[x] \in Int
    BY <2>5
  <2>7. SumOver(w, Symbols) = SumOver(v, Symbols) + (w[x] - v[x]) /\ SumOver(v, Symbols) \in Int
    BY <2>2, <2>3, <2>6, SumChangeOne, FiniteRequests
  <2>8. w[x] - v[x] = made
    BY <2>4, <2>5
  <2>9. p.total_realized_pnl = SumOver(v, Symbols)
    BY <1>r, <2>1 DEF Remembers
  <2> QED
    BY <1>7, <2>1, <2>4, <2>7, <2>8, <2>9 DEF Moves
<1>12. Remembers(q, longer, new)
  BY <1>10, <1>11 DEF Remembers
<1> QED
  BY <1>1, <1>5, <1>12 DEF Remembered
\* Nothing has been booked or applied yet.
LEMMA InitHistories == PipelineInit => BooksReplay /\ Histories
<1> SUFFICES ASSUME PipelineInit PROVE BooksReplay /\ Histories
  OBVIOUS
<1>1. /\ portfolio_state = << >> /\ DOMAIN portfolio_state = {}
      /\ pnl_snapshots = [a \in Symbols |-> << >>]
      /\ portfolio = [r \in Replicas |-> NewPortfolio]
      /\ booked = [r \in Replicas |-> [a \in Symbols |-> << >>]]
  BY DEF PipelineInit, PNL!Init, Init
<1>2. ASSUME NEW a \in Symbols
      PROVE  /\ \E S : pnl_snapshots[a] \in Seq(S)
             /\ BookedOf(a) \in Seq(TradeEvents)
             /\ Replays(BookedOf(a), PNL!PortfolioOf(a))
  <2>1. pnl_snapshots[a] = << >> /\ DOMAIN << >> = {}
    BY <1>1
  <2>2. BookedOf(a) = << >>
    BY <2>1 DEF BookedOf
  <2>3. PNL!PortfolioOf(a) = AP!EmptyPortfolio
    BY <1>1 DEF PNL!PortfolioOf
  <2>4. << >> \in Seq({}) /\ << >> \in Seq(TradeEvents)
    OBVIOUS
  <2> QED
    BY <2>1, <2>2, <2>3, <2>4, ReplayNothing
<1>3. BooksReplay
  BY <1>1, <1>2 DEF BooksReplay
<1>4. booked \in [Replicas -> [Symbols -> Seq(TradeEvents)]]
  <2>1. << >> \in Seq(TradeEvents)
    OBVIOUS
  <2> QED
    BY <1>1, <2>1
<1>5. Histories
  BY <1>1, <1>4, RemembersNothing DEF Histories
<1> QED
  BY <1>3, <1>5

\* What a step of ledger-service does to the history of a replica: it is lost with
\* the memory, or stays, or has the trade added that the replica takes.
LEMMA HistoryStep ==
  ASSUME TypeOK, TypeOK', Ledgers, Histories, LedgerStep, NEW r \in Replicas
  PROVE  /\ booked'[r] \in [Symbols -> Seq(TradeEvents)]
         /\ r \notin poisoned' => Remembered(portfolio'[r], booked'[r])
<1>1. /\ booked[r] \in [Symbols -> Seq(TradeEvents)]
      /\ r \notin poisoned => Remembered(portfolio[r], booked[r])
  BY DEF Histories
<1>2. booked'[r] = [a \in Symbols |-> IF r \in up' THEN booked[r][a] \o SetToSeq(Taking(r, a))
                                                   ELSE << >>]
  BY DEF LedgerStep
<1>3. CASE r \notin up'
  <2>1. booked'[r] = [a \in Symbols |-> << >>]
    BY <1>2, <1>3
  <2>2. portfolio'[r] = NewPortfolio
    BY <1>3 DEF TypeOK
  <2>3. << >> \in Seq(TradeEvents)
    OBVIOUS
  <2> QED
    BY <2>1, <2>2, <2>3, RemembersNothing
<1>4. ASSUME r \in up', \A a \in Symbols : Taking(r, a) = {}
      PROVE  booked'[r] = booked[r]
  <2>1. ASSUME NEW a \in Symbols PROVE booked'[r][a] = booked[r][a]
    <3>1. booked'[r][a] = booked[r][a] \o << >>
      BY <1>2, <1>4, SmallSequences
    <3>2. booked[r][a] \in Seq(TradeEvents)
      BY <1>1
    <3> QED
      BY <3>1, <3>2
  <2> QED
    BY <1>1, <1>2, <1>4, <2>1
<1>5. server \in [Requests -> up \union {NoReplica}] /\ DOMAIN portfolio = Replicas
  BY DEF TypeOK
<1>6. ASSUME r \in up', NEW s \in Replicas, NEW id \in Requests, Takes(s, id)
      PROVE  /\ booked'[r] \in [Symbols -> Seq(TradeEvents)]
             /\ r \notin poisoned' => Remembered(portfolio'[r], booked'[r])
  <2>1. server' = [server EXCEPT ![id] = s] /\ server[id] = NoReplica /\ s # NoReplica
    BY <1>6, NoReplicaAssumption DEF Takes, Ledgers, ServedAreAdmitted
  <2>2. CASE r # s
    <3>1. portfolio'[r] = portfolio[r]
      BY <1>5, <1>6, <2>2 DEF Takes
    <3>2. \A a \in Symbols : Taking(r, a) = {}
      BY <1>5, <2>1, <2>2 DEF Taking
    <3>3. poisoned' = poisoned
      BY <1>6 DEF Takes
    <3> QED
      BY <1>1, <1>4, <1>6, <3>1, <3>2, <3>3
  <2>3. CASE r = s
    <3>1. PICK event \in TradeEvents : event = id
      BY <1>6 DEF Takes, TradeEvents
    <3>2. PICK p : p = portfolio[r] /\ SoundPortfolio(p) /\ ~Refuses(p, BodyOf(event))
      BY <1>6, <2>3, <3>1 DEF Takes, Ledgers, Accounted
    <3>p. r \notin poisoned
      BY <1>6, <2>3 DEF Takes
    <3>3. portfolio'[r] = ApplyTrade(p, BodyOf(event))
      BY <1>5, <1>6, <2>3, <3>1, <3>2 DEF Takes
    <3>4. PICK history \in [Symbols -> Seq(TradeEvents)] :
            history = booked[r] /\ Remembered(p, history)
      BY <1>1, <3>2, <3>p
    <3>5. PICK longer : longer = booked'[r]
      OBVIOUS
    <3>6. ASSUME NEW a \in Symbols
          PROVE  longer[a] = IF a = BodyOf(event).asset
                             THEN Append(history[a], event) ELSE history[a]
      <4>1. history[a] \in Seq(TradeEvents)
        OBVIOUS
      <4>2. longer[a] = history[a] \o SetToSeq(Taking(r, a))
        BY <1>2, <1>6, <3>4, <3>5
      <4>3. CASE a = BodyOf(event).asset
        <5>1. Taking(r, a) = {event}
          BY <1>5, <2>1, <2>3, <3>1, <4>3 DEF Taking
        <5>2. longer[a] = history[a] \o <<event>>
          BY <4>2, <5>1, SmallSequences
        <5>3. history[a] \o <<event>> = Append(history[a], event)
          BY <4>1
        <5> QED
          BY <4>3, <5>2, <5>3
      <4>4. CASE a # BodyOf(event).asset
        <5>1. Taking(r, a) = {}
          BY <1>5, <2>1, <2>3, <3>1, <4>4 DEF Taking
        <5>2. longer[a] = history[a] \o << >>
          BY <4>2, <5>1, SmallSequences
        <5>3. history[a] \o << >> = history[a]
          BY <4>1
        <5> QED
          BY <4>4, <5>2, <5>3
      <4> QED
        BY <4>3, <4>4
    <3>7. DOMAIN longer = Symbols
      BY <1>2, <3>5
    <3>j. Joined(history, event, longer)
      BY <3>6, <3>7 DEF Joined
    <3>8. Remembered(portfolio'[r], longer)
      BY <3>2, <3>3, <3>4, <3>j, RemembersTrade
    <3>9. longer \in [Symbols -> Seq(TradeEvents)]
      <4>1. longer = [a \in Symbols |-> longer[a]]
        BY <1>2, <3>5
      <4>2. ASSUME NEW a \in Symbols PROVE longer[a] \in Seq(TradeEvents)
        <5>1. history[a] \in Seq(TradeEvents)
          OBVIOUS
        <5>2. Append(history[a], event) \in Seq(TradeEvents)
          BY <5>1
        <5> QED
          BY <3>6, <5>1, <5>2
      <4> QED
        BY <4>1, <4>2
    <3> QED
      BY <3>5, <3>8, <3>9
  <2> QED
    BY <2>2, <2>3
<1>7. ASSUME r \in up', NEW s \in Replicas, Forgets(s)
      PROVE  booked'[r] = booked[r] /\ portfolio'[r] = portfolio[r]
             /\ (r \in poisoned <=> r \in poisoned')
  <2>1. r # s /\ portfolio'[r] = portfolio[r] /\ (r \in poisoned <=> r \in poisoned')
    BY <1>5, <1>7 DEF Forgets
  <2>2. \A a \in Symbols : Taking(r, a) = {}
    BY <1>7, NoReplicaAssumption DEF Forgets, Taking
  <2> QED
    BY <1>4, <1>7, <2>1, <2>2
<1>8. ASSUME r \in up', server' = server PROVE booked'[r] = booked[r]
  BY <1>4, <1>8 DEF Taking
<1>p. ASSUME r \in up', NEW s \in Replicas, Poisons(s)
      PROVE  booked'[r] = booked[r]
             /\ (r \notin poisoned' => r \notin poisoned /\ portfolio'[r] = portfolio[r])
  BY <1>8, <1>p DEF Poisons
<1>r. ASSUME r \in up', Rests
      PROVE  booked'[r] = booked[r] /\ portfolio'[r] = portfolio[r] /\ poisoned' = poisoned
  BY <1>8, <1>r DEF Rests
<1>9. [Next]_vars
  BY DEF LedgerStep
<1> QED
  BY <1>1, <1>3, <1>6, <1>7, <1>p, <1>r, <1>9, MemorySteps

\* The books replay their events and each memory its own, in every state.
THEOREM HistoriesHold == PipelineSpec => [](BooksReplay /\ Histories)
<1>1. /\ TypeOK /\ TypeOK' /\ Ledgers /\ BooksReplay /\ Histories /\ [PipelineNext]_pipelineVars
      => BooksReplay' /\ Histories'
  <2> SUFFICES ASSUME TypeOK, TypeOK', Ledgers, BooksReplay, Histories,
                      [PipelineNext]_pipelineVars
               PROVE  BooksReplay' /\ Histories'
    OBVIOUS
  <2>1. ASSUME UNCHANGED pnlTables PROVE BooksReplay'
    BY <2>1 DEF pnlTables, BooksReplay, BookedOf, PNL!PortfolioOf
  <2>2. ASSUME UNCHANGED <<vars, booked>> PROVE Histories'
    BY <2>2 DEF vars, replicaVars, Histories
  <2>3. CASE LedgerStep
    <3>1. BooksReplay'
      BY <2>1, <2>3 DEF LedgerStep
    <3>2. booked' = [r \in Replicas |-> booked'[r]]
      BY <2>3 DEF LedgerStep
    <3>3. Histories'
      BY <2>3, <3>2, HistoryStep DEF Histories
    <3> QED
      BY <3>1, <3>3
  <2>4. ASSUME NEW id \in TradeEvents, Consume(id) PROVE BooksReplay' /\ Histories'
    BY <2>2, <2>4, BooksReplayStep DEF Consume
  <2>5. ASSUME NEW id \in TradeEvents, Fail(id) PROVE BooksReplay' /\ Histories'
    BY <2>1, <2>2, <2>5 DEF Fail
  <2>6. CASE UNCHANGED pipelineVars
    BY <2>1, <2>2, <2>6 DEF pipelineVars
  <2> QED
    BY <2>3, <2>4, <2>5, <2>6 DEF PipelineNext
<1>2. PipelineSpec => []TypeOK /\ []Ledgers
  BY Composition, TypeCorrect, LedgersHold, PTL
<1> QED
  BY <1>1, <1>2, InitHistories, PTL DEF PipelineSpec

\* As long as the events of an asset are booked in the order of a memory none is
\* rejected, and once all are, the lots are the same, and the profit when that is so
\* of every asset (processor.rs process, portfolio.rs apply and apply_trade).
THEOREM SameOrderIsSame == PipelineSpec => []SameOrderSameBooks
<1>1. Books /\ Ledgers /\ TypeOK /\ BooksReplay /\ Histories => SameOrderSameBooks
  <2> SUFFICES ASSUME Books, Ledgers, TypeOK, BooksReplay, Histories,
                      NEW r \in up \ poisoned
               PROVE  /\ \A a \in Symbols : IsPrefix(BookedOf(a), booked[r][a]) =>
                           LET n   == Len(BookedOf(a))
                               row == PNL!PortfolioOf(a)
                           IN  IF n < Len(booked[r][a])
                               THEN ~AP!Rejects(row, booked[r][a][n + 1])
                               ELSE PositionOf(portfolio[r], a)
                                      = [lots |-> row.lots, total_quantity |-> row.total_quantity]
                      /\ (\A a \in Symbols : BookedOf(a) = booked[r][a])
                           => portfolio[r].total_realized_pnl = RealizedTotal
    BY DEF SameOrderSameBooks
  <2>1. r \in Replicas
    BY DEF TypeOK
  <2>2. PICK p : p = portfolio[r] /\ SoundPortfolio(p)
    BY <2>1 DEF Ledgers, Accounted
  <2>3. PICK rows : Remembers(p, booked[r], rows)
    BY <2>1, <2>2 DEF Histories, Remembered
  <2>4. ASSUME NEW a \in Symbols, IsPrefix(BookedOf(a), booked[r][a])
        PROVE  IF Len(BookedOf(a)) < Len(booked[r][a])
               THEN ~AP!Rejects(PNL!PortfolioOf(a), booked[r][a][Len(BookedOf(a)) + 1])
               ELSE PNL!PortfolioOf(a) = rows[a]
    <3>1. BookedOf(a) \in Seq(TradeEvents) /\ booked[r][a] \in Seq(TradeEvents)
      BY <2>1 DEF BooksReplay, Histories
    <3>2. Replays(BookedOf(a), PNL!PortfolioOf(a)) /\ Replays(booked[r][a], rows[a])
      BY <2>3 DEF BooksReplay, Remembers
    <3> QED
      BY <2>4, <3>1, <3>2, ReplayOfPrefix
  <2>5. ASSUME NEW a \in Symbols, PNL!PortfolioOf(a) = rows[a]
        PROVE  PositionOf(p, a) = [lots           |-> PNL!PortfolioOf(a).lots,
                                   total_quantity |-> PNL!PortfolioOf(a).total_quantity]
    <3>1. PICK row : row = rows[a] /\ Mirrors(row, p, a)
      BY <2>3 DEF Remembers
    <3>2. PICK position : position = PositionOf(p, a)
      OBVIOUS
    <3>3. row.lots = position.lots /\ row.total_quantity = position.total_quantity
      BY <3>1, <3>2 DEF Mirrors
    <3>4. position = [lots |-> position.lots, total_quantity |-> position.total_quantity]
      BY <2>2, <3>2, PositionIsSound DEF SoundPosition
    <3> QED
      BY <2>5, <3>1, <3>2, <3>3, <3>4
  <2>6. ASSUME \A a \in Symbols : BookedOf(a) = booked[r][a]
        PROVE  p.total_realized_pnl = RealizedTotal
    <3>1. ASSUME NEW a \in Symbols PROVE PNL!PortfolioOf(a) = rows[a]
      <4>1. PICK s \in Seq(TradeEvents) : s = BookedOf(a) /\ s = booked[r][a]
        BY <2>6 DEF BooksReplay
      <4>2. IsPrefix(s, s) /\ ~(Len(s) < Len(s))
        BY DEF IsPrefix
      <4> QED
        BY <2>4, <4>1, <4>2
    <3>2. ProfitOf = ProfitsOf(rows)
      BY <3>1 DEF ProfitOf, ProfitsOf
    <3> QED
      BY <2>3, <3>2, BookSums DEF Remembers
  <2> QED
    BY <2>2, <2>4, <2>5, <2>6
<1>2. PipelineSpec => []TypeOK /\ []Ledgers
  BY Composition, TypeCorrect, LedgersHold, PTL
<1> QED
  BY <1>1, <1>2, BooksHold, HistoriesHold, PTL
=============================================================================
