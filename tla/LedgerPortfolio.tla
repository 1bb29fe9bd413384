-------------------------- MODULE LedgerPortfolio ---------------------------
(***************************************************************************)
(* The portfolio that the requests to one ledger-service process share     *)
(* behind a RwLock: create_trade takes the write lock for the whole of     *)
(* apply_trade, so each trade is one step.  A sum that a Decimal cannot    *)
(* hold panics in the middle of that step, and poisons the lock: whoever   *)
(* asks for it from then on panics too, to read or to write.               *)
(*                                                                         *)
(* cash is no part of the code: it is the money that the trades have       *)
(* moved, against which the profits and losses that the code reports are   *)
(* held.                                                                   *)
(***************************************************************************)
EXTENDS Positions, FiniteSets

CONSTANTS Assets, Quantities, Prices,
          MarketPrices, \* that GET /pnl is asked with: any Decimals
          MaxTrades     \* bound: trades in a behaviour

ASSUME TradesArePositive ==
  Quantities \subseteq Nat \ {0} /\ Prices \subseteq Nat \ {0} /\ Blank \notin Assets
ASSUME MarketPricesAreNumbers == MarketPrices \subseteq Int
ASSUME MaxTradesAssumption == MaxTrades \in Nat

VARIABLES portfolio,
          poisoned,  \* the lock's
          cash,      \* received for what was sold less spent on what was bought
          booked     \* trades applied

vars == <<portfolio, poisoned, cash, booked>>

\* The trades that get as far as the lock.
Trades == {t \in [asset : Assets, side : {"buy", "sell"},
                  quantity : Quantities, price : Prices] : NotionalFits(t)}

Init == portfolio = NewPortfolio /\ poisoned = FALSE /\ cash = 0 /\ booked = 0

Locked(t) == ~poisoned /\ booked < MaxTrades /\ ~Refuses(portfolio, t)

Book(t) ==
  /\ Locked(t)
  /\ SumsFit(portfolio, t)
  /\ portfolio' = ApplyTrade(portfolio, t)
  /\ booked' = booked + 1
  /\ UNCHANGED poisoned

Buy(t) ==
  /\ t.side = "buy"
  /\ Book(t)
  /\ cash' = cash - t.quantity * t.price

SellOff(t) ==
  /\ t.side = "sell"
  /\ Book(t)
  /\ cash' = cash + t.quantity * t.price

\* Slip: the guard is taken from a poisoned lock (PoisonError::into_inner).
OverflowIgnored(t) ==
  /\ Locked(t)
  /\ ~SumsFit(portfolio, t)
  /\ portfolio' = Torn(portfolio, t)
  /\ booked' = booked + 1
  /\ UNCHANGED <<poisoned, cash>>

Overflow(t) ==
  /\ Locked(t)
  /\ ~SumsFit(portfolio, t)
  /\ portfolio' = Torn(portfolio, t)
  /\ poisoned' = TRUE
  /\ booked' = booked + 1
  /\ UNCHANGED cash

Next == \E t \in Trades : Buy(t) \/ SellOff(t) \/ Overflow(t)

Spec == Init /\ [][Next]_vars

-----------------------------------------------------------------------------
(* Properties. *)

IsPosition(position) ==
  /\ position = [lots |-> position.lots, total_quantity |-> position.total_quantity]
  /\ position.lots \in Seq(Lot)
  /\ position.total_quantity \in 0 .. MaxDecimal

\* Lots are open: none is left in the queue with nothing in it.
TypeOK ==
  /\ DOMAIN portfolio = {"positions", "total_realized_pnl"}
  /\ DOMAIN portfolio.positions \subseteq Assets
  /\ \A a \in DOMAIN portfolio.positions : IsPosition(portfolio.positions[a])
  /\ Fits(portfolio.total_realized_pnl)
  /\ poisoned \in BOOLEAN
  /\ cash \in Int /\ booked \in 0 .. MaxTrades

\* "kept in sync for O(1) balance checks": the balance check of a sell looks at
\* total_quantity only, and the loop after it relies on the lots; a sell that is
\* let through never finds the queue empty (expect in consume_fifo).  The portfolio
\* that an overflow leaves behind is nobody's to read.
BalanceCheckSuffices ==
  ~poisoned =>
    /\ \A t \in Trades : t.side = "sell" /\ ~Refuses(portfolio, t)
         => Sell(portfolio, t).left = 0
    /\ \A a \in DOMAIN portfolio.positions :
         portfolio.positions[a].total_quantity = TotalOf(portfolio.positions[a].lots)

\* GET /pnl is right for every list of prices it accepts, also of prices that are
\* not positive, and also for one without the assets that were sold off (a request
\* names finitely many assets): what it
\* reports as realized and unrealized is the cash that came in, less what was
\* spent, plus the market value of what is still held.
PnlIsCashPlusHoldings ==
  ~poisoned => \A priced \in SUBSET Assets : \A prices \in [priced -> MarketPrices] :
    IsFiniteSet(priced) /\ CanPrice(portfolio, prices) =>
      GetPnl(portfolio, prices)
        = cash + MapThenSumSet(LAMBDA a : PositionOf(portfolio, a).total_quantity * prices[a],
                               priced)

\* Marking to market agrees with selling: selling the whole of a position would
\* realize its unrealized profit, which is a loss exactly below the average cost
\* that GET /portfolio shows; a position that it leaves out has nothing in it, and
\* GET /pnl needs no price for it.
MarkToMarket ==
  ~poisoned => LET shown == GetPortfolio(portfolio)
  IN  /\ DOMAIN shown = OpenAssets(portfolio)
      /\ \A a \in DOMAIN portfolio.positions : \A price \in Prices :
           LET position == portfolio.positions[a]
               profit   == UnrealizedPnl(position, price)
               sale     == ConsumeFifo(position.lots, position.total_quantity, price)
           IN  /\ RealizedPnl(sale.matches) = profit
               /\ IF a \in DOMAIN shown
                  THEN LET average == shown[a].average_cost
                       IN  profit < 0 <=> price * average[2] < average[1]
                  ELSE position.lots = << >> /\ profit = 0

\* The lots are a faithful compression of the queue of units.
UnitsOf(lots) ==
  FoldLeft(LAMBDA units, lot : units \o [i \in 1 .. lot.quantity |-> lot.cost_per_unit],
           << >>, lots)

UQ == INSTANCE UnitQueue
        WITH units    <- [a \in Assets |-> UnitsOf(PositionOf(portfolio, a).lots)],
             realized <- portfolio.total_realized_pnl
FirstInFirstOut == UQ!Init /\ [][poisoned' \/ [UQ!Next]_(UQ!vars)]_vars

\* create_trade.rs:67, get_portfolio.rs:26 and get_pnl.rs:29 assert it when they take
\* the lock: expect("portfolio lock poisoned").
LockNotPoisoned == ~poisoned
=============================================================================
