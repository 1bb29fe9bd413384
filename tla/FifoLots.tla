------------------------------ MODULE FifoLots ------------------------------
(***************************************************************************)
(* The FIFO lot queue that both services keep per asset:                   *)
(*   ledger-service  domain/portfolio.rs  Position                         *)
(*   pnl-consumer    domain/portfolio.rs  AssetPortfolio                   *)
(* A lot is a quantity bought at one price; the oldest lot is the head of  *)
(* the sequence.  Decimals are integers here: the services add, subtract   *)
(* and multiply exactly (rust_decimal), and what rounds is a NUMERIC       *)
(* column, which NumericColumns models.                                    *)
(*                                                                         *)
(* A definition whose comment begins with "Slip" is no part of the model:  *)
(* it is a bug that the definition after it does not have, kept to show    *)
(* that a property would notice.                                           *)
(***************************************************************************)
EXTENDS Integers, SequencesExt

Lot == [quantity : Nat \ {0}, cost_per_unit : Nat \ {0}]

\* The sum of f over the elements of a sequence.
SumOf(f(_), seq) == FoldLeft(LAMBDA acc, x : acc + f(x), 0, seq)

\* Slip: the cost of one unit of the lot.
LotUnitCost(lot) == lot.cost_per_unit

LotQuantity(lot) == lot.quantity
LotCost(lot)     == lot.quantity * lot.cost_per_unit

\* Sum of the quantities of the open lots.
TotalOf(lots) == SumOf(LotQuantity, lots)

\* What the open lots cost.
CostOf(lots) == SumOf(LotCost, lots)

\* Slip: a lot that is used up stays in the queue.
ConsumeLotKeepsEmpty(price, acc, lot) ==
  LET consumed == IF acc.left < lot.quantity THEN acc.left ELSE lot.quantity
  IN  [left    |-> acc.left - consumed,
       lots    |-> Append(acc.lots, [lot EXCEPT !.quantity = @ - consumed]),
       matches |-> Append(acc.matches, [quantity   |-> consumed,
                                        cost_basis |-> consumed * lot.cost_per_unit,
                                        proceeds   |-> consumed * price])]

(***************************************************************************)
(* One turn of the loop of consume_fifo.  acc.left is what is still to be  *)
(* sold, acc.lots the lots kept so far, acc.matches one RealizedPnL per    *)
(* lot touched.  Once nothing is left the loop is over, and the remaining  *)
(* lots keep their place in the queue.                                     *)
(***************************************************************************)
ConsumeLot(price, acc, lot) ==
  LET consumed == IF acc.left < lot.quantity THEN acc.left ELSE lot.quantity
      match    == [quantity   |-> consumed,
                   cost_basis |-> consumed * lot.cost_per_unit,
                   proceeds   |-> consumed * price]
  IN  IF acc.left = 0
      THEN [acc EXCEPT !.lots = Append(@, lot)]
      ELSE [left    |-> acc.left - consumed,
            lots    |-> IF consumed = lot.quantity
                        THEN acc.lots
                        ELSE Append(acc.lots, [lot EXCEPT !.quantity = @ - consumed]),
            matches |-> Append(acc.matches, match)]

\* Slip: the newest lot goes first.
ConsumeLifo(lots, quantity, price) ==
  LET sale == FoldLeft(LAMBDA acc, lot : ConsumeLot(price, acc, lot),
                       [left |-> quantity, lots |-> << >>, matches |-> << >>],
                       Reverse(lots))
  IN  [sale EXCEPT !.lots = Reverse(@)]

\* The whole loop.  A result with left > 0 stands for the panic of
\* expect("lot queue unexpectedly empty").
ConsumeFifo(lots, quantity, price) ==
  FoldLeft(LAMBDA acc, lot : ConsumeLot(price, acc, lot),
           [left |-> quantity, lots |-> << >>, matches |-> << >>],
           lots)

\* RealizedPnL.realized_pnl of one match, and its sum over a sell.
RealizedBy(match)       == match.proceeds - match.cost_basis
RealizedPnl(matches)    == SumOf(RealizedBy, matches)
=============================================================================
