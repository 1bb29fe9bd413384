--------------------------- MODULE NumericColumns ---------------------------
(***************************************************************************)
(* What PostgreSQL keeps of a portfolio of pnl-consumer: the open lots go  *)
(* into a JSONB column digit by digit, the totals into NUMERIC(28, 10)     *)
(* columns, which round them; and the next event is applied to what was    *)
(* kept.  One asset; an event is one step, as ExactlyOnce says it is.      *)
(* Amounts are integers in a unit of which Scale make the last digit of a  *)
(* column, so that one that is no multiple of Scale has more digits than   *)
(* the column.  Prices are whole.                                          *)
(*                                                                         *)
(* An event that apply rejects leaves the tables alone, and so do one that *)
(* panics and one with a result that a column has no room for: no action   *)
(* stands for them.                                                        *)
(***************************************************************************)
EXTENDS AssetPortfolio, FiniteSets

CONSTANTS Scale,
          MaxNumeric,  \* the largest value of a column: 10^18 less its last digit
          MaxPrice     \* the largest price of a column, in the unit of prices

ASSUME ScaleAssumption == Scale \in Nat \ {0} /\ Scale % 2 = 0
ASSUME MaxNumericAssumption == MaxNumeric \in Nat /\ MaxPrice \in Nat

VARIABLES row,        \* the asset's row of portfolio_state
          snapshots,  \* its rows of pnl_snapshots, in the order of their commits
          processed   \* its events in processed_events

vars == <<row, snapshots, processed>>

-----------------------------------------------------------------------------
Magnitude(x) == IF x < 0 THEN -x ELSE x

\* Slip: the digits that do not fit are cut off.
NumericCut(x) ==
  IF x < 0 THEN -((-x \div Scale) * Scale) ELSE (x \div Scale) * Scale

\* Slip: what is too large becomes the largest value.
NumericCapped(x) ==
  LET digits == (Magnitude(x) + Scale \div 2) \div Scale
      capped == IF digits * Scale > MaxNumeric THEN MaxNumeric ELSE digits * Scale
  IN  IF x < 0 THEN -capped ELSE capped

\* What a NUMERIC column makes of a value: the nearest digit, a half away from 0.
Numeric(x) ==
  LET digits == (Magnitude(x) + Scale \div 2) \div Scale
  IN  IF x < 0 THEN -(digits * Scale) ELSE digits * Scale

Stored(portfolio) ==
  [portfolio EXCEPT !.total_quantity = Numeric(@), !.total_realized_pnl = Numeric(@)]

\* Slip: the total from before the event.
SnapshotOldTotal(e) ==
  [event_id           |-> e,
   realized_pnl       |-> Numeric(RealizedOf(row, e)),
   total_realized_pnl |-> Numeric(row.total_realized_pnl)]

Snapshot(e) ==
  [event_id           |-> e,
   realized_pnl       |-> Numeric(RealizedOf(row, e)),
   total_realized_pnl |-> Numeric(Applied(row, e).total_realized_pnl)]

\* The queue runs empty before the sell is done: expect("lot queue unexpectedly
\* empty").
Panics(e) == /\ ~Rejects(row, e)
             /\ TradeOf[e].side = "sell"
             /\ Sold(row, e).left > 0

\* No column overflows: neither of the row, nor of the snapshot, which has the trade
\* too.
HasRoom(e) ==
  /\ \A x \in {Stored(Applied(row, e)).total_quantity, Numeric(TradeOf[e].quantity),
               Snapshot(e).total_realized_pnl, Snapshot(e).realized_pnl} :
       Magnitude(x) <= MaxNumeric
  /\ TradeOf[e].price <= MaxPrice

Init == row = EmptyPortfolio /\ snapshots = << >> /\ processed = {}

\* Events come in any order: those of one asset are in several partitions.
Process(e) ==
  /\ e \notin processed
  /\ ~Rejects(row, e) /\ ~Panics(e) /\ HasRoom(e)
  /\ row'       = Stored(Applied(row, e))
  /\ snapshots' = Append(snapshots, Snapshot(e))
  /\ processed' = processed \union {e}

Next == \E e \in Events : Process(e)

Spec == Init /\ [][Next]_vars

-----------------------------------------------------------------------------
(* Properties. *)

\* What the row says is held and what its lots hold drift apart by no more than
\* half a digit per event: the rounded total is carried on from save to save.
DriftBounded ==
  2 * Magnitude(row.total_quantity - TotalOf(row.lots)) <= Scale * Cardinality(processed)

\* The audit trail adds up to within one digit per snapshot, and ends in the row.
TotalAt(i) == IF i = 0 THEN 0 ELSE snapshots[i].total_realized_pnl

AuditWithinADigit ==
  /\ \A i \in DOMAIN snapshots :
       Magnitude(TotalAt(i) - TotalAt(i - 1) - snapshots[i].realized_pnl) <= Scale
  /\ row.total_realized_pnl = TotalAt(Len(snapshots))

\* As long as no trade has more digits than the columns, nothing is rounded: the
\* total is what the lots hold and a sell that passes the balance check finds its
\* lots.
FitsColumns(e) == TradeOf[e].quantity % Scale = 0

ColumnDigitsAreExact ==
  (\A e \in processed : FitsColumns(e)) =>
    /\ row.total_quantity = TotalOf(row.lots)
    /\ \A e \in Events \ processed : ~Panics(e)

\* pnl-consumer portfolio.rs:90: "Safety: caller guarantees total_quantity >=
\* sell_qty", and so the queue of lots is never empty in the loop, whatever digits
\* the trades have (README.md:515: "ensuring no precision loss").
QueueCoversSells == \A e \in Events \ processed : ~Panics(e)
=============================================================================
