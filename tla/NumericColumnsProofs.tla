------------------------ MODULE NumericColumnsProofs ------------------------
(***************************************************************************)
(* What the rounding of the columns can do to a portfolio, for every scale *)
(* of the columns and every set of events: the total drifts from the lots  *)
(* by at most half a digit per event, the audit trail by at most a digit   *)
(* per snapshot, and not at all if the trades have no more digits than the *)
(* columns.                                                                *)
(***************************************************************************)
EXTENDS NumericColumns, AssetPortfolioProofs, FiniteSetTheorems, TLAPS

-----------------------------------------------------------------------------
(* Rounding. *)

\* A value with no more digits than the column.
Whole(x) == \E k \in Int : x = k * Scale

\* What PostgreSQL promises of a NUMERIC column.
Rounds(x, y) == /\ y \in Int /\ Whole(y)
                /\ 2 * Magnitude(y - x) <= Scale
                /\ Whole(x) => y = x

\* A digit has two halves.
LEMMA Halves == \E h \in Nat \ {0} : Scale = 2 * h /\ Scale \div 2 = h
BY ScaleAssumption

\* Division by the scale rounds down.
LEMMA DivisionRoundsDown ==
  ASSUME NEW m \in Nat
  PROVE  /\ m \div Scale \in Nat
         /\ (m \div Scale) * Scale <= m
         /\ m < (m \div Scale) * Scale + Scale
<1>1. PICK s \in Nat \ {0} : s = Scale
  BY ScaleAssumption
<1>2. m \div s \in Nat /\ m % s \in 0 .. s - 1 /\ m = s * (m \div s) + (m % s)
  BY <1>1
<1>3. PICK d \in Nat : d = m \div s
  BY <1>2
<1>4. s * d = d * s /\ d * s \in Int
  OBVIOUS
<1> QED
  BY <1>1, <1>2, <1>3, <1>4

\* The nearest digit of a value is no further away than half a digit.
LEMMA NearestDigit ==
  ASSUME NEW m \in Nat
  PROVE  \E d \in Nat :
           /\ d = (m + Scale \div 2) \div Scale /\ d * Scale \in Nat
           /\ 2 * (d * Scale - m) <= Scale /\ 2 * (m - d * Scale) <= Scale
<1>1. PICK h \in Nat \ {0} : Scale = 2 * h /\ Scale \div 2 = h
  BY Halves
<1>2. m + h \in Nat
  OBVIOUS
<1>3. PICK d \in Nat : d = (m + h) \div Scale
  BY <1>2, DivisionRoundsDown
<1>4. d * Scale <= m + h /\ m + h < d * Scale + Scale
  BY <1>2, <1>3, DivisionRoundsDown
<1>5. PICK p \in Nat : p = d * Scale
  BY ScaleAssumption
<1>6. 2 * (p - m) <= Scale /\ 2 * (m - p) <= Scale
  BY <1>1, <1>4, <1>5
<1> QED
  BY <1>1, <1>3, <1>5, <1>6

\* A value with no more digits is its own nearest digit.
LEMMA WholeIsNearest ==
  ASSUME NEW k \in Nat
  PROVE  (k * Scale + Scale \div 2) \div Scale = k
<1>1. PICK h \in Nat \ {0} : Scale = 2 * h /\ Scale \div 2 = h
  BY Halves
<1>2. PICK s \in Nat \ {0} : s = Scale /\ h < s
  BY <1>1
<1>3. k * s + h \in Nat
  OBVIOUS
<1>4. PICK d \in Nat : d = (k * s + h) \div s
  BY <1>2, <1>3, DivisionRoundsDown
<1>5. d * s <= k * s + h /\ k * s + h < d * s + s
  BY <1>2, <1>3, <1>4, DivisionRoundsDown
<1>6. ~(d >= k + 1)
  <2> SUFFICES ASSUME d >= k + 1 PROVE FALSE
    OBVIOUS
  <2>1. PICK j \in Nat : d = (k + 1) + j
    <3>1. d - (k + 1) \in Nat /\ d = (k + 1) + (d - (k + 1))
      OBVIOUS
    <3> QED
      BY <3>1
  <2>2. d * s = (k * s + s) + j * s /\ j * s \in Nat /\ k * s \in Nat
    BY <2>1
  <2> QED
    BY <1>2, <1>5, <2>2
<1>7. ~(k >= d + 1)
  <2> SUFFICES ASSUME k >= d + 1 PROVE FALSE
    OBVIOUS
  <2>1. PICK j \in Nat : k = (d + 1) + j
    <3>1. k - (d + 1) \in Nat /\ k = (d + 1) + (k - (d + 1))
      OBVIOUS
    <3> QED
      BY <3>1
  <2>2. k * s = (d * s + s) + j * s /\ j * s \in Nat /\ d * s \in Nat
    BY <2>1
  <2> QED
    BY <1>2, <1>5, <2>2
<1>8. d = k
  BY <1>6, <1>7
<1> QED
  BY <1>1, <1>2, <1>4, <1>8

\* So the columns round to the nearest digit (NUMERIC(28, 10) in
\* 0001_create_pnl_tables.sql).
LEMMA NumericRounds ==
  ASSUME NEW x \in Int
  PROVE  Rounds(x, Numeric(x))
<1>1. PICK m \in Nat : m = Magnitude(x) /\ (x < 0 => x = -m) /\ (~(x < 0) => x = m)
  BY DEF Magnitude
<1>2. PICK d \in Nat : /\ d = (m + Scale \div 2) \div Scale /\ d * Scale \in Nat
                       /\ 2 * (d * Scale - m) <= Scale /\ 2 * (m - d * Scale) <= Scale
  BY NearestDigit
<1>3. PICK p \in Nat : p = d * Scale
  BY <1>2
<1>4. Numeric(x) = IF x < 0 THEN -p ELSE p
  BY <1>1, <1>2, <1>3 DEF Numeric
<1>5. 2 * Magnitude(Numeric(x) - x) <= Scale
  BY <1>1, <1>2, <1>3, <1>4, ScaleAssumption DEF Magnitude
<1>6. Whole(Numeric(x))
  <2>1. p = d * Scale /\ -p = (-d) * Scale
    BY <1>3, ScaleAssumption
  <2> QED
    BY <1>4, <2>1 DEF Whole
<1>7. ASSUME Whole(x) PROVE Numeric(x) = x
  <2>1. PICK k \in Int : x = k * Scale
    BY <1>7 DEF Whole
  <2>2. \E j \in Nat : m = j * Scale
    <3>1. CASE x < 0
      <4>1. m = (-k) * Scale
        BY <1>1, <2>1, <3>1, ScaleAssumption
      <4>2. ~(k > 0)
        BY <2>1, <3>1, ScaleAssumption
      <4> QED
        BY <4>1, <4>2
    <3>2. CASE ~(x < 0)
      <4>1. m = k * Scale
        BY <1>1, <2>1, <3>2
      <4>2. ~(k < 0)
        BY <2>1, <3>2, ScaleAssumption
      <4> QED
        BY <4>1, <4>2
    <3> QED
      BY <3>1, <3>2
  <2>3. PICK j \in Nat : m = j * Scale
    BY <2>2
  <2>4. d = j
    BY <1>2, <2>3, WholeIsNearest
  <2>5. p = m
    BY <1>3, <2>3, <2>4
  <2> QED
    BY <1>1, <1>4, <2>5
<1>8. Numeric(x) \in Int
  BY <1>4
<1> QED
  BY <1>5, <1>6, <1>7, <1>8 DEF Rounds

\* Values with no more digits than the column, added up, have no more either.
LEMMA WholeSums ==
  ASSUME NEW x \in Int, NEW y \in Int, Whole(x), Whole(y)
  PROVE  Whole(x + y) /\ Whole(x - y) /\ Whole(-y)
<1>1. PICK i \in Int : x = i * Scale
  BY DEF Whole
<1>2. PICK j \in Int : y = j * Scale
  BY DEF Whole
<1>3. PICK s \in Int : s = Scale
  BY ScaleAssumption
<1>4. /\ i * s + j * s = (i + j) * s /\ i * s - j * s = (i - j) * s
      /\ -(j * s) = (-j) * s
  OBVIOUS
<1>5. /\ x + y = (i + j) * Scale /\ x - y = (i - j) * Scale
      /\ -y = (-j) * Scale
  BY <1>1, <1>2, <1>3, <1>4
<1>6. i + j \in Int /\ i - j \in Int /\ -j \in Int
  OBVIOUS
<1>7. Whole(x + y)
  BY <1>5, <1>6 DEF Whole
<1>8. Whole(x - y)
  BY <1>5, <1>6 DEF Whole
<1>9. Whole(-y)
  BY <1>5, <1>6 DEF Whole
<1> QED
  BY <1>7, <1>8, <1>9

\* A trade with no more digits than the columns.
LEMMA FittingTrade ==
  ASSUME NEW e \in Events, FitsColumns(e)
  PROVE  Whole(Delta(e))
<1>1. PICK q \in Nat : q = TradeOf[e].quantity
  BY EventFacts
<1>2. PICK s \in Nat \ {0} : s = Scale
  BY ScaleAssumption
<1>3. q % s = 0
  BY <1>1, <1>2 DEF FitsColumns
<1>4. q \div s \in Nat /\ q = s * (q \div s)
  BY <1>3
<1>5. PICK d \in Nat : q = s * d
  BY <1>4
<1>6. q = d * s /\ -q = (-d) * s
  BY <1>5
<1> QED
  BY <1>1, <1>2, <1>6 DEF Delta, Whole

-----------------------------------------------------------------------------
(* The invariant: the row is a portfolio, though its total need not be what its  *)
(* lots hold, and the last snapshot has the row's total.                         *)

\* A snapshot as the table keeps it.
SnapshotRow == [event_id : Events, realized_pnl : Int, total_realized_pnl : Int]

\* As long as only trades without too many digits were booked, the row is exact.
Exact == (\A e \in processed : FitsColumns(e)) => Covered(row) /\ Whole(row.total_quantity)

\* The inductive invariant behind the three properties.
IInv == /\ Held(row)
        /\ processed \subseteq Events /\ IsFiniteSet(processed)
        /\ snapshots \in Seq(SnapshotRow)
        /\ DriftBounded
        /\ AuditWithinADigit
        /\ Exact

\* The first row of an asset, to which no event has been applied.
LEMMA InitIInv == Init => IInv
<1> SUFFICES ASSUME Init PROVE IInv
  OBVIOUS
<1>1. Covered(row) /\ row.total_quantity = 0 /\ row.total_realized_pnl = 0
  BY EmptyIsCovered DEF Init, EmptyPortfolio
<1>2. processed = {} /\ snapshots = << >> /\ Len(snapshots) = 0 /\ DOMAIN snapshots = {}
  BY DEF Init
<1>3. IsFiniteSet(processed) /\ Cardinality(processed) = 0
  BY <1>2, FS_EmptySet
<1>4. DriftBounded
  <2>1. row.total_quantity - TotalOf(row.lots) = 0
    BY <1>1 DEF Covered
  <2>2. Scale * 0 = 0 /\ Magnitude(0) = 0
    BY ScaleAssumption DEF Magnitude
  <2> QED
    BY <1>3, <2>1, <2>2 DEF DriftBounded
<1>5. AuditWithinADigit
  BY <1>1, <1>2 DEF AuditWithinADigit, TotalAt
<1>6. Exact
  <2>1. 0 = 0 * Scale
    BY ScaleAssumption
  <2> QED
    BY <1>1, <2>1 DEF Exact, Whole
<1> QED
  BY <1>1, <1>2, <1>3, <1>4, <1>5, <1>6 DEF IInv, Covered

\* What a processed event does to the portfolio before it is rounded.
LEMMA ProcessAddsUp ==
  ASSUME Held(row), NEW e \in Events, ~Rejects(row, e), ~Panics(e)
  PROVE  /\ Held(Applied(row, e)) /\ RealizedOf(row, e) \in Int
         /\ Applied(row, e).total_quantity = row.total_quantity + Delta(e)
         /\ TotalOf(Applied(row, e).lots) = TotalOf(row.lots) + Delta(e)
         /\ Applied(row, e).total_realized_pnl = row.total_realized_pnl + RealizedOf(row, e)
<1>1. TradeOf[e].side # "other"
  BY DEF Rejects
<1>2. ASSUME TradeOf[e].side = "sell" PROVE Sold(row, e).left = 0
  <2>1. PICK q \in Nat \ {0}, price \in Nat \ {0} :
          q = TradeOf[e].quantity /\ price = TradeOf[e].price
    BY EventFacts
  <2>2. Sold(row, e) \in Sale
    BY <2>1, ConsumeOneMore DEF Sold, Held
  <2>3. Sold(row, e).left \in Nat /\ ~(Sold(row, e).left > 0)
    BY <1>2, <2>2 DEF Sale, Panics
  <2> QED
    BY <2>3
<1> QED
  BY <1>1, <1>2, AppliedAddsUp

\* And after: the totals are rounded, the lots are not (EventProcessor::process,
\* save_portfolio, save_snapshot).
LEMMA StoredRow ==
  ASSUME Held(row), NEW e \in Events, Process(e)
  PROVE  /\ row' = [lots               |-> Applied(row, e).lots,
                    total_quantity     |-> Numeric(row.total_quantity + Delta(e)),
                    total_realized_pnl |-> Numeric(row.total_realized_pnl
                                                     + RealizedOf(row, e))]
         /\ Applied(row, e).lots \in Seq(Lot) /\ RealizedOf(row, e) \in Int
         /\ TotalOf(row'.lots) = TotalOf(row.lots) + Delta(e)
         /\ Held(row')
<1>1. ~Rejects(row, e) /\ ~Panics(e) /\ row' = Stored(Applied(row, e))
  BY DEF Process
<1>2. /\ Held(Applied(row, e)) /\ RealizedOf(row, e) \in Int
      /\ Applied(row, e).total_quantity = row.total_quantity + Delta(e)
      /\ TotalOf(Applied(row, e).lots) = TotalOf(row.lots) + Delta(e)
      /\ Applied(row, e).total_realized_pnl = row.total_realized_pnl + RealizedOf(row, e)
  BY <1>1, ProcessAddsUp
<1>3. Stored(Applied(row, e)) =
        [lots               |-> Applied(row, e).lots,
         total_quantity     |-> Numeric(Applied(row, e).total_quantity),
         total_realized_pnl |-> Numeric(Applied(row, e).total_realized_pnl)]
  <2>1. PICK lots \in Seq(Lot), total \in Int, realized \in Int :
          /\ lots = Applied(row, e).lots
          /\ total = Applied(row, e).total_quantity
          /\ realized = Applied(row, e).total_realized_pnl
    <3>1. /\ Applied(row, e).lots \in Seq(Lot)
          /\ Applied(row, e).total_quantity \in Int
          /\ Applied(row, e).total_realized_pnl \in Int
      BY <1>2 DEF Held
    <3> QED
      BY <3>1
  <2>2. Applied(row, e) = [lots |-> lots, total_quantity |-> total, total_realized_pnl |-> realized]
    BY <1>2, <2>1 DEF Held
  <2>3. PICK old : old = [lots |-> lots, total_quantity |-> total, total_realized_pnl |-> realized]
    OBVIOUS
  <2>4. Stored(old) = [[old EXCEPT !.total_quantity = Numeric(total)]
                          EXCEPT !.total_realized_pnl = Numeric(realized)]
    BY <2>3 DEF Stored
  <2>5. [old EXCEPT !.total_quantity = Numeric(total)]
          = [lots |-> lots, total_quantity |-> Numeric(total), total_realized_pnl |-> realized]
    BY <2>3
  <2>6. Stored(old) = [lots |-> lots, total_quantity |-> Numeric(total),
                       total_realized_pnl |-> Numeric(realized)]
    BY <2>4, <2>5
  <2> QED
    BY <2>1, <2>2, <2>3, <2>6
<1>4. /\ row.total_quantity + Delta(e) \in Int
      /\ row.total_realized_pnl + RealizedOf(row, e) \in Int
  BY <1>2, EventFacts DEF Held
<1>5. /\ Numeric(row.total_quantity + Delta(e)) \in Int
      /\ Numeric(row.total_realized_pnl + RealizedOf(row, e)) \in Int
  BY <1>4, NumericRounds DEF Rounds
<1> QED
  BY <1>1, <1>2, <1>3, <1>5 DEF Held

\* An event adds at most the half digit that its rounding costs.
LEMMA DriftStep ==
  ASSUME IInv, NEW e \in Events, Process(e)
  PROVE  DriftBounded'
<1>1. /\ row'.total_quantity = Numeric(row.total_quantity + Delta(e))
      /\ TotalOf(row'.lots) = TotalOf(row.lots) + Delta(e)
  BY StoredRow DEF IInv
<1>2. PICK total \in Int, held \in Int, delta \in Int :
        total = row.total_quantity /\ held = TotalOf(row.lots) /\ delta = Delta(e)
  BY LotSums, EventFacts DEF IInv, Held
<1>3. PICK new \in Int : new = Numeric(total + delta)
  BY NumericRounds DEF Rounds
<1>4. 2 * Magnitude(new - (total + delta)) <= Scale
  BY <1>3, NumericRounds DEF Rounds
<1>5. PICK n \in Nat : n = Cardinality(processed) /\ Cardinality(processed') = n + 1
  BY FS_CardinalityType, FS_AddElement DEF IInv, Process
<1>6. PICK bound \in Int, s \in Int : bound = Scale * n /\ s = Scale
  BY ScaleAssumption
<1>7. Scale * (n + 1) = bound + s
  BY <1>6, ScaleAssumption
<1>8. 2 * Magnitude(total - held) <= bound
  BY <1>2, <1>5, <1>6 DEF IInv, DriftBounded
<1>9. 2 * Magnitude(new - (held + delta)) <= bound + s
  BY <1>4, <1>6, <1>8 DEF Magnitude
<1> QED
  BY <1>1, <1>2, <1>3, <1>5, <1>7, <1>9 DEF DriftBounded

\* A snapshot rounds what the event realized and what has been realized so far, and
\* the row rounds the latter the same way.
LEMMA AuditStep ==
  ASSUME IInv, NEW e \in Events, Process(e)
  PROVE  AuditWithinADigit' /\ snapshots' \in Seq(SnapshotRow)
<1>1. PICK was \in Int, made \in Int : was = row.total_realized_pnl /\ made = RealizedOf(row, e)
  BY StoredRow DEF IInv, Held
<1>2. PICK total \in Int, realized \in Int : total = Numeric(was + made) /\ realized = Numeric(made)
  BY NumericRounds DEF Rounds
<1>3. 2 * Magnitude(total - (was + made)) <= Scale /\ 2 * Magnitude(realized - made) <= Scale
  BY <1>2, NumericRounds DEF Rounds
<1>4. Magnitude(total - was - realized) <= Scale
  <2>1. PICK s \in Int : s = Scale
    BY ScaleAssumption
  <2> QED
    BY <1>3, <2>1 DEF Magnitude
<1>5. Applied(row, e).total_realized_pnl = was + made
  <2>1. ~Rejects(row, e) /\ ~Panics(e)
    BY DEF Process
  <2> QED
    BY <1>1, <2>1, ProcessAddsUp DEF IInv
<1>6. PICK new \in SnapshotRow :
        /\ new = Snapshot(e)
        /\ new.realized_pnl = realized /\ new.total_realized_pnl = total
  <2>1. Snapshot(e) = [event_id           |-> e,
                       realized_pnl       |-> realized,
                       total_realized_pnl |-> total]
    BY <1>1, <1>2, <1>5 DEF Snapshot
  <2> QED
    BY <2>1 DEF SnapshotRow
<1>7. snapshots' = Append(snapshots, new)
  BY <1>6 DEF Process
<1>8. PICK n \in Nat : n = Len(snapshots)
  BY DEF IInv
<1>9. /\ snapshots' \in Seq(SnapshotRow) /\ Len(snapshots') = n + 1
      /\ DOMAIN snapshots' = 1 .. n + 1 /\ DOMAIN snapshots = 1 .. n
      /\ snapshots'[n + 1] = new /\ \A i \in 1 .. n : snapshots'[i] = snapshots[i]
  BY <1>7, <1>8 DEF IInv
<1>10. TotalAt(n + 1)' = total /\ TotalAt(n) = was
  BY <1>1, <1>6, <1>8, <1>9 DEF TotalAt, IInv, AuditWithinADigit
<1>11. \A i \in 0 .. n : TotalAt(i)' = TotalAt(i)
  BY <1>9 DEF TotalAt
<1>12. row'.total_realized_pnl = total
  BY <1>1, <1>2, StoredRow DEF IInv
<1>13. ASSUME NEW i \in 1 .. n + 1
       PROVE  Magnitude(TotalAt(i)' - TotalAt(i - 1)' - snapshots'[i].realized_pnl) <= Scale
  <2>1. CASE i = n + 1
    <3>1. i - 1 = n /\ n \in 0 .. n
      BY <2>1
    <3>2. TotalAt(i - 1)' = was /\ TotalAt(i)' = total /\ snapshots'[i].realized_pnl = realized
      BY <1>6, <1>9, <1>10, <1>11, <2>1, <3>1
    <3> QED
      BY <1>4, <3>2
  <2>2. CASE i # n + 1
    <3>1. i \in 1 .. n /\ i \in 0 .. n /\ i - 1 \in 0 .. n
      BY <2>2
    <3>2. /\ TotalAt(i)' = TotalAt(i) /\ TotalAt(i - 1)' = TotalAt(i - 1)
          /\ snapshots'[i] = snapshots[i]
      BY <1>9, <1>11, <3>1
    <3> QED
      BY <1>9, <3>1, <3>2 DEF IInv, AuditWithinADigit
  <2> QED
    BY <2>1, <2>2
<1> QED
  BY <1>9, <1>10, <1>12, <1>13 DEF AuditWithinADigit

\* Nothing is rounded of a total with no more digits than the column.
LEMMA ExactStep ==
  ASSUME IInv, NEW e \in Events, Process(e)
  PROVE  Exact'
<1> SUFFICES ASSUME \A x \in processed' : FitsColumns(x)
             PROVE  Covered(row)' /\ Whole(row'.total_quantity)
  BY DEF Exact
<1>1. FitsColumns(e) /\ \A x \in processed : FitsColumns(x)
  BY DEF Process
<1>2. Covered(row) /\ Whole(row.total_quantity)
  BY <1>1 DEF IInv, Exact
<1>3. PICK total \in Int, delta \in Int : total = row.total_quantity /\ delta = Delta(e)
  BY EventFacts DEF IInv, Held
<1>4. Whole(total + delta)
  BY <1>1, <1>2, <1>3, FittingTrade, WholeSums
<1>5. Numeric(total + delta) = total + delta
  BY <1>4, NumericRounds DEF Rounds
<1>6. /\ row'.total_quantity = total + delta /\ Held(row')
      /\ TotalOf(row'.lots) = TotalOf(row.lots) + delta
  BY <1>3, <1>5, StoredRow DEF IInv
<1>7. TotalOf(row.lots) = total
  BY <1>2, <1>3 DEF Covered
<1> QED
  BY <1>4, <1>6, <1>7 DEF Covered

\* The invariant holds in every state.
THEOREM Invariant == Spec => []IInv
<1>1. IInv /\ [Next]_vars => IInv'
  <2> SUFFICES ASSUME IInv, [Next]_vars PROVE IInv'
    OBVIOUS
  <2>1. ASSUME NEW e \in Events, Process(e) PROVE IInv'
    <3>1. Held(row)'
      BY <2>1, StoredRow DEF IInv
    <3>2. processed' \subseteq Events /\ IsFiniteSet(processed')
      BY <2>1, FS_AddElement DEF IInv, Process
    <3> QED
      BY <2>1, <3>1, <3>2, DriftStep, AuditStep, ExactStep DEF IInv
  <2>2. CASE UNCHANGED vars
    BY <2>2 DEF vars, IInv, Held, DriftBounded, AuditWithinADigit, TotalAt, Exact, Covered
  <2> QED
    BY <2>1, <2>2 DEF Next
<1> QED
  BY <1>1, InitIInv, PTL DEF Spec

-----------------------------------------------------------------------------
(* The properties. *)

\* The total of a row and what its lots hold differ by at most half a digit of the
\* column for each event that has been saved.
THEOREM DriftIsBounded == Spec => []DriftBounded
<1>1. IInv => DriftBounded
  BY DEF IInv
<1> QED
  BY <1>1, Invariant, PTL

\* Each snapshot accounts for the change of the total since the one before, to
\* within a digit, and the last one has the row's total.
THEOREM AuditIsWithinADigit == Spec => []AuditWithinADigit
<1>1. IInv => AuditWithinADigit
  BY DEF IInv
<1> QED
  BY <1>1, Invariant, PTL

\* With trades of no more digits than the columns, the check of the total is a check
\* of the lots: no sell runs into the expect of consume_fifo.
THEOREM FittingTradesAreExact == Spec => []ColumnDigitsAreExact
<1>1. IInv => ColumnDigitsAreExact
  <2> SUFFICES ASSUME IInv, \A e \in processed : FitsColumns(e)
               PROVE  /\ row.total_quantity = TotalOf(row.lots)
                      /\ \A e \in Events \ processed : ~Panics(e)
    BY DEF ColumnDigitsAreExact
  <2>1. Covered(row)
    BY DEF IInv, Exact
  <2>2. ASSUME NEW e \in Events PROVE ~Panics(e)
    <3> SUFFICES ASSUME Panics(e) PROVE FALSE
      OBVIOUS
    <3>1. ~Rejects(row, e) /\ TradeOf[e].side = "sell" /\ Sold(row, e).left > 0
      BY DEF Panics
    <3>2. Sold(row, e).left = 0
      BY <2>1, <3>1, CheckSuffices
    <3> QED
      BY <3>1, <3>2
  <2> QED
    BY <2>1, <2>2 DEF Covered
<1> QED
  BY <1>1, Invariant, PTL
=============================================================================
