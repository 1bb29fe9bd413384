----------------------------- MODULE UnitQueue ------------------------------
(***************************************************************************)
(* First in, first out, unit by unit: what FIFO accounting means, with no  *)
(* lots, partial fills or running totals.  Per asset there is a queue of   *)
(* the units held, each known by the price it was bought at.               *)
(***************************************************************************)
EXTENDS Integers, Sequences, SequencesExt

CONSTANTS Assets, Quantities, Prices

VARIABLES units,      \* per asset, what each unit held has cost, oldest first
          realized    \* profit and loss of all units sold

vars == <<units, realized>>

Init == units = [a \in Assets |-> << >>] /\ realized = 0

Buy(a, q, p) ==
  /\ units' = [units EXCEPT ![a] = @ \o [i \in 1 .. q |-> p]]
  /\ UNCHANGED realized

\* The q oldest units leave, and each realizes the difference of the prices.
Sell(a, q, p) ==
  /\ q <= Len(units[a])
  /\ units'    = [units EXCEPT ![a] = SubSeq(@, q + 1, Len(@))]
  /\ realized' = realized + FoldLeft(LAMBDA sum, cost : sum + (p - cost), 0,
                                     SubSeq(units[a], 1, q))

Next == \E a \in Assets, q \in Quantities, p \in Prices : Buy(a, q, p) \/ Sell(a, q, p)

Spec == Init /\ [][Next]_vars
=============================================================================
