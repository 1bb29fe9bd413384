---------------------------- MODULE ExactlyOnce -----------------------------
(***************************************************************************)
(* What pnl-consumer promises of its database, whatever Kafka, the other   *)
(* instances and the crashes do: the three tables change only by the whole *)
(* effect of one event, on the row as it is at that moment, and an event   *)
(* has its effect at most once.  There is no transaction, lock, message or *)
(* offset here: this is what a reader of the tables sees.  What an event   *)
(* does to a portfolio is a parameter.                                     *)
(***************************************************************************)
EXTENDS Sequences

CONSTANTS
  Assets, Events,
  EmptyPortfolio,    \* the portfolio of an asset before its first event
  AssetOf(_),        \* the asset that an event is about
  Rejects(_, _),     \* the portfolio does not admit the event
  Applied(_, _),     \* the portfolio after an event it admits
  RealizedOf(_, _)   \* the profit or loss that the event realizes

VARIABLES
  processed_events,   \* the event_ids of the table
  portfolio_state,    \* the rows of the table, by asset
  pnl_snapshots       \* per asset, the snapshots in the order of their commits

vars == <<processed_events, portfolio_state, pnl_snapshots>>

\* What a reader gets: an empty portfolio if the asset has no row yet.
PortfolioOf(a) ==
  IF a \in DOMAIN portfolio_state THEN portfolio_state[a] ELSE EmptyPortfolio

\* The table with the asset's row set.
WithRow(a, row) ==
  [b \in DOMAIN portfolio_state \union {a} |-> IF b = a THEN row ELSE portfolio_state[b]]

Init == /\ processed_events = {}
        /\ portfolio_state  = << >>
        /\ pnl_snapshots    = [a \in Assets |-> << >>]

ApplyOnce(e) ==
  LET a      == AssetOf(e)
      before == PortfolioOf(a)
      after  == Applied(before, e)
  IN  /\ e \notin processed_events
      /\ ~Rejects(before, e)
      /\ processed_events' = processed_events \union {e}
      /\ portfolio_state'  = WithRow(a, after)
      /\ pnl_snapshots'    =
           [pnl_snapshots EXCEPT ![a] =
              Append(@, [event_id           |-> e,
                         realized_pnl       |-> RealizedOf(before, e),
                         total_realized_pnl |-> after.total_realized_pnl])]

Next == \E e \in Events : ApplyOnce(e)

Spec == Init /\ [][Next]_vars
=============================================================================
