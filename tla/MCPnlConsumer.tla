--------------------------- MODULE MCPnlConsumer ----------------------------
(* A small group for TLC: two instances, two partitions. *)
EXTENDS PnlConsumer, TLC

CONSTANTS c1, c2, p1, p2, buy, more, sell, hold, poison, BTC

Trade(a, s, q, p) == [asset |-> a, side |-> s, quantity |-> q, price |-> p]

\* Two lots of one asset, and a sell across both that must come after them.
MCTradeOf == buy  :> Trade(BTC, "buy", 2, 3)
          @@ more :> Trade(BTC, "buy", 1, 5)
          @@ sell :> Trade(BTC, "sell", 2, 7)
          @@ hold :> Trade(BTC, "other", 1, 1)

\* Trades are keyed by trade_id: those of one asset are in different partitions.
MCPartitionOf == buy :> p1 @@ more :> p2 @@ sell :> p2 @@ hold :> p1 @@ poison :> p1

Symmetry == Permutations(Consumers)
=============================================================================
