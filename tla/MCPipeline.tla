----------------------------- MODULE MCPipeline -----------------------------
(* Two lots at different prices and a sell that the second one covers alone, so *)
(* that the order of the events decides which lots it takes, and whether it is  *)
(* admitted.  A body that is no valid trade, and one whose notional value does  *)
(* not fit where 10 is the largest Decimal.  Each is sent once.                 *)
EXTENDS Pipeline, TLC

CONSTANTS r1, cheap, dear, sell, empty, huge, BTC

Body(a, s, q, p) == [asset |-> a, side |-> s, quantity |-> q, price |-> p]

MCWanted == cheap :> Body(BTC, "buy", 1, 3)
         @@ dear  :> Body(BTC, "buy", 2, 4)
         @@ sell  :> Body(BTC, "sell", 2, 5)
         @@ empty :> Body(Blank, "buy", 1, 1)
         @@ huge  :> Body(BTC, "buy", 3, 4)

Once == [w \in DOMAIN MCWanted |-> 1]
=============================================================================
