-------------------------- MODULE MCLedgerService ---------------------------
(* Two replicas, and two trades: units bought, of which a part is sold.  Where 7 *)
(* is the largest Decimal the same buy a second time does not fit.               *)
EXTENDS LedgerService, TLC

CONSTANTS r1, r2, buy, sell, BTC

Body(a, s, q, p) == [asset |-> a, side |-> s, quantity |-> q, price |-> p]

MCWanted == buy :> Body(BTC, "buy", 4, 1) @@ sell :> Body(BTC, "sell", 3, 2)

Once     == [w \in DOMAIN MCWanted |-> 1]
BuyTwice == [Once EXCEPT ![buy] = 2]

Symmetry == Permutations(Replicas)
=============================================================================
