-------------------------- MODULE MCNumericColumns --------------------------
(***************************************************************************)
(* Ten units to the last digit of a column.  In the order given,           *)
(* ledger-service takes all of these trades: no sell is of more than was   *)
(* bought before it.  The columns refuse the last for its price.           *)
(***************************************************************************)
EXTENDS NumericColumns, TLC

CONSTANTS half, tiny, odd, whole, cheap, part, loss, rest, dear, BTC

Trade(s, q, p) == [asset |-> BTC, side |-> s, quantity |-> q, price |-> p]

MCTradeOf == half  :> Trade("buy", 5, 3)
          @@ tiny  :> Trade("buy", 4, 2)
          @@ odd   :> Trade("buy", 18, 5)
          @@ whole :> Trade("buy", 40, 7)
          @@ cheap :> Trade("buy", 30, 1)
          @@ part  :> Trade("sell", 7, 4)
          @@ loss  :> Trade("sell", 15, 2)
          @@ rest  :> Trade("sell", 20, 9)
          @@ dear  :> Trade("buy", 10, 11)
=============================================================================
