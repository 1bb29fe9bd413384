------------------------- MODULE MCLedgerPortfolio --------------------------
(* Two assets, small quantities and prices; market prices of every sign. *)
EXTENDS LedgerPortfolio, TLC

CONSTANTS BTC, ETH

MCMarketPrices == {-1, 0, 3}

Symmetry == Permutations(Assets)
=============================================================================
