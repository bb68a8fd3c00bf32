-------------------------- MODULE MCMarketDataServer --------------------------
(***************************************************************************)
(* A market data server with two orders of one unit, in one level or two.  *)
(***************************************************************************)
EXTENDS MarketDataServer

OneUnit == {1}
BookPrices == StartOfPrice .. StartOfPrice + NumOfLevels - 1

(* The ids that are given out and 0, which is not and shares an entry.     *)
NamedIds == 0 .. MaxOrders
=============================================================================
